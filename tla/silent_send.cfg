SPECIFICATION Spec
CONSTANTS
    Q = 1009
    OutPoint = {1, 2, 3, 4, 5, 6}
    MaxIndex = 3
    InputHash <- MCInputHash
    SharedHash <- MCSharedHash
    TapHash <- MCTapHash
    MaxU64 = 1000000
    Coin <- MCCoin
    Income <- MCIncome
    Ask <- MCAsk
    Estimates <- MCEstimates
    MaxFee = 5000
    Blocked = {68}
    PayerSpend = 901
    Payee <- MCPayee
    ChangeKey = 600
    ForeignInput <- MCForeignInput
    MaxForeign = 3
    Network = {"mainnet", "signet"}
INVARIANTS
    TypeOK
    PaymentArrives
    FoundIsSpendable
    
