\* One payer, three commands, every policy, mainnet; 7 wraps around with 1.
CONSTANTS
  ok = ok blocked = blocked
  Payer = {p}
  Policies <- AllPolicies
  Mainnet = TRUE
  Amount = {1, 2, 7}
  Fee = {1, 2}
  Address = {ok, blocked}
  Funds = 6 Word = 8 Window = 1
  Endpoints = 2
  SP_MIN_SATS = 2
  MaxClock = 2 MaxCommands = 3 MaxFaults = 1
SPECIFICATION Spec
INVARIANTS TypeOK PolicyHolds DailyCap
\* Every command has run and nothing is left to do.
CHECK_DEADLOCK FALSE
