\* Two fetches, two prices, a fault or a restart, and another client with a txid.
CONSTANTS
  Buyer = {b1, b2}
  Price = {1, 2}
  Nobody = Nobody
  RETRIES = 2
  Prompt = TRUE
  MaxFaults = 1 MaxOthers = 1
SPECIFICATION FairSpec
INVARIANTS PaywallTypeOK OneBuyPerClaim SoldForThePrice
PROPERTY PaidGetsBody
\* Every command has run and nothing is left to do.
CHECK_DEADLOCK FALSE
