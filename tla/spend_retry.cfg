\* One pay command, a card with two endpoints, one error.
CONSTANTS
  ok = ok blocked = blocked
  Payer = {p}
  Policies <- DailyOnly
  Mainnet = TRUE
  Amount = {1}
  Fee = {1}
  Address = {ok, blocked}
  Funds = 6 Word = 8 Window = 1
  Endpoints = 2
  SP_MIN_SATS = 1
  MaxClock = 0 MaxCommands = 1 MaxFaults = 1
SPECIFICATION Spec
INVARIANT PaidOnce
\* Every command has run and nothing is left to do.
CHECK_DEADLOCK FALSE
