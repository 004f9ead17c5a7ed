\* A buyer and a silent payment: the scan writes beside the daemon's ledger, and
\* only a restart shows the daemon what it wrote.
CONSTANTS
  Buyer = {b1}
  Income = {s1}
  Amount = {1}
  Nobody = Nobody NoIndex = NoIndex
  MaxFaults = 1 MaxCrashes = 1
SPECIFICATION FairSpec
INVARIANT DeliveryGate
PROPERTY PaymentBooked
