\* Two runs of `cm pay': lost datagrams, esplora errors, a daemon death, time-outs
\* at any moment, and Notifies that are early, late, wrong or missing.
CONSTANTS
  Buyer = {b1, b2}
  Income = {}
  Amount = {1, 2}
  Nobody = Nobody NoIndex = NoIndex
  MaxFaults = 2 MaxCrashes = 1
SPECIFICATION Spec
SYMMETRY Symmetry
INVARIANTS TypeOK NoAddressReuse ReceivedIsReal DeliveryGate
