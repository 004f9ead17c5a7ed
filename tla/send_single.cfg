\* One process at a time, crashes, evictions, conflicting and chained spends.
SPECIFICATION Spec
CONSTANTS
    Tx = {t1, t2, t3}
    Coin = {c1}
    Proc = {cli}
    Daemon = {}
    Unsigned = Unsigned
    MaxFaults = 2
    MaxReorgs = 0
    HiddenMempools = FALSE
SYMMETRY Symmetry
INVARIANTS TypeOK WriteAhead Recoverable FailedNeverMoved BookedIsConfirmed SeqIncreases
PROPERTIES TerminalForever ImplementsPayment
