\* One process, a fault, evictions, a reorganisation, and miners that keep what
\* esplora evicted.
SPECIFICATION FairSpec
CONSTANTS
    Tx = {t1, t2}
    Coin = {c1}
    Proc = {cli}
    Daemon = {}
    Unsigned = Unsigned
    MaxFaults = 1
    MaxReorgs = 1
    HiddenMempools = TRUE
INVARIANT FinalIsBuried
PROPERTY Settles
