\* Two processes send, reconcile and scan; faults, no evictions.
SPECIFICATION Spec
CONSTANTS
    Tx = {t1, t2}
    Sp = {s1, s2}
    Coin = {c1}
    Proc = {cli, mcp}
    NoTx = NoTx
    MaxFaults = 1
    MaxEvictions = 0
SYMMETRY Symmetry
INVARIANTS TypeOK SpBooksMatchChain
