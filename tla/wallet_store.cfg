\* A session and three shells around one store; setups one after the other.
SPECIFICATION Spec
CONSTANTS
    mcp = mcp cli = cli other = other hatch = hatch a = a w = w s1 = s1
    Seed = {s1, s2}
    Words = {w}
    Passphrase = {a}
    Session = {mcp}
    Command = {cli, other, hatch}
    None = None Empty = Empty Spawned = Spawned
    Env <- MCEnv
    ParallelSetups = FALSE
    MaxCrashes = 1
INVARIANTS TypeOK DaemonsApart OneIdentity
