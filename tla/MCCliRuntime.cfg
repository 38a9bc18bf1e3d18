SPECIFICATION Spec
CONSTANTS
    k1 = k1
    k2 = k2
    c1 = c1
    c2 = c2
    Procs = {p1, p2}
    Keys = {k1, k2}
    Chains = {c1, c2}
    Default = c1
    Unsupported = c0
    Shells <- SomeShells
    Options <- SomeOptions
    Setups <- SomeSetups
    None = None
    MaxRuns = 3
SYMMETRY Symmetry
INVARIANTS TypeOK SpendsFromWallet SignsAsReported NodesServe
CHECK_DEADLOCK FALSE
