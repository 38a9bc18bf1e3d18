SPECIFICATION Spec
CONSTANTS
    Procs = {p1, p2}
    Keys = {k1, k2}
    Passes = {w1, w2}
    Outs = {o1}
    None = None
    Torn = Torn
    WalletPath = WalletPath
    MaxTime = 1
    Environments <- Unforced
SYMMETRY Symmetry
PROPERTY OnlyForceOverwrites
CHECK_DEADLOCK FALSE
