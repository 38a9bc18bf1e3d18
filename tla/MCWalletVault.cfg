SPECIFICATION Spec
CONSTANTS
    Procs = {p1, p2}
    Keys = {k1, k2}
    Passes = {w1, w2}
    Outs = {o1}
    None = None
    Torn = Torn
    WalletPath = WalletPath
    MaxTime = 1
    Environments <- ApartAndTogether
SYMMETRY Symmetry
INVARIANT TypeOK
PROPERTIES NothingLost BackedUp FailedLeavesWallet OneAccount RotationKeepsIdentity
CHECK_DEADLOCK FALSE
