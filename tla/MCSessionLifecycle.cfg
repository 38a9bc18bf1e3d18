SPECIFICATION Spec
CONSTANTS
    Procs = {p1, p2, p3, p4}
    Nobody = Nobody
    Environments <- CalmAndRough
SYMMETRY Symmetry
INVARIANTS TypeOK OrderlySessionReachable OrderlyRotationLocks FailedUnlockLeavesNoDaemon NoStaleFiles
PROPERTY PromiseSpec
CHECK_DEADLOCK FALSE
