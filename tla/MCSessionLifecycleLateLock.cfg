SPECIFICATION Spec
CONSTANTS
    Procs = {p1, p2, p3, p4}
    Nobody = Nobody
    Environments <- LateLocks
SYMMETRY Symmetry
INVARIANT RotationLocks
CHECK_DEADLOCK FALSE
