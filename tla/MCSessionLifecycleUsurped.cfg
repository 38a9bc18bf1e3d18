SPECIFICATION Spec
CONSTANTS
    Procs = {p1, p2, p3, p4}
    Nobody = Nobody
    Environments <- SendBeside
SYMMETRY Symmetry
INVARIANT SessionReachable
CHECK_DEADLOCK FALSE
