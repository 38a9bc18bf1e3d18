SPECIFICATION Spec
CONSTANTS
    Procs = {p1, p2, p3, p4}
    Nobody = Nobody
    Environments <- SendRetried
SYMMETRY Symmetry
INVARIANT RetryNeverRebroadcasts
CHECK_DEADLOCK FALSE
