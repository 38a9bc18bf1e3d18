SPECIFICATION FairSpec
CONSTANTS
    Procs = {p1, p2, p3}
    Nobody = Nobody
    Environments <- LateAndKilled
PROPERTIES CommandsEnd DaemonsEnd
CHECK_DEADLOCK FALSE
