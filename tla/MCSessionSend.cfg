SPECIFICATION Spec
CONSTANTS
    Clients = {c1, c2}
    Ids = {i1}
    a = a
    b = b
    big = big
    Calls <- MCCalls
    Oversized <- MCOversized
    NoConn = NoConn
    NoRequest = NoRequest
SYMMETRY Symmetry
INVARIANTS TypeOK AtMostOnce OkMeansMined OneAnswer RefusedNeverRuns
PROPERTY OnceSpec
CHECK_DEADLOCK FALSE
