SPECIFICATION Spec
CONSTANTS
    Ops = {o1, o2, o3}
    Amounts = {1, 2}
    Routers = {r1, r2}
    None = None
    Funds = 3
    NetworkFails = TRUE
    RouterReverts = TRUE
    ReceiptFails = TRUE
SYMMETRY OpSymmetry
INVARIANTS TypeOK NeverMoreThanAsked DoneMeansMoved AllowanceHolds
CHECK_DEADLOCK FALSE
