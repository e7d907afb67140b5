CONSTANTS
    Id = {i1}
    Uri = {u1}
    Run = {r1, r2, r3}
    Path = {}
    None = None
    Lease = 1
    Gap = 9
    TxMax = 0
    MayLoseReply = TRUE
    MaxTime = 3
SPECIFICATION Spec
SYMMETRY Symmetry
PROPERTIES TakenOnlyIfLapsedOrMarked RefusedOnlyWhileRenewed
CHECK_DEADLOCK FALSE
