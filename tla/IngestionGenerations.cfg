CONSTANTS
    Id = {i1, i2}
    Uri = {u1}
    Run = {r1, r2}
    Path = {1, 2}
    None = None
    Lease = 1
    Gap = 9
    TxMax = 1
    MayLoseReply = TRUE
    MaxTime = 2
SPECIFICATION Spec
SYMMETRY Symmetry
INVARIANT OneGeneration
CHECK_DEADLOCK FALSE
