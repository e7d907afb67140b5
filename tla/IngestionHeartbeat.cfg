CONSTANTS
    Id = {i1, i2}
    Uri = {u1}
    Run = {r1, r2}
    Path = {1}
    None = None
    Lease = 1
    Gap = 1
    TxMax = 0
    MayLoseReply = FALSE
    MaxTime = 2
SPECIFICATION Spec
SYMMETRY Symmetry

PROPERTY HeartbeatExtendsHolder
CHECK_DEADLOCK FALSE
