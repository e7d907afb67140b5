CONSTANTS
    s1 = s1
    s2 = s2
    c1 = c1
    c2 = c2
    r1 = r1
    r2 = r2
    Source = {s1, s2}
    Chunk = {c1, c2}
    Request = {r1}
    Hidden = Hidden
    None = None
    TxMax = 0
    MaxTime = 2
SPECIFICATION Spec
SYMMETRY Symmetry
INVARIANT EntriesAreCurrent
CHECK_DEADLOCK FALSE
