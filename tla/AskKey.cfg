CONSTANTS
    s1 = s1
    s2 = s2
    c1 = c1
    c2 = c2
    r1 = r1
    r2 = r2
    Source = {s1}
    Chunk = {c1}
    Request = {r1}
    Hidden = Hidden
    None = None
    TxMax = 0
    MaxTime = 1
SPECIFICATION Spec
INVARIANT KeyNamesAnsweringCorpus
CHECK_DEADLOCK FALSE
