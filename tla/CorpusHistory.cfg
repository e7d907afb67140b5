CONSTANTS
    s1 = s1
    s2 = s2
    c1 = c1
    c2 = c2
    Source = {s1, s2}
    Chunk = {c1, c2}
    Hidden = Hidden
    TxMax = 1
    MaxTime = 3
SPECIFICATION HistorySpec
SYMMETRY Symmetry
INVARIANT VersionIdentifiesCorpus
CONSTRAINT InOrder
CHECK_DEADLOCK FALSE
