CONSTANTS
    Id = {i1}
    Uri = {u1}
    Run = {r1, r2}
    Path = {1, 2}
    None = None
    Lease = 1
    Gap = 1
    TxMax = 0
    MayLoseReply = FALSE
    MaxTime = 2
SPECIFICATION FairSpec
INVARIANTS TypeOK OneWriter ReadyIsWhole
PROPERTIES ImplementsCorpus DeleteIsFinal SourcesSettle
CHECK_DEADLOCK FALSE
