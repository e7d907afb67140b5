CONSTANTS
    r1 = r1
    r2 = r2
    Request = {r1, r2}
    Route = {"ask", "stream"}
    Limit = 1
    Window = 2
    Second = 2
    MaxTime = 5
SPECIFICATION FairSpec
INVARIANTS TypeOK AdmittedWithinLimit RefusedOverLimit RetryAfterIsEnough
PROPERTIES CountedKeysExpire EveryCheckEnds
CHECK_DEADLOCK FALSE
