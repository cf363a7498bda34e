SPECIFICATION FairSpec
CONSTANTS
    r1 = r1
    n1 = n1
    w1 = w1
    w2 = w2
    Reports = {r1}
    Names = {n1}
    NameOf <- OneReport
    Workers = {w1, w2}
    MaxRetries <- RetryOnce
    RetryCap = 1
    MaxQueued = 1
    MaxCrashes = 1
INVARIANTS
    NothingStalls
    StageOrder
    StoredOnlyForAReason
    AlertIsHandedOn
PROPERTIES
    ComesToRest
    ParsedIsDetected
    ImplementsLifecycle
CHECK_DEADLOCK FALSE
