SPECIFICATION FairSpec
CONSTANTS
    n1 = n1
    n2 = n2
    n3 = n3
    t1 = t1
    Numbers = {n1, n2, n3}
    Copies = {1, 2}
    Limit = 2
    Requests = {1, 2}
    Tasks = {t1}
    Deviations = 1
    MaxAttempts = 2
    MaxRetries = 1
    MaxCrashes = 1
    MaxLost = 1
INVARIANTS
    BookKept
    SentWasAccepted
    RepeatedOnlyForAReason
PROPERTIES
    ConfiguredIsServed
CHECK_DEADLOCK FALSE
