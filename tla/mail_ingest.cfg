SPECIFICATION FairSpec
CONSTANTS
    m1 = m1
    m2 = m2
    i1 = i1
    i2 = i2
    i3 = i3
    i4 = i4
    p1 = p1
    p2 = p2
    s1 = s1
    Mails = {m1, m2}
    Ids = {i1, i2, i3, i4}
    Tasks = {p1}
    Schedulers = {s1}
    MaxRetries = 1
    MaxFaults = 1
INVARIANTS
    RowsBounded
    QueuedIsCommitted
    LostOnlyByFailure
    WaitingIsHandedOn
PROPERTY MailIsWritten
CHECK_DEADLOCK FALSE
