SPECIFICATION FairSpec
CONSTANTS
    m1 = m1
    m2 = m2
    n1 = n1
    q1 = q1
    s1 = s1
    Mails = {m1, m2}
    Known = {m1, m2}
    Names = {n1}
    NameOf <- OneName
    Requests = {q1}
    Schedulers = {s1}
    MaxFaults = 1
    MaxUploads = 1
INVARIANTS
    CopiesBounded
    LostOnlyByFailure
PROPERTIES
    MailIsRead
CHECK_DEADLOCK FALSE
