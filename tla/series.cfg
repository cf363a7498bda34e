SPECIFICATION Spec
CONSTANTS
    base = base
    t1 = t1
    t2 = t2
    q1 = q1
    u1 = u1
    Tasks = {t1, t2}
    Requests = {q1, u1}
    Appends = {q1}
    Uploads = {u1}
    Base = base
    Baselines <- MCBaselines
    Contents <- MCContents
    Targets = {base, u1}
    Matches <- MCMatches
    Start = 6
    MaxTime = 8
    MaxFaults = 2
INVARIANTS
    VerdictIsCurrent
    NothingUsualAlerts
    RisingIsSeen
    OwnData
    AlertHasRecord
CHECK_DEADLOCK FALSE
