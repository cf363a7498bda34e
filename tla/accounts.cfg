SPECIFICATION FairSpec
CONSTANTS
    u1 = u1
    u2 = u2
    u3 = u3
    q1 = q1
    q2 = q2
    Ids = {u1, u2, u3}
    Requests = {q1, q2}
    Locks = {u1, u2, u3}
    LockOf <- RowLocks
INVARIANTS
    ActorRemains
    FirstsBounded
PROPERTIES
    LastAdminGoesByItself
    RequestsEnd
CHECK_DEADLOCK FALSE
