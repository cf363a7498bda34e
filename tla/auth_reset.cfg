SPECIFICATION Spec
CONSTANTS
    admin = admin
    bob = bob
    t1 = t1
    t2 = t2
    s1 = s1
    q1 = q1
    q2 = q2
    Users = {admin, bob}
    Admins = {admin}
    Tokens = {t1, t2}
    ResetTokens = {s1}
    Requests = {q1}
    TokenTTL = 2
    BlacklistTTL = 2
    ResetTTL = 1
    MaxTime = 4
INVARIANT ResetHonoured
