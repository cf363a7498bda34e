SPECIFICATION Spec
CONSTANTS
    u1 = u1
    u2 = u2
    q1 = q1
    q2 = q2
    q3 = q3
    Users = {u1, u2}
    Requests = {q1, q2, q3}
    MaxAttempts = 2
    Window = 2
    MaxTime = 3
SYMMETRY Symmetry
INVARIANTS
    OverrunBounded
