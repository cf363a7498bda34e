SPECIFICATION QuerySpec
CONSTANTS
    q1 = q1
    q2 = q2
    e1 = e1
    e2 = e2
    e3 = e3
    e4 = e4
    Clouds = {"AWS", "Azure", "GCP"}
    Queries = {q1, q2}
    Instances = {e1, e2, e3}
    MaxInstances = 1
    MaxStops = 1
INVARIANTS
    OverrunBounded
CHECK_DEADLOCK FALSE
