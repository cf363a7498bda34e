SPECIFICATION MonitorSpec
CONSTANTS
    a1 = a1
    z1 = z1
    q1 = q1
    q2 = q2
    Queries = {q1, q2}
    Instances = {a1, z1}
    CloudOf <- TwoClouds
    RawStates <- FewStates
    StatusClients = {"AWS", "Azure"}
    CostClients = {"AWS"}
    Days = 2
    MaxChanges = 1
    MaxFaults = 1
SYMMETRY Alike
INVARIANTS
    ErrorsBounded
    SteadyIsShown
    RefusedForAReason
