SPECIFICATION FairLiveSpec
CONSTANTS
    v1 = v1
    v2 = v2
    Views = {v1, v2}
    MaxMounts = 2
    MaxSockets = 3
    MaxEffects = 3
    MaxLoads = 1
    MaxDrops = 1
INVARIANTS
    LinesBounded
    HeldIsKeptAlive
    ShownIsSelected
PROPERTIES
    PageReconnects
CHECK_DEADLOCK FALSE
