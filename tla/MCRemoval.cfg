SPECIFICATION Spec
CONSTANTS
    k1 = k1
    k2 = k2
    k3 = k3
    Clients = {main}
    Maintainers = {}
    Sweepers = {}
    Keys = {k1, k2}
    Values = {v1}
    TTLs = {1}
    ShardCount = 1
    Hash <- OneShard
    Capacity = 1
    TimeMod = 16
    MaxTime = 2
    ClockStepsBack = FALSE
    MemoryLimit = 1
    MemoryMod = 8
    MaxReserved = 2
    MaxReleased = 1
    None = None
PROPERTIES
    RemovalIsReleased
