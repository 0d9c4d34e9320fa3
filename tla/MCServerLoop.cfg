SPECIFICATION Spec
CONSTANTS
    k1 = k1
    k2 = k2
    k3 = k3
    Clients = {main}
    Maintainers = {}
    Sweepers = {sweeper}
    Keys = {k1, k2, k3}
    Values = {v1}
    TTLs = {1}
    ShardCount = 2
    Hash <- OneShard
    Capacity = 2
    TimeMod = 16
    MaxTime = 2
    ClockStepsBack = TRUE
    MemoryLimit = 2
    MemoryMod = 1
    MaxReserved = 1
    MaxReleased = 2
    None = None
SYMMETRY KeySymmetry
INVARIANTS
    PolicyAgreesWithShards
