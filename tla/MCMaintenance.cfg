SPECIFICATION Spec
CONSTANTS
    k1 = k1
    k2 = k2
    k3 = k3
    Clients = {main}
    Maintainers = {main}
    Sweepers = {sweeper}
    Keys = {k1, k2}
    Values = {v1}
    TTLs = {1, 2}
    ShardCount = 2
    Hash <- OneShard
    Capacity = 2
    TimeMod = 16
    MaxTime = 4
    ClockStepsBack = FALSE
    MemoryLimit = 1
    MemoryMod = 8
    MaxReserved = 2
    MaxReleased = 1
    None = None
SYMMETRY KeySymmetry
INVARIANTS
    TypeOK
    IndexAgreesWithShards
PROPERTIES
    ExpiresOnlyDue
