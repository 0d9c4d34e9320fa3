SPECIFICATION Spec
CONSTANTS
    k1 = k1
    k2 = k2
    k3 = k3
    Clients = {main, other}
    Maintainers = {}
    Sweepers = {}
    Keys = {k1, k2}
    Values = {v1}
    TTLs = {}
    ShardCount = 1
    Hash <- OneShard
    Capacity = 2
    TimeMod = 16
    MaxTime = 1
    ClockStepsBack = TRUE
    MemoryLimit = 2
    MemoryMod = 1
    MaxReserved = 2
    MaxReleased = 2
    None = None
SYMMETRY KeySymmetry
INVARIANTS
    PolicyAgreesWithShards
