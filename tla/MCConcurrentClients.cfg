SPECIFICATION Spec
CONSTANTS
    k1 = k1
    k2 = k2
    k3 = k3
    Clients = {c1, c2}
    Maintainers = {}
    Sweepers = {}
    Keys = {k1, k2, k3}
    Values = {v1, v2}
    TTLs = {}
    ShardCount = 2
    Hash <- TwoInOne
    Capacity = 1
    TimeMod = 16
    MaxTime = 1
    ClockStepsBack = FALSE
    MemoryLimit = 2
    MemoryMod = 1
    MaxReserved = 1
    MaxReleased = 2
    None = None
SYMMETRY Symmetry
INVARIANTS
    NoDataRace
PROPERTIES
    ImplementsAtomicStore
