SPECIFICATION Spec
CONSTANTS
    Keys = {k1, k2, k3}
    Values = {v1, v2}
    TTLs = {0, 1, 6}
    Capacity = 2
    MaxTime = 3
    TimeMod = 8
    None = None
SYMMETRY Symmetry
INVARIANTS
    TypeOK
    StoreIsTrackedAndBounded
    IndexTracksStore
    OrderIsRecency
PROPERTIES
    FreshEntryIsLive
    VictimIsLeastRecentlyUsed
    CleanupTakesExactlyTheExpired
    ImplementsCache
