SPECIFICATION Spec
CONSTANTS
    Keys = {k1, k2, k3}
    Values = {v1, v2}
    TTLs = {0, 2}
    Capacity = 2
    MaxTime = 4
    TimeMod = 16
    None = None
PROPERTIES
    OnlyDueAreSwept
