SPECIFICATION Spec
CONSTANTS
    Keys = {k1, k2, k3}
    Values = {v1, v2}
    TTLs = {7}
    Capacity = 2
    MaxTime = 4
    TimeMod = 8
    None = None
PROPERTIES
    FreshKeyIsNotExpired
