SPECIFICATION Spec
CONSTANTS
    k1 = k1
    v1 = v1
    v2 = v2
    nv = nv
    Nul = {nv}
    Lines <- Commands
    RecvSize = 4
    MaxCommands = 3
    MaxTime = 1
    Capacity = 1
    TimeMod = 16
    Number <- Numbers
    Negative = {"-1"}
CHECK_DEADLOCK FALSE
INVARIANTS
    ErrorsAreReported
