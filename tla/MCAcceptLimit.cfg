SPECIFICATION Spec
CONSTANTS
    c1 = c1
    Clients = {c1, c2}
    Scripts <- OneRequest
    MaxFds = 1
    Chunk = 3
    SendRoom = 1
    MaxTime = 1
    Capacity = 1
    TimeMod = 16
    Number <- Numbers
    Negative = {}
CHECK_DEADLOCK FALSE
PROPERTIES
    LimitOnlyRejects
