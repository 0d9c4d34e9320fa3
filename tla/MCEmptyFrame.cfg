SPECIFICATION Spec
CONSTANTS
    c1 = c1
    Clients = {c1}
    Scripts <- EmptyFrame
    MaxFds = 1
    Chunk = 2
    SendRoom = 1
    MaxTime = 1
    Capacity = 1
    TimeMod = 16
    Number <- Numbers
    Negative = {}
CHECK_DEADLOCK FALSE
INVARIANTS
    EmptyFrameIsAnswered
