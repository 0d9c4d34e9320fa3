SPECIFICATION FairSpec
CONSTANTS
    c1 = c1
    Clients = {c1, c2}
    Scripts <- Neighbours
    MaxFds = 2
    Chunk = 6
    SendRoom = 1
    MaxTime = 2
    Capacity = 1
    TimeMod = 16
    Number <- Numbers
    Negative = {}
CHECK_DEADLOCK FALSE
INVARIANTS
    FramesAreTheStream
    RepliesInOrder
    EverySocketIsManaged
PROPERTIES
    EveryClientIsServed
