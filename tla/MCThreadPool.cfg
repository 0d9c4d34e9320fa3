SPECIFICATION FairSpec
CONSTANTS
    Workers = {w1, w2}
    Producers = {p1, p2}
    Tasks = {a, b, c}
CHECK_DEADLOCK FALSE
INVARIANTS
    TakenInOrder
    NoLostWakeup
    DrainedBeforeExit
PROPERTIES
    EveryTaskIsTaken
    ShutdownCompletes
