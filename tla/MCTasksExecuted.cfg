SPECIFICATION FairSpec
CONSTANTS
    Workers = {w1}
    Producers = {p1}
    Tasks = {a}
CHECK_DEADLOCK FALSE
PROPERTIES
    EveryTaskIsExecuted
