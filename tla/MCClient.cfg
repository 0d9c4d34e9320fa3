SPECIFICATION FairSpec
CONSTANTS
    k1 = k1
    v1 = v1
    v2 = v2
    nv = nv
    Nul = {nv}
    Lines <- Commands
    RecvSize = 3
    MaxCommands = 2
    MaxTime = 2
    Capacity = 1
    TimeMod = 16
    Number <- Numbers
    Negative = {"-1"}
CHECK_DEADLOCK FALSE
INVARIANTS
    AnswersAreTheReplies
    FirstWrongAnswerIsTorn
PROPERTIES
    ErrorsChangeNothing
    CommandReturns
