CONSTANTS
    MaxTid = 2
    OpenTries = 2
    MaxPend = 1
    MaxRx = 1
    MaxEvents = 1
SPECIFICATION FairSpec
INVARIANTS TypeOK AnswerIsOwn
PROPERTIES LossNoticed SessionEnds
CHECK_DEADLOCK FALSE
