CONSTANTS
    HelloTries = 2
    PollTries = 2
    MaxAddr = 2
    MaxPend = 2
    MaxSame = 1
    MaxEvents = 1
SPECIFICATION FairSpec
INVARIANTS TypeOK OwnFinal
PROPERTIES StaleLinkEnds
CHECK_DEADLOCK FALSE
