SPECIFICATION FairSpec
CONSTANTS
    MaxCtlTid = 1
    MaxMuxTid = 2
    Slices = 2
    EvCap = 3
    MaxCalls = 2
    MaxInd = 1
INVARIANTS TypeOK NoDanglingPointer ReaderExitReleasesCall
PROPERTIES AcceptedAnswerIsReturned RefinesQmiCall StopEndsSession
