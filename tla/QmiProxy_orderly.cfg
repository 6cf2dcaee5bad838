CONSTANTS
  Conns = {c1, c2}
  None = None
  Ids = {11, 12}
  MaxFd = 2
  MaxTid = 2
  SyncTries = 2
  RxCap = 2
  PendCap = 1
  Faults = {}
SPECIFICATION FairSpec
INVARIANTS TypeOK OneAtATime AnswersKeptApart NoIdLeaks OneOwner
PROPERTIES AskAnswered
