CONSTANTS
  Conns = {c1, c2}
  None = None
  Ids = {11, 12}
  MaxFd = 2
  MaxTid = 1
  SyncTries = 2
  RxCap = 1
  PendCap = 1
  Faults = {"kill", "early", "revoke", "stale", "loss", "slow"}
SYMMETRY ConnSymmetry
SPECIFICATION Spec
PROPERTIES CleanupReleasesIds
