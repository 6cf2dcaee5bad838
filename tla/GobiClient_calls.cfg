CONSTANTS
  f1 = f1
  f2 = f2
  Files = {f1, f2}
  Ids = {1, 2, 3}
  WdaIds = {1}
  WDA = 1
  MaxTid = 2
  MaxData = 1
  MaxGets = 2
  MaxFaults = 1
  MaxEvents = 2
  MaxTries = 1
SPECIFICATION TidSpec
SYMMETRY Symmetry
INVARIANTS
  TypeOK
  WaiterHasNoData
  FileHasClient
  OwnAnswer
  NoFreedMemory
CHECK_DEADLOCK FALSE
