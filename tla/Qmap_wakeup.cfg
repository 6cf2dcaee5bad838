SPECIFICATION FairSpec
CONSTANTS
  d1 = d1
  Devs = {d1}
  Sizes = {1}
  MaxDatagrams = 2
  MaxSize = 4
  TxQLen = 2
  MaxPackets = 3
  MaxChanges = 0
  MaxEvents = 3
PROPERTIES QueueRestarts
CHECK_DEADLOCK FALSE
