SPECIFICATION Spec
CONSTANTS
  d1 = d1
  d2 = d2
  Devs = {d1, d2}
  Sizes = {1, 2}
  MaxDatagrams = 2
  MaxSize = 4
  TxQLen = 1
  MaxPackets = 3
  MaxChanges = 2
  MaxEvents = 3
INVARIANTS TypeOK NothingStranded DatagramBounds AcceptedOnce CarrierFollowsLink
CHECK_DEADLOCK FALSE
