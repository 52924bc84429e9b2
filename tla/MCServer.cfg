SPECIFICATION FairSpec
CONSTANTS
  s1 = s1
  s2 = s2
  Slot = {s1, s2}
  NoSlot = NoSlot
  Limit = 1
  Cluster = 2
  MaxTime = 2
  MaxConn = 2
  MaxFail = 2
INVARIANTS TypeOK OneLateAccept
PROPERTIES Returns Expires
CHECK_DEADLOCK FALSE
