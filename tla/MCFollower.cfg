SPECIFICATION FairSpec
CONSTANTS
  t1 = t1
  t2 = t2
  Ticket = {t1, t2}
  Number = {1, 2}
  None = None
  MaxPool = 3
  MaxBox = 3
  MaxDrop = 2
INVARIANTS
  TypeOK
  NoOrphan
PROPERTIES
  ClosesItsCopies
  Recovers
CHECK_DEADLOCK FALSE
