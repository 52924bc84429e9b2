SPECIFICATION FairSpec
CONSTANTS
  t1 = t1
  t2 = t2
  Ticket = {t1, t2}
  NoTicket = NoTicket
  Level = {1, 2}
  MaxChange = 2
  MaxDrop = 1
INVARIANTS
  TypeOK
  SentOnce
PROPERTIES
  ClosesSent
  ChangesSent
CHECK_DEADLOCK FALSE
