SPECIFICATION MCSpec
CONSTANTS
  k1 = k1
  k2 = k2
  f1 = f1
  f2 = f2
  u1 = u1
  u2 = u2
  c1 = c1
  c2 = c2
  p1 = p1
  p2 = p2
  None = None
  Fd = {f1, f2}
  MaxAge = 1
  LastLogin = 2
  Conn = {k1, k2}
  Name = {u1, u2}
  Plain = {u2}
  Id = {0, 1, 2}
  Rows <- Accounts
  MaxControl = 3
  MaxEdits = 1
  Child = {c1, c2}
  NoChild = NoChild
  Peer = {p1, p2}
  NoPeer = NoPeer
  Tool = {p1}
  Scripts <- ToolAndOther
  MaxStart = 3
INVARIANTS
  MCTypeOK
  QueueOwned
  LostOnlyByReuse
  RightEntries
PROPERTIES
  
  CheckReturns
  Obeyed
CHECK_DEADLOCK FALSE
