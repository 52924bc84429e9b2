SPECIFICATION Spec
CONSTANTS
  e1 = e1
  e2 = e2
  s1 = s1
  s2 = s2
  o1 = o1
  o2 = o2
  t1 = t1
  t2 = t2
  m1 = m1
  m2 = m2
  m3 = m3
  None = None
  Nothing = Nothing
  Stray = Stray
  Ea = {e1, e2}
  Follower = {e1}
  Sock = {s1, s2}
  Obj = {o1, o2}
  Magic = {m1, m2, m3}
  MaxLag = 3
  Terminal = {t1, t2}
  Table = {"FastBuy"}
  Name <- Names
  Feed <- Feeds
  Pair <- Pairs
  MaxQuote <- Quotes
SYMMETRY Symmetry
INVARIANTS
  TypeOK
  OwnSession
  SerialCallsSafe
  ClosesWhatItOpened
  InStep
  QuotesTogether
CHECK_DEADLOCK FALSE
