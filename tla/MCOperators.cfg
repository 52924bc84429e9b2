SPECIFICATION FairSpec
CONSTANTS
  o = o
  k1 = k1
  k2 = k2
  k3 = k3
  w1 = w1
  w2 = w2
  Oper = {o}
  Auth = {w1, w2}
  Conn = {k1, k2, k3}
  NoConn = NoConn
  Owner <- OneOwner
  FD = {1, 2}
  MaxOrder = 1
INVARIANTS
  TypeOK
  NothingLost
  DanglingWindow
PROPERTIES
  SessionsDoNotOverlap
  LoginReturns
CHECK_DEADLOCK FALSE
