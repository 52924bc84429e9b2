SPECIFICATION Spec
CONSTANTS
  k1 = k1
  k2 = k2
  k3 = k3
  u1 = u1
  u2 = u2
  f1 = f1
  f2 = f2
  NoFd = NoFd
  NoConn = NoConn
  User = {u1, u2}
  Fd = {f1, f2}
  MaxAge = 0
  LastLogin = 1
  Conn = {k1, k2, k3}
  Login <- TwoUsers
INVARIANTS
  TypeOK
  OneSession
SYMMETRY Symmetry
CHECK_DEADLOCK FALSE
