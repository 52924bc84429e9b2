SPECIFICATION Spec
CONSTANTS
  k1 = k1
  k2 = k2
  k3 = k3
  u1 = u1
  u2 = u2
  f1 = f1
  f2 = f2
  NoFd = NoFd
  NoConn = NoConn
  User = {u1, u2}
  Fd = {f1, f2}
  MaxAge = 1
  LastLogin = 0
  Conn = {k1, k2}
  Login <- OneUser
PROPERTIES AuthenticatedStays
CHECK_DEADLOCK FALSE
