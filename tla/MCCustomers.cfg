SPECIFICATION Spec
CONSTANTS
  a = a
  b = b
  p = p
  q = q
  k1 = k1
  k2 = k2
  k3 = k3
  w1 = w1
  w2 = w2
  Cust = {a, b}
  Oper = {p, q}
  Auth = {w1, w2}
  Conn = {k1, k2, k3}
  NoConn = NoConn
  User <- MCUser
  Follows <- MCFollows
  MaxOrder = 1
INVARIANTS
  TypeOK
  ConnAccounting
  Isolation
  RegisteredIsListed
SYMMETRY Workers
CHECK_DEADLOCK FALSE
