SPECIFICATION Spec
CONSTANTS
  a = a
  b = b
  p = p
  q = q
  k1 = k1
  k2 = k2
  k3 = k3
  w1 = w1
  w2 = w2
  Cust = {a}
  Oper = {p}
  Auth = {w1, w2}
  Conn = {k1, k2, k3}
  NoConn = NoConn
  User <- OneUser
  Follows <- OneFollows
  MaxOrder = 1
INVARIANTS RemovesWhatFailed
CHECK_DEADLOCK FALSE
