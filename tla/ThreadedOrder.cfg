CONSTANTS
  a = a
  b = b
  m1 = m1
  m2 = m2
  Conn = {a, b}
  Msg = {m1, m2}
  Filter <- All
  PUB_QOS = {0, 1}
  SUB_QUEUE_CAP = 1
  SOCK_CAP = 1
  MAX_SUBS = 2
SPECIFICATION Spec
CHECK_DEADLOCK FALSE
SYMMETRY BothSymmetries
INVARIANTS TypeOK SameOrder
