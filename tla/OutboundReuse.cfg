CONSTANTS
  m1 = m1
  m2 = m2
  m3 = m3
  m4 = m4
  Msg = {m1,m2,m3,m4}
  NoMsg = NoMsg
  WRITE_QUEUE_CAP = 2
  IN_FLIGHT_CAP = 1
  MAX_PID = 3
  QOS1_MAX_RETRIES = 1
  BATCH_MAX = 1
  SOCK_CAP = 1
  KEEPALIVE = "off"
  FWD_QOS = {0, 1}
SPECIFICATION Spec
SYMMETRY MsgSymmetry
INVARIANTS TypeOK MemoryBounded RetryListed NoPidAliasing
PROPERTIES StreamInOrder KeepsPromise
