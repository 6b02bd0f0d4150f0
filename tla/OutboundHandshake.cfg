CONSTANTS
  m1 = m1
  Msg = {m1}
  NoMsg = NoMsg
  WRITE_QUEUE_CAP = 2
  IN_FLIGHT_CAP = 1
  MAX_PID = 2
  QOS1_MAX_RETRIES = 1
  BATCH_MAX = 2
  SOCK_CAP = 1
  KEEPALIVE = "live"
  FWD_QOS = {1, 2}
SPECIFICATION Spec
PROPERTIES ReliableResolved EventuallyHanded KeepsPromise
