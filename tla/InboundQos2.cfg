CONSTANTS
  m1 = m1
  m2 = m2
  Msg = {m1, m2}
  WRITE_QUEUE_CAP = 2
  IN_FLIGHT_CAP = 1
  MAX_PID = 2
  RESENDS = TRUE
  SOCK_CAP = 1
  MAX_CONN = 2
  MAX_FORWARD = 2
SPECIFICATION Spec
CHECK_DEADLOCK FALSE
INVARIANTS TypeOK NoStaleId
PROPERTIES RoutesOnce Completes
