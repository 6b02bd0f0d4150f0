CONSTANTS
  alice = alice
  bob = bob
  m1 = m1
  m2 = m2
  m3 = m3
  NoMsg = NoMsg
  Cid = {alice, bob}
  Msg = {m1, m2}
  Empty = {}
  Long = {}
  SYS <- NoSys
  Topic <- Topics
  TopicOf <- AllX
  Filter <- WildOnly
  WillOf <- NoWills
  WillRetain = FALSE
  WILL_QOS = 1
  WRITE_QUEUE_CAP = 2
  IN_FLIGHT_CAP = 1
  MAX_PID = 2
  OFFLINE_CAP = 2
  PUB_QOS = {1}
  Requests <- WildQos1
  RETAIN = {FALSE}
  Subscribers = {alice}
  Publishers = {bob}
  CleanOf <- AlicePersists
  UNIQUE_IDS = TRUE
  DISK_FAILS = FALSE
  MAX_TOKEN = 3
  MAX_SUBS = 1
  MAX_CRASH = 0
SPECIFICATION Spec
CHECK_DEADLOCK FALSE
PROPERTIES ReconnectRestores
