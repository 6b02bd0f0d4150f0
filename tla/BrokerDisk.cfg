CONSTANTS
  alice = alice
  bob = bob
  m1 = m1
  m2 = m2
  m3 = m3
  NoMsg = NoMsg
  Cid = {alice, bob}
  Msg = {m1, m2}
  Empty = {m2}
  Long = {}
  SYS <- NoSys
  Topic <- Topics
  TopicOf <- AllX
  Filter <- WildOnly
  WillOf <- WillOfM1
  WillRetain = TRUE
  WILL_QOS = 1
  WRITE_QUEUE_CAP = 3
  IN_FLIGHT_CAP = 2
  MAX_PID = 2
  OFFLINE_CAP = 2
  PUB_QOS = {1}
  Requests <- WildQos1
  RETAIN = {TRUE, FALSE}
  Subscribers = {alice}
  Publishers = {bob}
  CleanOf <- AliceChooses
  UNIQUE_IDS = TRUE
  DISK_FAILS = TRUE
  MAX_TOKEN = 2
  MAX_SUBS = 1
  MAX_CRASH = 1
  FIELD = 4
  TopicText <- TopicTexts
  PayloadText <- PayloadTexts
  FilterText <- FilterTexts
  CidText <- CidTexts
SPECIFICATION Spec
CHECK_DEADLOCK FALSE
INVARIANTS SavedWhenClean FileRestores TornFileRejected
PROPERTIES EventuallySaved 
