CONSTANTS
  alice = alice
  bob = bob
  m1 = m1
  m2 = m2
  m3 = m3
  NoMsg = NoMsg
  Cid = {alice, bob}
  Msg = {m1, m2}
  Empty = {}
  Long = {}
  SYS <- SysM2
  Topic <- Topics
  TopicOf <- XAndY
  Filter <- XorY
  WillOf <- WillOfM1
  WillRetain = FALSE
  WILL_QOS = 1
  WRITE_QUEUE_CAP = 2
  IN_FLIGHT_CAP = 1
  MAX_PID = 2
  OFFLINE_CAP = 1
  PUB_QOS = {1}
  Requests <- OneOrBoth
  RETAIN = {FALSE}
  Subscribers = {alice, bob}
  Publishers = {bob}
  CleanOf <- AlicePersists
  UNIQUE_IDS = FALSE
  DISK_FAILS = FALSE
  MAX_TOKEN = 2
  MAX_SUBS = 2
  MAX_CRASH = 0
SPECIFICATION Spec
CHECK_DEADLOCK FALSE
VIEW NoFile
INVARIANTS TypeOK Bounded
PROPERTIES FanOutComplete 
