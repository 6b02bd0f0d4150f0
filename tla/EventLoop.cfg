CONSTANTS
  alice = alice
  bob = bob
  m1 = m1
  will = will
  NoMsg = NoMsg
  Cid = {alice, bob}
  Msg = {m1, will}
  Empty = {}
  Long = {m1}
  SYS <- NoSys
  Topic <- Topics
  TopicOf <- OnX
  Filter <- All
  WillOf <- WillOfBob
  WillRetain = FALSE
  WILL_QOS = 1
  WRITE_QUEUE_CAP = 3
  IN_FLIGHT_CAP = 1
  MAX_PID = 3
  OFFLINE_CAP = 2
  PUB_QOS = {1}
  Requests <- NoRequests
  RETAIN = {FALSE}
  Subscribers = {alice}
  Publishers = {alice, bob}
  CleanOf <- AllPersist
  UNIQUE_IDS = FALSE
  DISK_FAILS = FALSE
  MAX_TOKEN = 2
  MAX_SUBS = 2
  MAX_CRASH = 0
  StateFile <- Both
  CidOf <- Owners
  Slow = {1}
  CHUNK = 2
  MAX_SENT <- TwoAndThree
SPECIFICATION LoopSpec
CHECK_DEADLOCK FALSE
VIEW WithoutFile
INVARIANT LoopTypeOK
PROPERTIES   Served ClosedReclaimed
