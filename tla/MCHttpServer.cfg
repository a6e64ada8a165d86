SPECIFICATION FairSpec
CONSTANTS
  Workers = {w1, w2}
  MaxRequests = 2
  Conns = {c1, c2}
  NoConn = NoConn
  FirstFd = 1
  LastFd = 2
  MaxFd = 3
  NoFd = NoFd
  RequestUnits = 2
  BufferUnits = 2
  MaxUnits = 3
  Outcomes = {"file"}
INVARIANTS
  TypeOK
  OneOwner
  UserCountExact
  SockfdIsOwn
  ReplyIsOwn
PROPERTIES
  ReadQueuesOrCloses
  Answered
CHECK_DEADLOCK FALSE
