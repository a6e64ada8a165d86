SPECIFICATION Spec
CONSTANTS
  Workers = {w1}
  MaxRequests = 1
  Conns = {c1, c2}
  NoConn = NoConn
  FirstFd = 1
  LastFd = 1
  MaxFd = 2
  NoFd = NoFd
  RequestUnits = 1
  BufferUnits = 1
  MaxUnits = 1
  Outcomes = {"empty"}
SYMMETRY Symmetry
INVARIANT SockfdIsOwn
CHECK_DEADLOCK FALSE
