SPECIFICATION Spec
CONSTANTS
  Workers = {w1}
  MaxRequests = 1
  Conns = {c1, c2, c3}
  NoConn = NoConn
  FirstFd = 1
  LastFd = 3
  MaxFd = 4
  NoFd = NoFd
  RequestUnits = 1
  BufferUnits = 1
  MaxUnits = 1
  Outcomes = {"page"}
SYMMETRY Symmetry
PROPERTY ReadQueuesOrCloses
CHECK_DEADLOCK FALSE
