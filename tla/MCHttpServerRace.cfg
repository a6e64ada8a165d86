SPECIFICATION Spec
CONSTANTS
  Workers = {w1, w2}
  MaxRequests = 2
  Conns = {c1, c2, c3}
  NoConn = NoConn
  FirstFd = 1
  LastFd = 1
  MaxFd = 2
  NoFd = NoFd
  RequestUnits = 1
  BufferUnits = 1
  MaxUnits = 1
  Outcomes = {"page", "empty"}
SYMMETRY Symmetry
INVARIANTS
  LostOnlyBySockfd
  CountBelowMax
CHECK_DEADLOCK FALSE
