SPECIFICATION ConnectionsSpec
CONSTANTS
  HeadUnits = 3
  FormUnits = 2
  PageUnits = 1
  FileSizes = {0, 1, 4}
  PartialWrites = FALSE
  USER_LIMIT = 3
  ConnFds = {c1, c2}
  NoFd = NoFd
  Junk = Junk
  Threads = {h1, h2, h3}
INVARIANTS
  SentIsWhole
  
  RoomSound
  OneReaderUnlessMisread
CHECK_DEADLOCK FALSE
