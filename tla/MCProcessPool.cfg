SPECIFICATION FairSpec
CONSTANTS
  N = 2
  Conns = {c1, c2}
  Talkers = {c1}
  Crashing = {1}
  PipeSize <- ThePipes
INVARIANTS
  TypeOK
  ParentGoesLast
  
PROPERTIES
  
  LineServed
CHECK_DEADLOCK FALSE
