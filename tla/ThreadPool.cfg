SPECIFICATION FairSpec
CONSTANTS
  Workers = {w1, w2}
  Producers = {p1, p2}
  Requests = {r1}
  NoRequest = NoRequest
  Nobody = Nobody
  MaxRequests = 1
  MaxInterrupts = 1
  FreedReads = {TRUE, FALSE}
INVARIANTS
  TypeOK
  LockInv
  TakeSafe
  
  NoLostWakeup
PROPERTIES
  ImplementsPool
  ImplementsLivePool
  EveryRequestServed
CHECK_DEADLOCK FALSE
