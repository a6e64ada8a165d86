SPECIFICATION FairSpec
CONSTANTS
  f1 = f1
  f2 = f2
  t1 = t1
  t2 = t2
  Fds = {f1, f2}
  Threads = {t1, t2}
  Controllers = {t1}
  Faulty = {t2}
  Interruptible = {t1}
  Carries <- TheKeys
  Raised = {"in"}
  NoFd = NoFd
  Interests <- TheInterests
  Timeouts <- TheTimeouts
  MaxEvents = 1
  MaxWatches = 2
INVARIANTS
  TypeOK
  LinkedOnce
  NoFreedItem
  SomebodyLooks
PROPERTIES
  ImplementsEventSet
  EveryReadyFileReported
