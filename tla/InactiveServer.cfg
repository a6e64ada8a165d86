SPECIFICATION FairSpec
CONSTANTS
  Fds = {f1, f2}
  Timers = {t1, t2}
  NULL = NULL
  TIMESLOT = 1
INVARIANT TimersSound
PROPERTY SilentIsClosed
CHECK_DEADLOCK FALSE
