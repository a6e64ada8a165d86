SPECIFICATION TimersSpec
CONSTANTS
  Timers = {t1, t2, t3, t4}
  NULL = NULL
  ListTimeouts = {0, 1, 2}
  MaxListTime = 2
  HeapTimers = {h1, h2, h3, h4}
  NoHeapTimer = NoHeapTimer
  Delays = {0, 1, 2}
  Capacities = {1, 4}
  MaxTime = 2
  WheelTimers = {w1, w2, w3}
  NoWheelTimer = NoWheelTimer
  N = 2
  SI = 2
  WheelTimeouts = {0, 3, 4, 7, 8}
  MaxTicks = 6
SYMMETRY Symmetry
PROPERTIES
  ListKeepsTime
  HeapKeepsTime
  
