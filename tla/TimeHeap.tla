-------------------------------- MODULE TimeHeap --------------------------------
(***************************************************************************)
(* time_heap (HTTP_server_learning/time_heap.h): timers in a binary        *)
(* min-heap by expiry, in an array that doubles when it is full.  A step   *)
(* is a call, but tick() has one for each callback, so that callbacks may  *)
(* call add_timer and del_timer.  array[hole] = parent (line 89) and       *)
(* array[hold] (line 155) are read as array[parent] and array[hole].       *)
(***************************************************************************)
EXTENDS Integers, FiniteSets

CONSTANTS
  HeapTimers,     \* the timers that can exist at a time
  NoHeapTimer,
  Delays,         \* the delays they are made with
  Capacities,     \* the capacities a heap is made with
  MaxTime         \* how far the clock runs

ASSUME TimeHeapAssumption ==
  /\ NoHeapTimer \notin HeapTimers \cup Nat
  /\ Delays \subseteq Nat
  /\ Capacities \subseteq Nat \ {0}
  /\ MaxTime \in Nat

VARIABLES
  array, cur_size,
  expire,         \* 0 for a timer that does not exist
  cb_func,        \* the timers whose cb_func is set
  time,           \* time(NoHeapTimer)
  cur,            \* tick's local, NoHeapTimer while there is no tick
  calling         \* a callback is running

heapVars == <<array, cur_size, expire, cb_func, time, cur, calling>>

capacity(a) == Cardinality(DOMAIN a)
InHeap == {array[i] : i \in 0 .. cur_size - 1}

-------------------------------------------------------------------------------
LeftChild(a, size, hole) == 2 * hole + 1                        \* mutant

SmallerChild(a, size, hole) ==
  LET child == 2 * hole + 1
  IN  IF child < size - 1 /\ expire[a[child + 1]] < expire[a[child]]
      THEN child + 1 ELSE child

(* percolate_down(hole) on the array a.                                    *)
PercolateDown(a, size, hole) ==
  LET tmp == a[hole]
      Sink[h \in DOMAIN a] ==
        LET child == SmallerChild(a, size, h)
        IN  IF 2 * h + 1 <= size - 1 /\ expire[a[child]] < expire[tmp]
            THEN [Sink[child] EXCEPT ![h] = a[child]]
            ELSE [a EXCEPT ![h] = tmp]
  IN  Sink[hole]

(* The loop of add_timer that lifts timer from the hole to its place.      *)
PercolateUp(a, hole, timer, e) ==
  LET Rise[h \in DOMAIN a] ==
        LET parent == (h - 1) \div 2
        IN  IF h > 0 /\ expire[a[parent]] > e
            THEN [Rise[parent] EXCEPT ![h] = a[parent]]
            ELSE [a EXCEPT ![h] = timer]
  IN  Rise[hole]

Resized(a, size) ==
  [i \in 0 .. 2 * capacity(a) - 1 |-> IF i < size THEN a[i] ELSE NoHeapTimer]

(* The constructor that takes an array: every position that may have       *)
(* children is percolated, the last first.                                 *)
Heapified(a, size) ==
  LET From[i \in -1 .. size] ==
        IF i > (size - 1) \div 2 THEN a ELSE PercolateDown(From[i + 1], size, i)
  IN  IF size = 0 THEN a ELSE From[0]

-------------------------------------------------------------------------------
HeapInit ==
  /\ \E cap \in Capacities : \E size \in 0 .. cap :
       \E init_array \in [0 .. size - 1 -> HeapTimers] :
         /\ \A i, j \in 0 .. size - 1 : init_array[i] = init_array[j] => i = j
         /\ cb_func = {init_array[i] : i \in 0 .. size - 1}
         /\ expire \in [HeapTimers -> Delays \cup {0}]
         /\ \A t \in HeapTimers : IF t \in cb_func THEN expire[t] \in Delays ELSE expire[t] = 0
         /\ cur_size = size
         /\ array = Heapified([i \in 0 .. cap - 1 |->
                                 IF i < size THEN init_array[i] ELSE NoHeapTimer], size)
  /\ time = 0
  /\ cur = NoHeapTimer
  /\ calling = FALSE

(* new heap_timer(delay), its callback and add_timer.                      *)
HeapAdd(t, delay) ==
  /\ cur = NoHeapTimer \/ calling
  /\ t \notin InHeap
  /\ LET a == IF cur_size >= capacity(array) THEN Resized(array, cur_size) ELSE array
     IN  array' = PercolateUp(a, cur_size, t, time + delay)
  /\ cur_size' = cur_size + 1
  /\ expire' = [expire EXCEPT ![t] = time + delay]
  /\ cb_func' = cb_func \cup {t}
  /\ UNCHANGED <<time, cur, calling>>

(* What a program may delete: not what fired already or is firing.         *)
HeapPending == (InHeap \cap cb_func) \ (IF calling THEN {array[0]} ELSE {})

HeapDel(t) ==
  /\ cur = NoHeapTimer \/ calling
  /\ t \in HeapPending
  /\ cb_func' = cb_func \ {t}
  /\ UNCHANGED <<array, cur_size, expire, time, cur, calling>>

(* delete array[0], the last in its place, percolate_down(0); the array    *)
(* keeps the pointer it had behind cur_size.                               *)
Popped ==
  /\ cur_size' = cur_size - 1
  /\ array' = PercolateDown([array EXCEPT ![0] = array[cur_size - 1]], cur_size - 1, 0)
  /\ cb_func' = cb_func \ {array[0]}
  /\ expire' = [expire EXCEPT ![array[0]] = 0]
  /\ UNCHANGED <<time, cur>>

(* pop_timer called by the program.                                        *)
HeapPop ==
  /\ cur = NoHeapTimer
  /\ cur_size > 0
  /\ Popped
  /\ UNCHANGED calling

HeapTick ==
  /\ cur = NoHeapTimer
  /\ cur' = time
  /\ UNCHANGED <<array, cur_size, expire, cb_func, time, calling>>

TopExpired == cur_size > 0 /\ expire[array[0]] <= cur

HeapFire ==
  /\ cur # NoHeapTimer /\ ~calling
  /\ TopExpired /\ array[0] \in cb_func
  /\ calling' = TRUE
  /\ UNCHANGED <<array, cur_size, expire, cb_func, time, cur>>

(* The callback has returned, or there was none: the top is popped.        *)
HeapFired ==
  /\ cur # NoHeapTimer
  /\ calling \/ (TopExpired /\ array[0] \notin cb_func)
  /\ Popped
  /\ calling' = FALSE

HeapTickEnds ==
  /\ cur # NoHeapTimer /\ ~calling
  /\ ~TopExpired
  /\ cur' = NoHeapTimer
  /\ UNCHANGED <<array, cur_size, expire, cb_func, time, calling>>

HeapTimePasses ==
  /\ time < MaxTime
  /\ time' = time + 1
  /\ UNCHANGED <<array, cur_size, expire, cb_func, cur, calling>>

HeapNext ==
  \/ \E t \in HeapTimers : HeapDel(t) \/ \E delay \in Delays : HeapAdd(t, delay)
  \/ HeapPop \/ HeapTick \/ HeapFire \/ HeapFired \/ HeapTickEnds \/ HeapTimePasses

-------------------------------------------------------------------------------
HeapDelay(delay, inCallback) == delay

HeapSet == INSTANCE TimerSet WITH
  Timers <- HeapTimers, None <- NoHeapTimer, Timeouts <- Delays, Delay <- HeapDelay,
  Step <- 0, clock <- time,
  due <- [t \in HeapTimers |-> IF t \in HeapPending THEN expire[t] ELSE NoHeapTimer]

(* Whatever is added, deleted and popped, by callbacks too, tick() runs    *)
(* the callbacks of the timers that are due, in the order of their times,  *)
(* each once, none that was deleted, and leaves no due timer behind.       *)
HeapKeepsTime == HeapSet!TimerSpec
===============================================================================
