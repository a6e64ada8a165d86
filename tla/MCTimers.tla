-------------------------------- MODULE MCTimers --------------------------------
(***************************************************************************)
(* A program that keeps its timers in a sort_timer_list, in a time_heap or *)
(* in a time_wheel.                                                        *)
(***************************************************************************)
EXTENDS TimerList, TimeHeap, TimeWheel

VARIABLE used

TimersInit ==
  /\ ListInit /\ HeapInit /\ WheelInit
  /\ \/ used = "heap"
     \/ used \in {"list", "wheel"} /\ DOMAIN array = {0} /\ cur_size = 0

TimersNext ==
  \/ used = "list" /\ ListNext /\ UNCHANGED <<used, heapVars, wheelVars>>
  \/ used = "heap" /\ HeapNext /\ UNCHANGED <<used, listVars, wheelVars>>
  \/ used = "wheel" /\ WheelNext /\ UNCHANGED <<used, listVars, heapVars>>

TimersSpec == TimersInit /\ [][TimersNext]_<<used, listVars, heapVars, wheelVars>>

Symmetry == Permutations(HeapTimers)
===============================================================================
