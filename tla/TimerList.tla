------------------------------- MODULE TimerList --------------------------------
(***************************************************************************)
(* A program on a sort_timer_list, whose callbacks may use the list too.   *)
(***************************************************************************)
EXTENDS SortTimerList

CONSTANTS
  ListTimeouts,   \* what a timer's expire is set to, from the time it is set
  MaxListTime     \* how far the clock runs

ASSUME TimerListAssumption ==
  /\ NULL \notin Timers /\ NULL \notin Nat
  /\ ListTimeouts \subseteq Nat
  /\ MaxListTime \in Nat

VARIABLES
  timer_list,
  now,            \* time(NULL)
  tickCur,        \* tick's local cur, NULL while there is no tick
  inCallback      \* in tmp->cb_func

listVars == <<timer_list, now, tickCur, inCallback>>

ListInit ==
  /\ timer_list = EmptyList
  /\ now = 0
  /\ tickCur = NULL
  /\ inCallback = FALSE

(* tick() fires its tmp, which is the head.  A program touches no timer    *)
(* that fired or is firing.                                                *)
ListPending == timer_list.live \ (IF inCallback THEN {timer_list.head} ELSE {})

Calling == tickCur = NULL \/ inCallback

ListAdd(t, timeout) ==
  /\ Calling
  /\ t \notin timer_list.live
  /\ timer_list' = AddTimer(NewTimer(timer_list, t, now + timeout), t)
  /\ UNCHANGED <<now, tickCur, inCallback>>

(* The program puts expire off and then calls adjust_timer.                *)
ListAdjust(t, timeout) ==
  /\ Calling
  /\ t \in ListPending
  /\ now + timeout >= timer_list.expire[t]
  /\ timer_list' = AdjustTimer([timer_list EXCEPT !.expire[t] = now + timeout], t)
  /\ UNCHANGED <<now, tickCur, inCallback>>

ListDel(t) ==
  /\ Calling
  /\ t \in ListPending
  /\ timer_list' = DelTimer(timer_list, t)
  /\ UNCHANGED <<now, tickCur, inCallback>>

(* With no head tick() returns at once, with or without a look at time().  *)
ListTick ==
  /\ tickCur = NULL
  /\ tickCur' = now
  /\ UNCHANGED <<timer_list, now, inCallback>>

ListFire ==
  /\ tickCur # NULL /\ ~inCallback
  /\ HeadExpired(timer_list, tickCur)
  /\ inCallback' = TRUE
  /\ UNCHANGED <<timer_list, now, tickCur>>

ListFired ==
  /\ inCallback
  /\ timer_list' = PopHead(timer_list)
  /\ inCallback' = FALSE
  /\ UNCHANGED <<now, tickCur>>

ListTickEnds ==
  /\ tickCur # NULL /\ ~inCallback
  /\ ~HeadExpired(timer_list, tickCur)
  /\ tickCur' = NULL
  /\ UNCHANGED <<timer_list, now, inCallback>>

ListTimePasses ==
  /\ now < MaxListTime
  /\ now' = now + 1
  /\ UNCHANGED <<timer_list, tickCur, inCallback>>

ListNext ==
  \/ \E t \in Timers :
       \/ ListDel(t)
       \/ \E timeout \in ListTimeouts : ListAdd(t, timeout) \/ ListAdjust(t, timeout)
  \/ ListTick \/ ListFire \/ ListFired \/ ListTickEnds \/ ListTimePasses

-------------------------------------------------------------------------------
ListDelay(timeout, byCallback) == timeout

ListSet == INSTANCE TimerSet WITH
  None <- NULL, Timeouts <- ListTimeouts, Delay <- ListDelay, Step <- 0,
  clock <- now, cur <- tickCur,
  due <- [t \in Timers |-> IF t \in ListPending THEN timer_list.expire[t] ELSE NULL]

(* Whatever is added, put off and deleted, by callbacks too, tick() runs   *)
(* the callbacks of the timers that are due, in the order of their times,  *)
(* each once, none that was deleted, and leaves no due timer behind.       *)
ListKeepsTime == ListSet!TimerSpec
===============================================================================
