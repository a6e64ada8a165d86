-------------------------------- MODULE TimerSet --------------------------------
(***************************************************************************)
(* What a container of timers promises its program, which calls tick() now *)
(* and then: a tick runs the callback of every timer due when it began,    *)
(* earliest first, once, and of no other; a timer deleted before never     *)
(* runs.  A timer may be put off.  Callbacks may do all this themselves.   *)
(***************************************************************************)
EXTENDS Integers

CONSTANTS
  Timers, None,
  Timeouts,       \* what timers are added with
  Delay(_, _),    \* from the addition of a timer to its time, by its timeout
                  \* and by whether a callback adds it
  Step            \* by how much a tick moves the clock: 0 where it is time()

VARIABLES
  clock,
  due,            \* a timer's time, None if it is not pending
  cur             \* the time at which the tick in progress began, or None

Pending == {t \in Timers : due[t] # None}

Init ==
  /\ clock = 0
  /\ due \in [Timers -> Timeouts \cup {None}]
  /\ cur = None

Add(t, timeout) ==
  /\ t \notin Pending
  /\ due' = [due EXCEPT ![t] = clock + Delay(timeout, cur # None)]
  /\ UNCHANGED <<clock, cur>>

PutOff(t, timeout) ==
  /\ t \in Pending
  /\ due[t] <= clock + Delay(timeout, cur # None)
  /\ due' = [due EXCEPT ![t] = clock + Delay(timeout, cur # None)]
  /\ UNCHANGED <<clock, cur>>

Delete(t) ==
  /\ t \in Pending
  /\ due' = [due EXCEPT ![t] = None]
  /\ UNCHANGED <<clock, cur>>

TickBegins ==
  /\ cur = None
  /\ cur' = clock
  /\ UNCHANGED <<clock, due>>

Fire(t) ==
  /\ cur # None
  /\ t \in Pending /\ due[t] <= cur
  /\ \A u \in Pending : due[t] <= due[u]
  /\ due' = [due EXCEPT ![t] = None]
  /\ UNCHANGED <<clock, cur>>

TickEnds ==
  /\ cur # None
  /\ \A t \in Pending : due[t] > cur
  /\ cur' = None
  /\ clock' = clock + Step
  /\ UNCHANGED due

TimePasses ==
  /\ Step = 0
  /\ clock' = clock + 1
  /\ UNCHANGED <<due, cur>>

Next ==
  \/ TickBegins \/ TickEnds \/ TimePasses
  \/ \E t \in Timers :
       \/ Delete(t) \/ Fire(t)
       \/ \E timeout \in Timeouts : Add(t, timeout) \/ PutOff(t, timeout)

TimerSpec == Init /\ [][Next]_<<clock, due, cur>>
===============================================================================
