------------------------------- MODULE TimeWheel --------------------------------
(***************************************************************************)
(* time_wheel (HTTP_server_learning/time_wheel_timer.cpp): a wheel of N    *)
(* slots, each a list of timers that wait some rotations more; every       *)
(* tick() handles one slot.  A step is a call, but tick() has one for each *)
(* timer it comes to and one for each callback, so that callbacks may call *)
(* add_timer and del_timer.                                                *)
(***************************************************************************)
EXTENDS Integers, Sequences, SequencesExt

CONSTANTS
  WheelTimers,    \* the timers that can exist at a time
  NoWheelTimer,
  N,              \* the slots (60 in the code)
  SI,             \* the interval between ticks (1)
  WheelTimeouts,  \* the timeouts timers are added with
  MaxTicks        \* how many ticks there are

ASSUME TimeWheelAssumption ==
  /\ NoWheelTimer \notin WheelTimers \cup Nat
  /\ N \in Nat \ {0} /\ SI \in Nat \ {0}
  /\ WheelTimeouts \subseteq Nat
  /\ MaxTicks \in Nat

VARIABLES
  slots,          \* slots[i]: its list, from the head
  cur_slot,
  rotation,       \* 0 for a timer that does not exist
  tmp,            \* in tick(): the timer it is at, NoWheelTimer at the end of the list
  phase,          \* "idle", "tick", "callback"
  ticked          \* history: how many ticks have ended

wheelVars == <<slots, cur_slot, rotation, tmp, phase, ticked>>

InSlot(i) == ToSet(slots[i])
InWheel == UNION {InSlot(i) : i \in 0 .. N - 1}
SlotOf(t) == CHOOSE i \in 0 .. N - 1 : t \in InSlot(i)

PlaceOf(list, t) == CHOOSE k \in 1 .. Len(list) : list[k] = t

(* NoWheelTimer is at the end of every list.                               *)
NextOf(list, t) ==
  IF PlaceOf(list, t) < Len(list) THEN list[PlaceOf(list, t) + 1] ELSE NoWheelTimer

WheelInit ==
  /\ slots = [i \in 0 .. N - 1 |-> << >>]
  /\ cur_slot = 0
  /\ rotation = [t \in WheelTimers |-> 0]
  /\ tmp = NoWheelTimer
  /\ phase = "idle"
  /\ ticked = 0

-------------------------------------------------------------------------------
Ticks(timeout) == IF timeout < SI THEN 1 ELSE timeout \div SI

RotationRounded(ticks) == (ticks + N - 1) \div N                \* mutant

Rotation(ticks) == ticks \div N

(* add_timer; a negative timeout is refused.                               *)
WheelAdd(t, timeout) ==
  /\ phase \in {"idle", "callback"}
  /\ t \notin InWheel
  /\ rotation' = [rotation EXCEPT ![t] = Rotation(Ticks(timeout))]
  /\ slots' = [slots EXCEPT ![(cur_slot + (Ticks(timeout) % N)) % N] = <<t>> \o @]
  /\ UNCHANGED <<cur_slot, tmp, phase, ticked>>

Unlinked(t) ==
  /\ slots' = [slots EXCEPT ![SlotOf(t)] = RemoveAt(@, PlaceOf(@, t))]
  /\ rotation' = [rotation EXCEPT ![t] = 0]

(* del_timer; a callback deletes any timer but its own, which tick() still *)
(* uses.                                                                   *)
WheelDel(t) ==
  /\ phase = "idle" \/ (phase = "callback" /\ t # tmp)
  /\ t \in InWheel
  /\ Unlinked(t)
  /\ UNCHANGED <<cur_slot, tmp, phase, ticked>>

-------------------------------------------------------------------------------
WheelTick ==
  /\ phase = "idle"
  /\ ticked < MaxTicks
  /\ phase' = "tick"
  /\ tmp' = IF slots[cur_slot] = << >> THEN NoWheelTimer ELSE Head(slots[cur_slot])
  /\ UNCHANGED <<slots, cur_slot, rotation, ticked>>

WheelTurns ==
  /\ phase = "tick" /\ tmp # NoWheelTimer
  /\ rotation[tmp] > 0
  /\ rotation' = [rotation EXCEPT ![tmp] = @ - 1]
  /\ tmp' = NextOf(slots[cur_slot], tmp)
  /\ UNCHANGED <<slots, cur_slot, phase, ticked>>

WheelFire ==
  /\ phase = "tick" /\ tmp # NoWheelTimer
  /\ rotation[tmp] = 0
  /\ phase' = "callback"
  /\ UNCHANGED <<slots, cur_slot, rotation, tmp, ticked>>

(* After the callback the timer is deleted and its successor comes next;   *)
(* of the head's it is the list's new head.                                *)
WheelFired ==
  /\ phase = "callback"
  /\ Unlinked(tmp)
  /\ tmp' = NextOf(slots[cur_slot], tmp)
  /\ phase' = "tick"
  /\ UNCHANGED <<cur_slot, ticked>>

WheelTickEnds ==
  /\ phase = "tick" /\ tmp = NoWheelTimer
  /\ cur_slot' = (cur_slot + 1) % N
  /\ phase' = "idle"
  /\ ticked' = ticked + 1
  /\ UNCHANGED <<slots, rotation, tmp>>

WheelNext ==
  \/ \E t \in WheelTimers :
       WheelDel(t) \/ \E timeout \in WheelTimeouts : WheelAdd(t, timeout)
  \/ WheelTick \/ WheelTurns \/ WheelFire \/ WheelFired \/ WheelTickEnds

-------------------------------------------------------------------------------
(* The timers tick() has yet to come to.                                   *)
Ahead ==
  LET list == slots[cur_slot]
  IN  IF phase = "idle" THEN ToSet(list)
      ELSE {list[k] : k \in {j \in 1 .. Len(list) :
                               \E i \in 1 .. j : list[i] = tmp}}

(* How many ticks pass a timer by before one fires it.                     *)
TicksLeft(t) ==
  LET ahead == ((SlotOf(t) - cur_slot) % N) + N * rotation[t]
  IN  IF SlotOf(t) = cur_slot /\ t \notin Ahead THEN ahead + N ELSE ahead

WheelPending == InWheel \ (IF phase = "callback" THEN {tmp} ELSE {})

(* A timeout of whole turns, added by a callback, goes into the slot that  *)
(* is just being handled, in front, and so is a turn late.                 *)
WheelDelay(timeout, inCallback) ==
  Ticks(timeout) + (IF inCallback /\ Ticks(timeout) % N = 0 THEN N ELSE 0)

WheelSet == INSTANCE TimerSet WITH
  Timers <- WheelTimers, None <- NoWheelTimer, Timeouts <- WheelTimeouts,
  Delay <- WheelDelay, Step <- 1, clock <- ticked,
  due <- [t \in WheelTimers |->
            IF t \in WheelPending THEN ticked + TicksLeft(t) ELSE NoWheelTimer],
  cur <- IF phase = "idle" THEN NoWheelTimer ELSE ticked

(* Whatever is added and deleted, by callbacks too, a timer fires in the   *)
(* tick after those its timeout is worth (one turn later in the case of    *)
(* WheelDelay), once, and never after it was deleted.                      *)
WheelKeepsTime == WheelSet!TimerSpec
===============================================================================
