------------------------------ MODULE SortTimerList -----------------------------
(***************************************************************************)
(* sort_timer_list (HTTP_server_learning/sort_timer_list.cpp): a doubly    *)
(* linked list of timers by expiry, pointer by pointer.  A list l is a     *)
(* record of head and tail, of next, prev and expire for every timer, and  *)
(* of the timers that exist.                                               *)
(***************************************************************************)
EXTENDS Integers

CONSTANTS Timers, NULL

EmptyList ==
  [head |-> NULL, tail |-> NULL,
   next |-> [t \in Timers |-> NULL], prev |-> [t \in Timers |-> NULL],
   expire |-> [t \in Timers |-> 0], live |-> {}]

(* new util_timer, with its expire set.                                    *)
NewTimer(l, t, e) ==
  [l EXCEPT !.next[t] = NULL, !.prev[t] = NULL, !.expire[t] = e, !.live = @ \cup {t}]

Freed(l, t) ==
  [l EXCEPT !.next[t] = NULL, !.prev[t] = NULL, !.expire[t] = 0, !.live = @ \ {t}]

LastOnTail(l, t, list_head) ==                                  \* mutant
  [l EXCEPT !.next[l.tail] = t, !.prev[t] = l.tail, !.next[t] = NULL, !.tail = t]

(* The loop of the private add_timer: the last of list_head and those      *)
(* behind it that expire no later than t.                                  *)
LastNotAfter(l, t, list_head) ==
  LET place[p \in Timers] ==
        IF l.next[p] = NULL THEN p
        ELSE IF l.expire[t] < l.expire[l.next[p]] THEN p ELSE place[l.next[p]]
  IN  place[list_head]

AddAfter(l, t, list_head) ==
  LET before == LastNotAfter(l, t, list_head)
      after  == l.next[before]
  IN  IF after # NULL
      THEN [l EXCEPT !.next[before] = t, !.next[t] = after,
                     !.prev[after] = t, !.prev[t] = before]
      ELSE [l EXCEPT !.next[before] = t, !.next[t] = NULL,
                     !.prev[t] = before, !.tail = t]

AddTimer(l, t) ==
  CASE l.head = NULL -> [l EXCEPT !.head = t, !.tail = t]
    [] l.head # NULL /\ l.expire[t] < l.expire[l.head] ->
         [l EXCEPT !.next[t] = l.head, !.prev[l.head] = t, !.head = t]
    [] OTHER -> AddAfter(l, t, l.head)

(* A timer whose expire has grown.                                         *)
AdjustTimer(l, t) ==
  LET tmp == l.next[t]
  IN  CASE tmp = NULL -> l
        [] tmp # NULL /\ l.expire[t] < l.expire[tmp] -> l
        [] tmp # NULL /\ ~(l.expire[t] < l.expire[tmp]) /\ t = l.head ->
             AddAfter([l EXCEPT !.head = tmp, !.prev[tmp] = NULL, !.next[t] = NULL], t, tmp)
        [] OTHER ->
             AddAfter([l EXCEPT !.next[l.prev[t]] = tmp, !.prev[tmp] = l.prev[t]], t, tmp)

DelTimer(l, t) ==
  CASE t = l.head /\ t = l.tail -> Freed([l EXCEPT !.head = NULL, !.tail = NULL], t)
    [] t = l.head /\ t # l.tail ->
         Freed([l EXCEPT !.head = l.next[t], !.prev[l.next[t]] = NULL], t)
    [] t # l.head /\ t = l.tail ->
         Freed([l EXCEPT !.tail = l.prev[t], !.next[l.prev[t]] = NULL], t)
    [] OTHER ->
         Freed([l EXCEPT !.next[l.prev[t]] = l.next[t], !.prev[l.next[t]] = l.prev[t]], t)

(* The body of tick()'s loop after the callback: its timer is deleted, and *)
(* tail is not looked after.                                               *)
PopHead(l) ==
  LET second == l.next[l.head]
      rest == [l EXCEPT !.head = second]
  IN  Freed(IF second # NULL THEN [rest EXCEPT !.prev[second] = NULL] ELSE rest, l.head)

HeadExpired(l, cur) == l.head # NULL /\ cur >= l.expire[l.head]

-------------------------------------------------------------------------------
(* The list in order; the tail of an empty one may be stale.               *)
WellLinked(l) ==
  /\ l.head # NULL => l.head \in l.live /\ l.prev[l.head] = NULL
                      /\ l.tail \in l.live /\ l.next[l.tail] = NULL
  /\ l.head = NULL <=> l.live = {}
  /\ \A t \in l.live :
       /\ t # l.tail => l.next[t] \in l.live /\ l.prev[l.next[t]] = t
       /\ t # l.head => l.prev[t] \in l.live /\ l.next[l.prev[t]] = t

Sorted(l) ==
  \A t \in l.live : l.next[t] # NULL => l.expire[t] <= l.expire[l.next[t]]
===============================================================================
