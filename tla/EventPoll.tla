------------------------------ MODULE EventPoll ------------------------------
(***************************************************************************)
(* The kernel's eventpoll as annotated in src/epoll_source.cpp: one epoll  *)
(* descriptor, the files it watches, and the threads that call epoll_ctl   *)
(* and epoll_wait on it.  A step is what happens under one hold of the     *)
(* spinlock ep->lock, one call of a file's poll, or one copy to user       *)
(* space; the mutex ep->mtx is held across such steps, and the files' wake *)
(* ups (ep_poll_callback) come in between, for they take only the          *)
(* spinlock.  ep_remove, ep_modify and ep_unregister_pollwait are called   *)
(* but not in the file: they are modelled from their calls.                *)
(***************************************************************************)
EXTENDS Integers, Sequences, FiniteSets

CONSTANTS
  Fds, NoFd,      \* the descriptors a program may watch, and none
  Threads,        \* the threads that use the epoll descriptor
  Controllers,    \* those that call epoll_ctl
  Faulty,         \* those whose events array may not be writable
  Interruptible,  \* those that receive signals
  Raised,         \* the conditions files may acquire
  Carries,        \* Carries[f]: the keys of f's wake-ups
  Interests,      \* Interests[f]: the events fields used with f
  Timeouts,       \* Timeouts[t]: the timeouts t uses
  MaxEvents,      \* the largest maxevents used
  MaxWatches      \* max_user_watches

Bits == {"in", "err"}           \* err stands for POLLERR | POLLHUP
Modes == {"LT", "ET", "ONESHOT"}
NoKey == "nokey"

ASSUME EventPollAssumption ==
  /\ IsFiniteSet(Fds)
  /\ NoFd \notin Fds
  /\ Controllers \cup Faulty \subseteq Threads
  /\ Interruptible \subseteq Threads
  /\ Raised \subseteq Bits
  /\ Carries \in [Fds -> SUBSET (Bits \cup {NoKey})]
  /\ Interests \in [Fds -> SUBSET [bits : SUBSET {"in"}, mode : Modes]]
  /\ Timeouts \in [Threads -> SUBSET {"zero", "finite", "forever"}]
  /\ MaxEvents \in Nat \ {0}
  /\ MaxWatches \in Nat

VARIABLES
  ready,          \* ready[f]: what f_op->poll would return now
  pend,           \* pend[f]: the keys of the wake-ups f is about to make
  open,           \* the epoll descriptor exists
  mode, events,   \* of f's epitem; mode is "none" while there is no epitem
  hooked,         \* the files whose wait queue holds our callback
  rbr,            \* the tree of items
  rdllist,        \* the ready list
  txlist,         \* the list a scan has stolen
  ovflist,        \* the overflow list, newest first
  scanning,       \* ovflist is not EP_UNACTIVE_PTR
  mtx,            \* the holder of ep->mtx, in a set
  pc, cur,        \* where a thread is, and the item it has in hand
  jtimeout,       \* what is left of a thread's timeout
  room,           \* its maxevents
  sent,           \* the items in its events array
  signalled       \* the threads with a signal pending

fileVars == <<ready, pend>>
itemVars == <<mode, events, hooked, rbr>>
listVars == <<rdllist, txlist, ovflist, scanning>>
waitVars == <<jtimeout, room, sent, signalled>>
vars == <<fileVars, open, itemVars, listVars, mtx, pc, cur, waitVars>>

CtlPCs == {"hook", "poll", "repoll", "link", "insert", "unhook", "unlink"}
ScanPCs == {"send", "put", "fault"}
WaitPCs == {"enter", "asleep", "woken", "avail"} \cup ScanPCs

Elements(s) == {s[i] : i \in 1 .. Len(s)}

TypeOK ==
  /\ ready \in [Fds -> SUBSET Bits]
  /\ pend \in [Fds -> SUBSET (Bits \cup {NoKey})]
  /\ open \in BOOLEAN
  /\ mode \in [Fds -> Modes \cup {"none"}]
  /\ events \in [Fds -> SUBSET Bits]
  /\ rbr \subseteq Fds
  /\ hooked \subseteq Fds
  /\ {rdllist, txlist, ovflist} \subseteq Seq(Fds)
  /\ scanning \in BOOLEAN
  /\ mtx \subseteq Threads
  /\ pc \in [Threads -> CtlPCs \cup WaitPCs \cup {"idle"}]
  /\ cur \in [Threads -> Fds \cup {NoFd}]
  /\ jtimeout \in [Threads -> {"zero", "finite", "forever"}]
  /\ room \in [Threads -> 0 .. MaxEvents]
  /\ sent \in [Threads -> SUBSET Fds]
  /\ signalled \subseteq Threads
  /\ Cardinality(mtx) <= 1
  /\ scanning <=> \E t \in mtx : pc[t] \in ScanPCs
  /\ ~scanning => txlist = << >> /\ ovflist = << >>

Init ==
  /\ ready = [f \in Fds |-> {}]
  /\ pend = [f \in Fds |-> {}]
  /\ open = FALSE
  /\ mode = [f \in Fds |-> "none"]
  /\ events = [f \in Fds |-> {}]
  /\ hooked = {}
  /\ rbr = {}
  /\ rdllist = << >> /\ txlist = << >> /\ ovflist = << >>
  /\ scanning = FALSE
  /\ mtx = {}
  /\ pc = [t \in Threads |-> "idle"]
  /\ cur = [t \in Threads |-> NoFd]
  /\ jtimeout = [t \in Threads |-> "zero"]
  /\ room = [t \in Threads |-> 0]
  /\ sent = [t \in Threads |-> {}]
  /\ signalled = {}

Goto(t, p) == pc' = [pc EXCEPT ![t] = p]

(* A call returns: its locals are gone.                                    *)
CtlReturns(t) ==
  /\ mtx' = {}
  /\ cur' = [cur EXCEPT ![t] = NoFd]

(* A signal's handler runs when the call is over.                          *)
WaitReturns(t) ==
  /\ jtimeout' = [jtimeout EXCEPT ![t] = "zero"]
  /\ room' = [room EXCEPT ![t] = 0]
  /\ sent' = [sent EXCEPT ![t] = {}]
  /\ signalled' = signalled \ {t}

-------------------------------------------------------------------------------
(* Lists and wake-ups *)

(* list_del_init if ep_is_linked: the nodes around f's are joined.         *)
Without(list, f) ==
  IF f \in Elements(list)
  THEN LET at == CHOOSE i \in 1 .. Len(list) : list[i] = f
       IN  SubSeq(list, 1, at - 1) \o SubSeq(list, at + 1, Len(list))
  ELSE list

(* list_add_tail unless ep_is_linked.                                      *)
Link(f) ==
  rdllist' = IF f \in Elements(rdllist) THEN rdllist ELSE Append(rdllist, f)

NobodyWoken(p) == {p}                                           \* mutant

(* wake_up_locked on a queue of exclusive waiters: one thread that sleeps  *)
(* is woken; a thread already woken does not use up the call.  p is where  *)
(* the threads are, the value is the set of what may become of it.         *)
Wake(p) ==
  LET Sleepers == {t \in Threads : p[t] = "asleep"}
  IN  IF Sleepers = {} THEN {p}
      ELSE {[p EXCEPT ![t] = "woken"] : t \in Sleepers}

-------------------------------------------------------------------------------
(* The files.  A file gains a condition and then wakes its wait queue with *)
(* a key that names the condition; not every device gives one.             *)
FileArrive(f, b, key) ==
  /\ pend[f] = {}
  /\ key \in Carries[f] \cap {b, NoKey}
  /\ ready' = [ready EXCEPT ![f] = @ \cup {b}]
  /\ pend' = [pend EXCEPT ![f] = {key}]
  /\ UNCHANGED <<open, itemVars, listVars, mtx, pc, cur, waitVars>>

FileClear(f, b) ==
  /\ b \in ready[f]
  /\ ready' = [ready EXCEPT ![f] = @ \ {b}]
  /\ UNCHANGED <<pend, open, itemVars, listVars, mtx, pc, cur, waitVars>>

(* ep_poll_callback: disabled items and keys of no interest are ignored.   *)
OfInterest(f) ==
  /\ events[f] # {}
  /\ pend[f] \cap (events[f] \cup {NoKey}) # {}

OverflowDropped(f) == UNCHANGED ovflist                         \* mutant

Overflow(f) ==
  ovflist' = IF f \in Elements(ovflist) THEN ovflist ELSE <<f>> \o ovflist

PollCallback(f) ==
  /\ pend[f] # {}
  /\ pend' = [pend EXCEPT ![f] = {}]
  /\ \/ /\ f \in hooked /\ OfInterest(f) /\ scanning
        /\ Overflow(f)
        /\ UNCHANGED <<rdllist, pc>>
     \/ /\ f \in hooked /\ OfInterest(f) /\ ~scanning
        /\ Link(f)
        /\ pc' \in Wake(pc)
        /\ UNCHANGED ovflist
     \/ /\ ~(f \in hooked /\ OfInterest(f))
        /\ UNCHANGED <<rdllist, ovflist, pc>>
  /\ UNCHANGED <<ready, open, itemVars, txlist, scanning, mtx, cur, waitVars>>

-------------------------------------------------------------------------------
(* epoll_create, epoll_create1 and ep_alloc; where an allocation fails     *)
(* nothing is left.  close reaches ep_free when no call is in progress.    *)
Create ==
  /\ ~open
  /\ open' = TRUE
  /\ UNCHANGED <<fileVars, itemVars, listVars, mtx, pc, cur, waitVars>>

Free ==
  /\ open
  /\ \A t \in Threads : pc[t] = "idle"
  /\ open' = FALSE
  /\ hooked' = {} /\ rbr' = {}
  /\ mode' = [f \in Fds |-> "none"]
  /\ events' = [f \in Fds |-> {}]
  /\ rdllist' = << >>
  /\ UNCHANGED <<fileVars, txlist, ovflist, scanning, mtx, pc, cur, waitVars>>

-------------------------------------------------------------------------------
(* epoll_ctl, with ep_find's answer as a guard: a call refused with EBADF, *)
(* EPERM, EINVAL, EEXIST, ENOENT, ENOSPC or for want of an epitem changes  *)
(* nothing.                                                                *)
CtlBegin(t) ==
  /\ open
  /\ pc[t] = "idle"
  /\ mtx = {}
  /\ mtx' = {t}

(* What is asked of f; POLLERR | POLLHUP is always added.                  *)
SetEvents(f, ev) ==
  /\ mode' = [mode EXCEPT ![f] = ev.mode]
  /\ events' = [events EXCEPT ![f] = ev.bits \cup {"err"}]

CtlAdd(t, f) ==
  /\ CtlBegin(t)
  /\ f \notin rbr
  /\ Cardinality(rbr) < MaxWatches
  /\ \E ev \in Interests[f] : SetEvents(f, ev)
  /\ cur' = [cur EXCEPT ![t] = f]
  /\ Goto(t, "hook")
  /\ UNCHANGED <<fileVars, open, hooked, rbr, listVars, waitVars>>

(* ep_insert: f_op->poll queues the callback (ep_ptable_queue_proc) and    *)
(* then looks at the file; from the first on the callback may hit the item.*)
InsertHook(t) ==
  /\ pc[t] = "hook"
  /\ hooked' = hooked \cup {cur[t]}
  /\ Goto(t, "poll")
  /\ UNCHANGED <<fileVars, open, mode, events, rbr, listVars, mtx, cur, waitVars>>

(* No memory for an eppoll_entry: for the first wait queue or a later one. *)
InsertHookFails(t) ==
  /\ pc[t] \in {"hook", "poll"}
  /\ Goto(t, "unhook")
  /\ UNCHANGED <<fileVars, open, itemVars, listVars, mtx, cur, waitVars>>

Revents(t) == ready[cur[t]] \cap events[cur[t]]

CtlPoll(t) ==
  /\ pc[t] \in {"poll", "repoll"}
  /\ Goto(t, IF Revents(t) # {} THEN "link" ELSE "insert")
  /\ UNCHANGED <<fileVars, open, itemVars, listVars, mtx, cur, waitVars>>

(* The item goes into the tree and, if its file is ready, on the ready     *)
(* list; ep_modify ends the same way for an item that is in the tree.      *)
CtlLink(t) ==
  /\ pc[t] \in {"link", "insert"}
  /\ rbr' = rbr \cup {cur[t]}
  /\ \/ /\ pc[t] = "link" /\ cur[t] \notin Elements(rdllist)
        /\ Link(cur[t])
        /\ pc' \in Wake([pc EXCEPT ![t] = "idle"])
     \/ /\ pc[t] = "insert" \/ cur[t] \in Elements(rdllist)
        /\ Goto(t, "idle")
        /\ UNCHANGED rdllist
  /\ CtlReturns(t)
  /\ UNCHANGED <<fileVars, open, mode, events, hooked, txlist, ovflist,
                 scanning, waitVars>>

(* error_unregister: first no more callbacks, then off the ready list.     *)
InsertUnhook(t) ==
  /\ pc[t] = "unhook"
  /\ hooked' = hooked \ {cur[t]}
  /\ Goto(t, "unlink")
  /\ UNCHANGED <<fileVars, open, mode, events, rbr, listVars, mtx, cur, waitVars>>

StayLinked(f) == UNCHANGED rdllist                              \* mutant

Unlink(f) == rdllist' = Without(rdllist, f)

FreeItem(f) ==
  /\ mode' = [mode EXCEPT ![f] = "none"]
  /\ events' = [events EXCEPT ![f] = {}]

InsertUnlink(t) ==
  /\ pc[t] = "unlink"
  /\ Unlink(cur[t])
  /\ FreeItem(cur[t])
  /\ CtlReturns(t)
  /\ Goto(t, "idle")
  /\ UNCHANGED <<fileVars, open, hooked, rbr, txlist, ovflist, scanning, waitVars>>

(* ep_remove                                                               *)
CtlDel(t, f) ==
  /\ open
  /\ pc[t] = "idle"
  /\ mtx = {}
  /\ f \in rbr
  /\ hooked' = hooked \ {f}
  /\ rbr' = rbr \ {f}
  /\ Unlink(f)
  /\ FreeItem(f)
  /\ UNCHANGED <<fileVars, open, txlist, ovflist, scanning, mtx, pc, cur, waitVars>>

(* ep_modify: the new interest is stored before the file is looked at.     *)
CtlMod(t, f) ==
  /\ CtlBegin(t)
  /\ f \in rbr
  /\ \E ev \in Interests[f] : SetEvents(f, ev)
  /\ cur' = [cur EXCEPT ![t] = f]
  /\ Goto(t, "repoll")
  /\ UNCHANGED <<fileVars, open, hooked, rbr, listVars, waitVars>>

-------------------------------------------------------------------------------
(* epoll_wait and ep_poll *)

EpollWait(t) ==
  /\ open
  /\ pc[t] = "idle"
  /\ \E n \in 1 .. MaxEvents, d \in Timeouts[t] :
       /\ room' = [room EXCEPT ![t] = n]
       /\ jtimeout' = [jtimeout EXCEPT ![t] = d]
  /\ Goto(t, "enter")
  /\ UNCHANGED <<fileVars, open, itemVars, listVars, mtx, cur, sent, signalled>>

(* The test made before every sleep, in the same hold of the lock as the   *)
(* joining of the wait queue; after it comes the scan, if it is worth one. *)
PollLoop(t) ==
  /\ pc[t] \in {"enter", "woken"}
  /\ \/ /\ rdllist # << >> \/ (jtimeout[t] = "zero" /\ scanning)
        /\ Goto(t, "avail")
        /\ UNCHANGED waitVars
     \/ /\ rdllist = << >>
        /\ IF jtimeout[t] = "zero" THEN ~scanning ELSE t \in signalled
        /\ Goto(t, "idle")
        /\ WaitReturns(t)
     \/ /\ rdllist = << >> /\ jtimeout[t] # "zero" /\ t \notin signalled
        /\ Goto(t, "asleep")
        /\ UNCHANGED waitVars
  /\ UNCHANGED <<fileVars, open, itemVars, listVars, mtx, cur>>

(* schedule_timeout's timer, and a signal, wake the sleeper as well.       *)
TimeOut(t) ==
  /\ pc[t] \in {"asleep", "woken"}
  /\ jtimeout[t] = "finite"
  /\ jtimeout' = [jtimeout EXCEPT ![t] = "zero"]
  /\ Goto(t, "woken")
  /\ UNCHANGED <<fileVars, open, itemVars, listVars, mtx, cur, room, sent, signalled>>

Signal(t) ==
  /\ pc[t] \in WaitPCs
  /\ t \in Interruptible \ signalled
  /\ signalled' = signalled \cup {t}
  /\ Goto(t, IF pc[t] = "asleep" THEN "woken" ELSE pc[t])
  /\ UNCHANGED <<fileVars, open, itemVars, listVars, mtx, cur, jtimeout, room, sent>>

-------------------------------------------------------------------------------
(* ep_scan_ready_list with ep_send_events_proc *)

OverflowNotOpened == UNCHANGED scanning                         \* mutant

OpenOverflow == scanning' = TRUE

ScanStart(t) ==
  /\ pc[t] = "avail"
  /\ mtx = {}
  /\ mtx' = {t}
  /\ txlist' = rdllist
  /\ rdllist' = << >>
  /\ OpenOverflow
  /\ Goto(t, "send")
  /\ UNCHANGED <<fileVars, open, itemVars, ovflist, cur, waitVars>>

Exhausted(t) == txlist = << >> \/ Cardinality(sent[t]) = room[t]

(* The first item is unlinked and its file looked at again.                *)
SendPoll(t) ==
  /\ pc[t] = "send"
  /\ ~Exhausted(t)
  /\ txlist' = Tail(txlist)
  /\ \/ /\ ready[Head(txlist)] \cap events[Head(txlist)] # {}
        /\ cur' = [cur EXCEPT ![t] = Head(txlist)]
        /\ Goto(t, "put")
     \/ /\ ready[Head(txlist)] \cap events[Head(txlist)] = {}
        /\ UNCHANGED <<cur, pc>>
  /\ UNCHANGED <<fileVars, open, itemVars, rdllist, ovflist, scanning, mtx, waitVars>>

(* One-shot items are disabled, level-triggered ones queued again.         *)
AfterReport(f) ==
  /\ events' = IF mode[f] = "ONESHOT" THEN [events EXCEPT ![f] = {}] ELSE events
  /\ rdllist' = IF mode[f] = "LT" THEN Append(rdllist, f) ELSE rdllist

SendPut(t) ==
  /\ pc[t] = "put"
  /\ sent' = [sent EXCEPT ![t] = @ \cup {cur[t]}]
  /\ AfterReport(cur[t])
  /\ cur' = [cur EXCEPT ![t] = NoFd]
  /\ Goto(t, "send")
  /\ UNCHANGED <<fileVars, open, mode, hooked, rbr, txlist, ovflist, scanning, mtx,
                 jtimeout, room, signalled>>

(* __put_user fails: the item goes back, and the scan ends.                *)
SendFault(t) ==
  /\ pc[t] = "put"
  /\ t \in Faulty
  /\ txlist' = <<cur[t]>> \o txlist
  /\ cur' = [cur EXCEPT ![t] = NoFd]
  /\ Goto(t, "fault")
  /\ UNCHANGED <<fileVars, open, itemVars, rdllist, ovflist, scanning, mtx, waitVars>>

MergedLinkedToo == txlist \o rdllist \o ovflist                 \* mutant

(* The overflow list is gone through, and queued what is not linked by now. *)
Requeued ==
  LET upTo[i \in 0 .. Len(ovflist)] ==
        IF i = 0 THEN rdllist
        ELSE IF ovflist[i] \in Elements(txlist) \cup Elements(upTo[i - 1]) THEN upTo[i - 1]
        ELSE Append(upTo[i - 1], ovflist[i])
  IN  upTo[Len(ovflist)]

MergedBehind == Requeued \o txlist                              \* mutant

(* What is left of the stolen list goes in front.                          *)
Merged == txlist \o Requeued

(* With nothing sent and time left, ep_poll tries again.                   *)
ScanEnd(t) ==
  /\ pc[t] = "fault" \/ (pc[t] = "send" /\ Exhausted(t))
  /\ rdllist' = Merged
  /\ txlist' = << >> /\ ovflist' = << >>
  /\ scanning' = FALSE
  /\ mtx' = {}
  /\ LET again == pc[t] = "send" /\ sent[t] = {} /\ jtimeout[t] # "zero"
         left  == [pc EXCEPT ![t] = IF again THEN "enter" ELSE "idle"]
     IN  /\ pc' \in (IF Merged = << >> THEN {left} ELSE Wake(left))
         /\ IF again THEN UNCHANGED waitVars ELSE WaitReturns(t)
  /\ UNCHANGED <<fileVars, open, itemVars, cur>>

-------------------------------------------------------------------------------
Syscall(t) ==
  \/ t \in Controllers /\ \E f \in Fds : CtlAdd(t, f) \/ CtlDel(t, f) \/ CtlMod(t, f)
  \/ EpollWait(t)

Proceed(t) ==
  \/ InsertHook(t) \/ CtlPoll(t) \/ CtlLink(t)
  \/ InsertUnhook(t) \/ InsertUnlink(t)
  \/ PollLoop(t) \/ ScanStart(t) \/ SendPoll(t) \/ SendPut(t) \/ ScanEnd(t)

Next ==
  \/ Create \/ Free
  \/ \E t \in Threads :
       \/ Syscall(t) \/ Proceed(t)
       \/ InsertHookFails(t) \/ TimeOut(t) \/ Signal(t) \/ SendFault(t)
  \/ \E f \in Fds :
       \/ \E b \in Raised, key \in Raised \cup {NoKey} : FileArrive(f, b, key)
       \/ \E b \in Raised : FileClear(f, b)
       \/ PollCallback(f)

Spec == Init /\ [][Next]_vars

(* The kernel runs its threads, mutexes are granted in the order they are  *)
(* asked for, a wake-up that was begun ends, and an event loop comes back  *)
(* to epoll_wait whatever else it calls.                                   *)
FairSpec ==
  /\ Spec
  /\ \A t \in Threads :
       WF_vars(Proceed(t)) /\ SF_vars(ScanStart(t)) /\ SF_vars(EpollWait(t))
  /\ \A f \in Fds : WF_vars(PollCallback(f))

-------------------------------------------------------------------------------
(* An item is on one list at most, and once: the ready list, the stolen    *)
(* list, or in a scanning thread's hand.  Two of ep_poll_callback, the     *)
(* scan's requeueing and its merge may want to link it.                    *)
InHand == {cur[t] : t \in {u \in Threads : pc[u] = "put"}}

Once(list) == \A i, j \in 1 .. Len(list) : list[i] = list[j] => i = j
LinkedOnce == Once(rdllist \o txlist) /\ InHand \cap Elements(rdllist \o txlist) = {}

(* An item that was freed, by epoll_ctl, by ep_free or because ep_insert   *)
(* failed half-way, is on no list and in nobody's hand.                    *)
NoFreedItem ==
  \A f \in Elements(rdllist \o txlist \o ovflist) \cup InHand \cup hooked :
    mode[f] # "none"

(* While the ready list has items and no scan is taking place, not         *)
(* everybody inside epoll_wait sleeps: somebody will look.                 *)
SomebodyLooks ==
  rdllist # << >> /\ ~scanning =>
    \/ \A t \in Threads : pc[t] # "asleep"
    \/ \E t \in Threads : pc[t] \in {"enter", "woken", "avail"}

(* The files whose items EventSet calls owed: on a list, in a hand, or about *)
(* to be looked at by the call that adds or modifies them.                 *)
InCall(pcs) == {cur[t] : t \in {u \in Threads : pc[u] \in pcs}}
BeingUndone == InCall({"unhook", "unlink"})
Owed ==
  (Elements(rdllist \o txlist \o ovflist)
     \cup InCall({"put", "hook", "poll", "repoll", "link"})) \ BeingUndone

Events == INSTANCE EventSet WITH
  Files <- Fds, Conditions <- Bits, condition <- ready, coming <- pend,
  interest <- [f \in Fds |-> IF f \in BeingUndone THEN {} ELSE events[f]],
  how <- [f \in Fds |-> IF f \in BeingUndone THEN "none" ELSE mode[f]],
  owed <- Owed

(* No condition a file is watched for is forgotten, and none reported that *)
(* EventSet would not report, although wake-ups come at any moment of a    *)
(* scan, of an insertion and of its undoing.                               *)
ImplementsEventSet == Events!EventSpec

(* A file that is watched, stays ready and is level-triggered or owed a    *)
(* look is reported, whatever else goes on, unless a thread passes an      *)
(* array that cannot be written.                                           *)
EveryReadyFileReported ==
  \A f \in Fds :
    (ready[f] \cap events[f] # {} /\ (mode[f] = "LT" \/ f \in Owed)) ~>
      \/ \E t \in Threads : f \in sent[t] \/ pc[t] = "fault"
      \/ ready[f] \cap events[f] = {}
      \/ f \notin rbr
===============================================================================
