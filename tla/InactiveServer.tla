----------------------------- MODULE InactiveServer -----------------------------
(***************************************************************************)
(* HTTP_server_learning/close_inactive_connection.cpp: one thread, one     *)
(* epoll loop.  A connection has a timer in a sort_timer_list, put off by  *)
(* 3 * TIMESLOT by each recv; SIGALRM arrives as a byte of a pipe, and     *)
(* after the batch that has it tick() closes what has expired.  Times are  *)
(* kept relative to time(NULL): an expire of 0 is now or earlier.  A step  *)
(* is the handling of one event.                                           *)
(***************************************************************************)
EXTENDS Integers, FiniteSets, SortTimerList

CONSTANTS
  Fds,            \* the descriptors of connections
  TIMESLOT        \* 5 in the code

ASSUME InactiveServerAssumption ==
  /\ IsFiniteSet(Fds) /\ Cardinality(Timers) = Cardinality(Fds)
  /\ NULL \notin Timers /\ {"listen", "pipe"} \cap Fds = {}
  /\ TIMESLOT \in Nat \ {0}

Lifetime == 3 * TIMESLOT

VARIABLES
  list,           \* timer_list
  user,           \* user[t]: t's user_data->sockfd, NULL while there is no t
  timerOf,        \* timerOf[fd]: users[fd].timer
  open,           \* the descriptors in use
  backlog,        \* how many connections wait to be accepted
  edges,          \* what epoll has yet to report: "listen" and descriptors
  batch,          \* what of the reported events is left
  pc,             \* "poll", "batch", "tick", "gone"
  unread,         \* the connections with input to read
  peer,           \* "there", "closed", "reset"
  alarm,          \* the time to SIGALRM; 0 if no alarm is set
  pipe,           \* the signals in the pipe
  timeout, stop_server,
  idle            \* history: time since the accept or the last input read,
                  \* up to Lifetime

timerVars == <<list, user, timerOf>>
connVars == <<open, backlog, unread, peer>>
loopVars == <<batch, pc, timeout, stop_server>>
vars == <<timerVars, connVars, edges, loopVars, alarm, pipe, idle>>

Events == Fds \cup {"listen"}

TypeOK ==
  /\ list.live \subseteq Timers
  /\ list.expire \in [Timers -> 0 .. Lifetime]
  /\ user \in [Timers -> Fds \cup {NULL}]
  /\ timerOf \in [Fds -> Timers \cup {NULL}]
  /\ open \subseteq Fds
  /\ backlog \in 0 .. Cardinality(Fds)
  /\ edges \subseteq Events /\ batch \subseteq Events \cup {"pipe"}
  /\ pc \in {"poll", "batch", "tick", "gone"}
  /\ unread \subseteq open
  /\ peer \in [Fds -> {"there", "closed", "reset"}]
  /\ alarm \in 0 .. TIMESLOT
  /\ pipe \subseteq {"SIGALRM", "SIGTERM"}
  /\ timeout \in BOOLEAN /\ stop_server \in BOOLEAN
  /\ idle \in [Fds -> 0 .. Lifetime]

Init ==
  /\ list = EmptyList
  /\ user = [t \in Timers |-> NULL]
  /\ timerOf = [fd \in Fds |-> NULL]
  /\ open = {}
  /\ backlog = 0
  /\ edges = {} /\ batch = {}
  /\ pc = "poll"
  /\ unread = {}
  /\ peer = [fd \in Fds |-> "there"]
  /\ alarm = TIMESLOT
  /\ pipe = {}
  /\ timeout = FALSE /\ stop_server = FALSE
  /\ idle = [fd \in Fds |-> 0]

-------------------------------------------------------------------------------
(* The loop.  The pipe is drained whenever it is reported, so its event is *)
(* the bytes it holds.                                                     *)
EpollWait ==
  /\ pc = "poll"
  /\ edges # {} \/ pipe # {}
  /\ batch' = edges \cup (IF pipe # {} THEN {"pipe"} ELSE {})
  /\ edges' = {}
  /\ pc' = "batch"
  /\ UNCHANGED <<timerVars, connVars, timeout, stop_server, alarm, pipe, idle>>

Handling(event) ==
  /\ event \in batch
  /\ batch' = batch \ {event}

(* One accept for each report of listenfd.  What the client did before is  *)
(* reported after, as if it did it now.                                    *)
Accept ==
  /\ Handling("listen")
  /\ backlog' = backlog - 1
  /\ \E fd \in Fds \ open, t \in Timers \ list.live :
       /\ open' = open \cup {fd}
       /\ user' = [user EXCEPT ![t] = fd]
       /\ timerOf' = [timerOf EXCEPT ![fd] = t]
       /\ list' = AddTimer(NewTimer(list, t, Lifetime), t)
       /\ idle' = [idle EXCEPT ![fd] = 0]
  /\ UNCHANGED <<unread, peer, edges, pc, timeout, stop_server, alarm, pipe>>

HandleSignals ==
  /\ Handling("pipe")
  /\ pipe' = {}
  /\ timeout' = (timeout \/ "SIGALRM" \in pipe)
  /\ stop_server' = (stop_server \/ "SIGTERM" \in pipe)
  /\ UNCHANGED <<timerVars, connVars, edges, pc, alarm, idle>>

(* cb_func and the deletion of its timer t.  EPOLL_CTL_DEL goes to the     *)
(* wrong descriptor (main's epollfd hides the one cb_func sees), but close *)
(* takes fd out of epoll, and what there is to report of it with it.       *)
Close(fd, t) ==
  /\ open' = open \ {fd}
  /\ edges' = edges \ {fd}
  /\ unread' = unread \ {fd}
  /\ peer' = [peer EXCEPT ![fd] = "there"]
  /\ idle' = [idle EXCEPT ![fd] = 0]
  /\ user' = [user EXCEPT ![t] = NULL]

(* recv fails, or finds the end of the input.                              *)
HandleInCloses(fd) ==
  /\ Handling(fd)
  /\ peer[fd] = "reset" \/ (peer[fd] = "closed" /\ fd \notin unread)
  /\ Close(fd, timerOf[fd])
  /\ list' = DelTimer(list, timerOf[fd])
  /\ UNCHANGED <<timerOf, backlog, pc, timeout, stop_server, alarm, pipe>>

PutOffInPlace(t) == list' = [list EXCEPT !.expire[t] = Lifetime]    \* mutant

PutOff(t) == list' = AdjustTimer([list EXCEPT !.expire[t] = Lifetime], t)

(* One recv for each report: it takes all there is, or a bufferful, and    *)
(* what is left waits for the next.                                        *)
HandleIn(fd) ==
  /\ Handling(fd)
  /\ peer[fd] # "reset" /\ fd \in unread
  /\ unread' \in {unread, unread \ {fd}}
  /\ PutOff(timerOf[fd])
  /\ idle' = [idle EXCEPT ![fd] = 0]
  /\ UNCHANGED <<user, timerOf, open, backlog, peer, edges, pc, timeout, stop_server,
                 alarm, pipe>>

(* EAGAIN: an earlier report's recv took what this one is about.           *)
HandleInAgain(fd) ==
  /\ Handling(fd)
  /\ peer[fd] = "there" /\ fd \notin unread
  /\ UNCHANGED <<timerVars, connVars, edges, pc, timeout, stop_server, alarm, pipe, idle>>

AlarmForgotten == UNCHANGED alarm                               \* mutant

SetAlarm == alarm' = TIMESLOT

(* timer_handler, after a batch that had SIGALRM: time is up for the head, *)
(* or tick() is over.  It takes less than a second.                        *)
TimerHandler ==
  /\ pc = "batch" /\ batch = {} /\ timeout
  /\ timeout' = FALSE
  /\ pc' = "tick"
  /\ UNCHANGED <<timerVars, connVars, edges, batch, stop_server, alarm, pipe, idle>>

Fire ==
  /\ pc = "tick"
  /\ HeadExpired(list, 0)
  /\ Close(user[list.head], list.head)
  /\ list' = PopHead(list)
  /\ UNCHANGED <<timerOf, backlog, loopVars, alarm, pipe>>

BackToLoop == pc' = IF stop_server THEN "gone" ELSE "poll"

TickEnds ==
  /\ pc = "tick"
  /\ ~HeadExpired(list, 0)
  /\ SetAlarm
  /\ BackToLoop
  /\ UNCHANGED <<timerVars, connVars, edges, batch, timeout, stop_server, pipe, idle>>

NoTimerHandler ==
  /\ pc = "batch" /\ batch = {} /\ ~timeout
  /\ BackToLoop
  /\ UNCHANGED <<timerVars, connVars, edges, batch, timeout, stop_server, alarm, pipe, idle>>

-------------------------------------------------------------------------------
(* The world *)

(* There are never more clients than descriptors, so accept does not fail. *)
Connect ==
  /\ backlog + Cardinality(open) < Cardinality(Fds)
  /\ backlog' = backlog + 1
  /\ edges' = edges \cup {"listen"}
  /\ UNCHANGED <<timerVars, open, unread, peer, loopVars, alarm, pipe, idle>>

Send(fd) ==
  /\ fd \in open /\ peer[fd] = "there"
  /\ unread' = unread \cup {fd}
  /\ edges' = edges \cup {fd}
  /\ UNCHANGED <<timerVars, open, backlog, peer, loopVars, alarm, pipe, idle>>

(* A reset takes the unread input with it.                                 *)
Leave(fd) ==
  /\ fd \in open /\ peer[fd] = "there"
  /\ \/ peer' = [peer EXCEPT ![fd] = "closed"] /\ UNCHANGED unread
     \/ peer' = [peer EXCEPT ![fd] = "reset"] /\ unread' = unread \ {fd}
  /\ edges' = edges \cup {fd}
  /\ UNCHANGED <<timerVars, open, backlog, loopVars, alarm, pipe, idle>>

Terminate ==
  /\ "SIGTERM" \notin pipe
  /\ pipe' = pipe \cup {"SIGTERM"}
  /\ UNCHANGED <<timerVars, connVars, edges, loopVars, alarm, idle>>

(* Time is taken a second apart; the alarm's signal comes when it is due.  *)
TimePasses ==
  /\ pc \notin {"tick", "gone"}
  /\ list' = [list EXCEPT !.expire = [t \in Timers |-> IF @[t] > 0 THEN @[t] - 1 ELSE 0]]
  /\ idle' = [fd \in Fds |-> IF fd \in open /\ idle[fd] < Lifetime
                             THEN idle[fd] + 1 ELSE idle[fd]]
  /\ alarm' = IF alarm > 0 THEN alarm - 1 ELSE 0
  /\ pipe' = IF alarm = 1 THEN pipe \cup {"SIGALRM"} ELSE pipe
  /\ UNCHANGED <<user, timerOf, connVars, edges, loopVars>>

Server ==
  \/ EpollWait \/ Accept \/ HandleSignals
  \/ TimerHandler \/ Fire \/ TickEnds \/ NoTimerHandler
  \/ \E fd \in Fds : HandleIn(fd) \/ HandleInCloses(fd) \/ HandleInAgain(fd)

Next ==
  \/ Server
  \/ Connect \/ Terminate \/ TimePasses
  \/ \E fd \in Fds : Send(fd) \/ Leave(fd)

(* The process runs, and so does time.                                     *)
Spec == Init /\ [][Next]_vars
FairSpec == Spec /\ WF_vars(Server) /\ WF_vars(TimePasses)

-------------------------------------------------------------------------------
(* timer_list is linked both ways, in order, and has one timer for each    *)
(* open connection, the one users[] points to, due 3 * TIMESLOT after the  *)
(* last input read: no connection is closed sooner, and the pointers       *)
(* tick() leaves behind in users[] and in tail are never followed.         *)
TimersSound ==
  /\ TypeOK
  /\ WellLinked(list) /\ Sorted(list)
  /\ Cardinality(list.live) = Cardinality(open)
  /\ \A fd \in open :
       /\ timerOf[fd] \in list.live /\ user[timerOf[fd]] = fd
       /\ list.expire[timerOf[fd]] = Lifetime - idle[fd]

(* A connection that stays silent is closed, whatever the others do.       *)
SilentIsClosed ==
  \A fd \in Fds :
    (fd \in open /\ idle[fd] > 0) ~> (fd \notin open \/ idle[fd] = 0 \/ pc = "gone")
===============================================================================
