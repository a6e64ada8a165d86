------------------------------ MODULE OneShotServer ------------------------------
(***************************************************************************)
(* HTTP_server_learning/epoll_one_shot.cpp: main hands each report of a    *)
(* connection to a new thread, and one-shot registration is to keep a      *)
(* second thread from the descriptor until the first one has re-armed it.  *)
(* The thread is given a pointer to fds_for_new_worker, a variable of      *)
(* main's loop that the next event uses again.  reset_oneshot is modelled  *)
(* with the descriptor that its call to epoll_ctl leaves out.              *)
(***************************************************************************)
EXTENDS Integers, FiniteSets

CONSTANTS
  ConnFds,        \* the descriptors of connections
  NoFd, Junk,     \* none; no descriptor of this process
  Threads

ASSUME OneShotAssumption ==
  /\ IsFiniteSet(ConnFds)
  /\ NoFd # Junk /\ {NoFd, Junk, "listen"} \cap ConnFds = {}

VARIABLES
  armed,          \* the registered descriptors that epoll may report
  waiting,        \* how many connections wait to be accepted
  edge,           \* whether listenfd is to be reported
  events,         \* what main has yet to handle of what epoll_wait returned
  arg,            \* fds_for_new_worker.sockfd
  startedFor,     \* startedFor[th]: the descriptor th was created for
  sockfd,         \* sockfd[th]: th's own copy of its argument
  connected,      \* the descriptors that are open
  input, ended,   \* those with input to read; those whose client has ended
  abandoned,      \* history: those whose thread could not be created
  misread         \* history: a thread found another argument than its own

oneShotVars == <<armed, waiting, edge, events, arg, startedFor, sockfd, connected,
                 input, ended, abandoned, misread>>

OneShotTypeOK ==
  /\ armed \subseteq ConnFds
  /\ waiting \in 0 .. Cardinality(ConnFds) /\ edge \in BOOLEAN
  /\ events \subseteq ConnFds \cup {"listen"}
  /\ arg \in ConnFds \cup {NoFd, Junk}
  /\ startedFor \in [Threads -> ConnFds \cup {NoFd}]
  /\ sockfd \in [Threads -> ConnFds \cup {NoFd, Junk}]
  /\ connected \subseteq ConnFds
  /\ input \subseteq connected /\ ended \subseteq connected
  /\ abandoned \subseteq ConnFds
  /\ misread \in BOOLEAN

OneShotInit ==
  /\ armed = {}
  /\ waiting = 0 /\ edge = FALSE
  /\ events = {}
  /\ arg = NoFd
  /\ startedFor = [th \in Threads |-> NoFd]
  /\ sockfd = [th \in Threads |-> NoFd]
  /\ connected = {} /\ input = {} /\ ended = {}
  /\ abandoned = {}
  /\ misread = FALSE

-------------------------------------------------------------------------------
(* main *)

Reported == armed \cap (input \cup ended)

StillArmed == armed                                             \* mutant

(* A report spends the one shot.                                           *)
Spent == armed \ Reported

WaitForEvents ==
  /\ events = {}
  /\ edge \/ Reported # {}
  /\ events' = Reported \cup (IF edge THEN {"listen"} ELSE {})
  /\ armed' = Spent
  /\ edge' = FALSE
  /\ UNCHANGED <<waiting, arg, startedFor, sockfd, connected, input, ended, abandoned,
                 misread>>

(* One accept for each report of listenfd.  client_address may share its   *)
(* place on the stack with fds_for_new_worker, whose block has been left.  *)
AcceptConnection ==
  /\ "listen" \in events
  /\ events' = events \ {"listen"}
  /\ waiting' = waiting - 1
  /\ \E fd \in ConnFds \ connected :
       /\ connected' = connected \cup {fd}
       /\ armed' = armed \cup {fd}
  /\ arg' \in {arg, Junk}
  /\ UNCHANGED <<edge, startedFor, sockfd, input, ended, abandoned, misread>>

(* What pthread_create returns is not looked at.                           *)
StartWorker(fd) ==
  /\ fd \in events
  /\ events' = events \ {fd}
  /\ arg' = fd
  /\ \/ \E th \in Threads :
          /\ startedFor[th] = NoFd
          /\ startedFor' = [startedFor EXCEPT ![th] = fd]
          /\ UNCHANGED abandoned
     \/ /\ abandoned' = abandoned \cup {fd}
        /\ UNCHANGED startedFor
  /\ UNCHANGED <<armed, waiting, edge, sockfd, connected, input, ended, misread>>

-------------------------------------------------------------------------------
(* worker *)

ReadArgument(th) ==
  /\ startedFor[th] # NoFd /\ sockfd[th] = NoFd
  /\ sockfd' = [sockfd EXCEPT ![th] = arg]
  /\ misread' = (misread \/ arg # startedFor[th])
  /\ UNCHANGED <<armed, waiting, edge, events, arg, startedFor, connected, input, ended,
                 abandoned>>

Reading(th, fd) == sockfd[th] = fd /\ fd \in connected

ThreadEnds(th) ==
  /\ startedFor' = [startedFor EXCEPT ![th] = NoFd]
  /\ sockfd' = [sockfd EXCEPT ![th] = NoFd]

(* All of the input is taken, or a bufferful.                              *)
WorkerReceives(th) ==
  \E fd \in input :
    /\ Reading(th, fd)
    /\ input' \in {input, input \ {fd}}
    /\ UNCHANGED <<armed, waiting, edge, events, arg, startedFor, sockfd, connected, ended,
                   abandoned, misread>>

(* recv returns 0, after an error if the client has reset the connection.  *)
WorkerCloses(th) ==
  \E fd \in ended \ input :
    /\ Reading(th, fd)
    /\ connected' = connected \ {fd}
    /\ armed' = armed \ {fd}
    /\ ended' = ended \ {fd}
    /\ abandoned' = abandoned \ {fd}
    /\ ThreadEnds(th)
    /\ UNCHANGED <<waiting, edge, events, arg, input, misread>>

(* EAGAIN; any other error is tried again, for ever if the descriptor is   *)
(* not open: no step.                                                      *)
WorkerRearms(th) ==
  \E fd \in ConnFds \ (input \cup ended) :
    /\ Reading(th, fd)
    /\ armed' = armed \cup {fd}
    /\ ThreadEnds(th)
    /\ UNCHANGED <<waiting, edge, events, arg, connected, input, ended, abandoned, misread>>

-------------------------------------------------------------------------------
(* The clients: never more than there are descriptors, so accept succeeds. *)

ClientConnects ==
  /\ waiting + Cardinality(connected) < Cardinality(ConnFds)
  /\ waiting' = waiting + 1
  /\ edge' = TRUE
  /\ UNCHANGED <<armed, events, arg, startedFor, sockfd, connected, input, ended,
                 abandoned, misread>>

ClientSends(fd) ==
  /\ fd \in connected \ ended
  /\ input' = input \cup {fd}
  /\ UNCHANGED <<armed, waiting, edge, events, arg, startedFor, sockfd, connected, ended,
                 abandoned, misread>>

ClientEnds(fd) ==
  /\ fd \in connected
  /\ ended' = ended \cup {fd}
  /\ UNCHANGED <<armed, waiting, edge, events, arg, startedFor, sockfd, connected, input,
                 abandoned, misread>>

OneShotNext ==
  \/ WaitForEvents \/ AcceptConnection
  \/ \E fd \in ConnFds : StartWorker(fd) \/ ClientSends(fd) \/ ClientEnds(fd)
  \/ \E th \in Threads :
       ReadArgument(th) \/ WorkerReceives(th) \/ WorkerCloses(th) \/ WorkerRearms(th)
  \/ ClientConnects

OneShotSpec == OneShotInit /\ [][OneShotNext]_oneShotVars

-------------------------------------------------------------------------------
Holders(fd) ==
  Cardinality(armed \cap {fd}) + Cardinality(events \cap {fd})
    + Cardinality(abandoned \cap {fd}) + Cardinality({th \in Threads : startedFor[th] = fd})

(* Until a worker finds another's argument, the right to read a connection *)
(* is with one party at a time: epoll, main's events or one thread, which  *)
(* reads no other; or it is lost because no thread could be created.       *)
OneReaderUnlessMisread ==
  /\ OneShotTypeOK
  /\ misread \/ /\ \A fd \in ConnFds : Holders(fd) = IF fd \in connected THEN 1 ELSE 0
                /\ \A th \in Threads : sockfd[th] \in {NoFd, startedFor[th]}
===============================================================================
