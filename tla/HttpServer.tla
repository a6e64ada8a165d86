------------------------------ MODULE HttpServer ------------------------------
(***************************************************************************)
(* The web server (HTTP_server_learning/http_web_server.cpp, http_conn.h,  *)
(* http_conn.cpp): one main thread that waits in epoll, accepts, reads and *)
(* writes, and the workers of a thread pool that run http_conn::process(). *)
(* A connection is users[fd]; it is handed from thread to thread by the    *)
(* one-shot registration of fd in epoll and by the queue of the pool.      *)
(*                                                                         *)
(* A request is RequestUnits units of input, whatever their bytes; what    *)
(* the parser makes of it is a choice among Outcomes.  HttpParse and       *)
(* HttpWrite have the bytes.                                               *)
(***************************************************************************)
EXTENDS Integers, Sequences, FiniteSets

CONSTANTS
  Workers, MaxRequests,     \* of the pool
  Conns,                    \* client connections; each connects once
  NoConn,
  FirstFd,                  \* the descriptors below it are the process's own
  LastFd,                   \* the process's limit on descriptors
  MaxFd,                    \* MAX_FD: the length of users[] and the most users
  NoFd,                     \* -1
  RequestUnits,             \* the length of a complete request
  BufferUnits,              \* READ_BUFFER_SIZE
  MaxUnits,                 \* bound: what a client sends on one connection
  Outcomes                  \* what process_read may make of a complete request

(* "page": an error page; "file": a mapped file; "empty": a file of size   *)
(* zero; "stalled": a line parse_line rejects.                             *)
ASSUME ServerAssumption ==
  /\ FirstFd \in Nat /\ LastFd \in Nat /\ 0 < FirstFd /\ FirstFd =< LastFd
  /\ MaxFd \in Nat /\ MaxRequests \in Nat \ {0} /\ MaxUnits \in Nat
  /\ RequestUnits \in 1 .. BufferUnits /\ BufferUnits \in Nat
  /\ Outcomes \subseteq {"page", "file", "empty", "stalled"}
  /\ NoFd \notin Nat /\ NoConn \notin Conns /\ IsFiniteSet(Workers)

Fds == FirstFd .. LastFd
ListenFd == FirstFd - 1

VARIABLES
  (* the kernel's side *)
  backlog,        \* connections waiting to be accepted
  listenEdge,     \* the edge-triggered listenfd is on epoll's ready list
  fdconn,         \* the connection an open descriptor stands for
  reg,            \* fd's registration: "none", "off" (one-shot spent), "in", "out"
  pending,        \* input a connection has received and the server not read
  sent,           \* input sent so far
  gone,           \* the peer closed or reset its side
  sndfull,        \* the connection's send buffer has no room
  closed,         \* the server closed it
  replied,        \* a response was sent on it
  (* the process *)
  users,          \* http_conn objects, by descriptor
  m_user_count,
  mpc, batch,     \* main: where it is, the events not yet handled
  mcount,         \* main: what it is about to store in m_user_count
  m_workqueue, serving,                     \* the pool
  wpc, wev, wcount                          \* workers: where, the events to arm

kernelVars == <<backlog, listenEdge, fdconn, reg, pending, sent, gone, sndfull,
                closed, replied>>
mainVars   == <<mpc, batch, mcount>>
poolVars   == <<m_workqueue, serving>>
workerVars == <<wpc, wev, wcount>>
vars == <<kernelVars, users, m_user_count, mainVars, poolVars, workerVars>>

Pool == INSTANCE WorkPool WITH
          Requests <- Fds, NoRequest <- NoFd, queue <- m_workqueue, stopped <- FALSE

User == [sockfd : Fds \cup {NoFd},      \* m_sockfd
         address : Conns \cup {NoConn}, \* m_address
         read   : 0 .. BufferUnits,     \* m_read_idx
         write  : Conns \cup {NoConn},  \* whose response m_write_buf holds
         linger : BOOLEAN,              \* m_linger
         file   : Conns \cup {NoConn}]  \* whose file m_file_address maps

Events == [fd : Fds, ev : {"hup", "in", "out"}]
            \cup [fd : {ListenFd}, ev : {"in"}]

TypeOK ==
  /\ backlog \in Seq(Conns)
  /\ listenEdge \in BOOLEAN
  /\ fdconn \in [Fds -> Conns \cup {NoConn}]
  /\ reg \in [Fds -> {"none", "off", "in", "out"}]
  /\ pending \in [Conns -> 0 .. MaxUnits] /\ sent \in [Conns -> 0 .. MaxUnits]
  /\ gone \in [Conns -> BOOLEAN] /\ sndfull \in [Conns -> BOOLEAN]
  /\ closed \in [Conns -> BOOLEAN] /\ replied \in [Conns -> BOOLEAN]
  /\ users \in [Fds -> User]
  /\ m_user_count \in Int
  /\ mpc \in {"wait", "batch", "store", "out_of_bounds"}
  /\ batch \subseteq Events
  /\ mcount \in Int
  /\ m_workqueue \in Seq(Fds)
  /\ serving \in [Workers -> Fds \cup {NoFd}]
  /\ wpc \in [Workers -> {"idle", "parse", "close", "reset", "count", "store", "rearm"}]
  /\ wev \in [Workers -> {"in", "out"}]
  /\ wcount \in [Workers -> Int]

NewUser == [sockfd |-> NoFd, address |-> NoConn, read |-> 0, write |-> NoConn, linger |-> FALSE,
            file |-> NoConn]

Init ==
  /\ backlog = << >> /\ listenEdge = FALSE
  /\ fdconn = [fd \in Fds |-> NoConn] /\ reg = [fd \in Fds |-> "none"]
  /\ pending = [c \in Conns |-> 0] /\ sent = [c \in Conns |-> 0]
  /\ gone = [c \in Conns |-> FALSE] /\ sndfull = [c \in Conns |-> FALSE]
  /\ closed = [c \in Conns |-> FALSE] /\ replied = [c \in Conns |-> FALSE]
  /\ users = [fd \in Fds |-> NewUser]
  /\ m_user_count = 0
  /\ mpc = "wait" /\ batch = {} /\ mcount = 0
  /\ Pool!PoolInit
  /\ wpc = [w \in Workers |-> "idle"] /\ wev = [w \in Workers |-> "in"]
  /\ wcount = [w \in Workers |-> 0]

-------------------------------------------------------------------------------
(* The clients and the kernel's side of a connection *)

Connected(c) == \/ \E i \in DOMAIN backlog : backlog[i] = c
                \/ \E fd \in Fds : fdconn[fd] = c

(* A handshake completes; the arrival puts listenfd on the ready list.     *)
ClientConnect(c) ==
  /\ ~ Connected(c) /\ ~ closed[c] /\ ~ gone[c]
  /\ backlog' = Append(backlog, c)
  /\ listenEdge' = TRUE
  /\ UNCHANGED <<fdconn, reg, pending, sent, gone, sndfull, closed, replied,
                 users, m_user_count, mainVars, poolVars, workerVars>>

ClientSend(c) ==
  /\ Connected(c) /\ ~ gone[c] /\ sent[c] < MaxUnits
  /\ sent' = [sent EXCEPT ![c] = @ + 1]
  /\ pending' = [pending EXCEPT ![c] = @ + 1]
  /\ UNCHANGED <<backlog, listenEdge, fdconn, reg, gone, sndfull, closed, replied,
                 users, m_user_count, mainVars, poolVars, workerVars>>

(* The peer shuts down its side or resets the connection.                  *)
ClientLeave(c) ==
  /\ Connected(c) /\ ~ gone[c]
  /\ gone' = [gone EXCEPT ![c] = TRUE]
  /\ UNCHANGED <<backlog, listenEdge, fdconn, reg, pending, sent, sndfull, closed,
                 replied, users, m_user_count, mainVars, poolVars, workerVars>>

(* The peer takes what was sent to it.                                     *)
ClientDrain(c) ==
  /\ sndfull[c]
  /\ sndfull' = [sndfull EXCEPT ![c] = FALSE]
  /\ UNCHANGED <<backlog, listenEdge, fdconn, reg, pending, sent, gone, closed,
                 replied, users, m_user_count, mainVars, poolVars, workerVars>>

(* What epoll_wait would report of fd now; a one-shot registration that is *)
(* spent reports nothing, and re-arming looks at the state afresh.         *)
Revents(fd) ==
  LET c == fdconn[fd]
  IN  IF reg[fd] \notin {"in", "out"} \/ c = NoConn THEN {}
      ELSE (IF gone[c] THEN {"hup"} ELSE {})
             \cup (IF reg[fd] = "in" /\ pending[c] > 0 THEN {"in"} ELSE {})
             \cup (IF reg[fd] = "out" /\ ~ sndfull[c] THEN {"out"} ELSE {})

(* main() tests EPOLLRDHUP, EPOLLHUP and EPOLLERR before EPOLLIN, and      *)
(* EPOLLIN before EPOLLOUT.                                                *)
Report(fd) ==
  [fd |-> fd, ev |-> IF "hup" \in Revents(fd) THEN "hup"
                     ELSE IF "in" \in Revents(fd) THEN "in" ELSE "out"]

ReadyFds == {fd \in Fds : Revents(fd) # {}}

-------------------------------------------------------------------------------
(* epoll registrations and descriptors *)

NotOneShot(fd) == reg[fd]                               \* mutant

Spent(fd) == "off"

ModFdForgotten(fd, ev) == reg' = reg                    \* mutant

(* modfd: EPOLL_CTL_MOD re-arms; on a descriptor that is -1 or no longer   *)
(* registered it fails and nobody looks.                                   *)
ModFd(fd, ev) ==
  reg' = IF fd \in Fds /\ reg[fd] # "none" THEN [reg EXCEPT ![fd] = ev] ELSE reg

(* removefd: EPOLL_CTL_DEL and close.  The peer's unread input is lost.    *)
RemoveFd(fd) ==
  /\ reg' = [reg EXCEPT ![fd] = "none"]
  /\ fdconn' = [fdconn EXCEPT ![fd] = NoConn]
  /\ closed' = [c \in Conns |-> closed[c] \/ fdconn[fd] = c]

FreeFds == {fd \in Fds : fdconn[fd] = NoConn}
LowestFree == CHOOSE fd \in FreeFds : \A other \in FreeFds : fd =< other

(* init(): everything the parser and the response need is reset, but not   *)
(* m_file_address.                                                         *)
ResetKeepingWrite(u) ==                                 \* mutant
  [u EXCEPT !.read = 0, !.linger = FALSE]

ResetSockfdToo(u) ==                                    \* mutant
  [u EXCEPT !.read = 0, !.write = NoConn, !.linger = FALSE, !.sockfd = NoFd]

Reset(u) == [u EXCEPT !.read = 0, !.write = NoConn, !.linger = FALSE]

-------------------------------------------------------------------------------
(* The main thread *)

(* epoll_wait: everything that is ready (MAX_EVENT_NUMBER is far more).    *)
EpollWait ==
  /\ mpc = "wait"
  /\ ReadyFds # {} \/ listenEdge
  /\ batch' = {Report(fd) : fd \in ReadyFds}
                \cup (IF listenEdge THEN {[fd |-> ListenFd, ev |-> "in"]} ELSE {})
  /\ reg' = [fd \in Fds |-> IF fd \in ReadyFds THEN Spent(fd) ELSE reg[fd]]
  /\ listenEdge' = FALSE
  /\ mpc' = "batch"
  /\ UNCHANGED <<backlog, fdconn, pending, sent, gone, sndfull, closed, replied,
                 users, m_user_count, mcount, poolVars, workerVars>>

(* The events are handled in an order that is the kernel's.                *)
Handling(e) ==
  /\ mpc = "batch" /\ e \in batch
  /\ batch' = batch \ {e}

BatchDone ==
  /\ mpc = "batch" /\ batch = {}
  /\ mpc' = "wait"
  /\ UNCHANGED <<kernelVars, users, m_user_count, batch, mcount, poolVars, workerVars>>

(* m_user_count++ and m_user_count-- are a load and a store.               *)
LoadCount(delta) == mcount' = m_user_count + delta /\ mpc' = "store"

StoreCount ==
  /\ mpc = "store"
  /\ m_user_count' = mcount
  /\ mpc' = "batch"
  /\ UNCHANGED <<kernelVars, users, batch, mcount, poolVars, workerVars>>

MainCloseUncounted(fd) ==                               \* mutant
  /\ UNCHANGED <<mcount, mpc>>
  /\ IF users[fd].sockfd = NoFd
     THEN UNCHANGED <<reg, fdconn, closed>> /\ users' = users
     ELSE /\ RemoveFd(users[fd].sockfd)
          /\ users' = [users EXCEPT ![fd].sockfd = NoFd]

MainCloseForgotten(fd) ==                               \* mutant
  UNCHANGED <<reg, fdconn, closed, mcount, mpc, users>>

(* close_conn() called by main.                                            *)
MainClose(fd) ==
  IF users[fd].sockfd = NoFd
  THEN UNCHANGED <<reg, fdconn, closed, mcount, mpc>> /\ users' = users
  ELSE /\ RemoveFd(users[fd].sockfd)
       /\ users' = [users EXCEPT ![fd].sockfd = NoFd]
       /\ LoadCount(-1)

(* One accept per report: accept fails only if there is no free descriptor.*)
AcceptFails ==
  /\ Handling([fd |-> ListenFd, ev |-> "in"])
  /\ backlog = << >> \/ FreeFds = {}
  /\ UNCHANGED <<kernelVars, users, m_user_count, mpc, mcount, poolVars, workerVars>>

ServerBusyOffByOne == m_user_count > MaxFd              \* mutant

ServerBusy == m_user_count >= MaxFd

(* show_error: the new connection is told and closed.                      *)
AcceptBusy ==
  /\ Handling([fd |-> ListenFd, ev |-> "in"])
  /\ backlog # << >> /\ FreeFds # {} /\ ServerBusy
  /\ backlog' = Tail(backlog)
  /\ closed' = [closed EXCEPT ![Head(backlog)] = TRUE]
  /\ UNCHANGED <<listenEdge, fdconn, reg, pending, sent, gone, sndfull, replied,
                 users, m_user_count, mpc, mcount, poolVars, workerVars>>

(* users[connfd].init(connfd, address): m_sockfd, addfd, m_user_count++,   *)
(* init().  A descriptor beyond users[] is a write beyond the array.       *)
Accept ==
  /\ Handling([fd |-> ListenFd, ev |-> "in"])
  /\ backlog # << >> /\ FreeFds # {} /\ ~ ServerBusy
  /\ backlog' = Tail(backlog)
  /\ fdconn' = [fdconn EXCEPT ![LowestFree] = Head(backlog)]
  /\ IF LowestFree >= MaxFd
     THEN mpc' = "out_of_bounds" /\ UNCHANGED <<reg, users, mcount>>
     ELSE /\ reg' = [reg EXCEPT ![LowestFree] = "in"]
          /\ users' = [users EXCEPT ![LowestFree] =
                         Reset([@ EXCEPT !.sockfd = LowestFree,
                                         !.address = Head(backlog)])]
          /\ LoadCount(1)
  /\ UNCHANGED <<listenEdge, pending, sent, gone, sndfull, closed, replied,
                 m_user_count, poolVars, workerVars>>

(* EPOLLRDHUP, EPOLLHUP or EPOLLERR: close, without unmap().               *)
HandleHup(fd) ==
  /\ Handling([fd |-> fd, ev |-> "hup"])
  /\ MainClose(fd)
  /\ UNCHANGED <<backlog, listenEdge, pending, sent, gone, sndfull, replied,
                 m_user_count, poolVars, workerVars>>

RoomIgnoresRead(fd) == BufferUnits                      \* mutant

(* What read() finds: room in the buffer, and the input there is for it.   *)
Room(fd) == BufferUnits - users[fd].read
ReadConn(fd) == IF users[fd].sockfd = NoFd THEN NoConn ELSE fdconn[users[fd].sockfd]
Input(fd) == IF ReadConn(fd) = NoConn THEN 0 ELSE pending[ReadConn(fd)]
Got(fd) == IF Input(fd) < Room(fd) THEN Input(fd) ELSE Room(fd)

(* recv until EAGAIN.  It fails on a full buffer, on input that does not   *)
(* fit (a recv of no bytes returns 0), on a peer that left, on m_sockfd -1.*)
ReadSucceeds(fd) ==
  /\ Room(fd) > 0 /\ ReadConn(fd) # NoConn
  /\ Input(fd) =< Room(fd) /\ ~ gone[ReadConn(fd)]

Recv(fd) ==
  pending' = IF ReadConn(fd) = NoConn THEN pending
             ELSE [pending EXCEPT ![ReadConn(fd)] = @ - Got(fd)]

(* EPOLLIN: read() and, if the pool has room, hand over to a worker.       *)
HandleIn(fd) ==
  /\ Handling([fd |-> fd, ev |-> "in"])
  /\ ReadSucceeds(fd)
  /\ Recv(fd)
  /\ users' = [users EXCEPT ![fd].read = @ + Got(fd)]
  /\ Pool!Accept(fd) \/ Pool!Reject
  /\ UNCHANGED <<backlog, listenEdge, fdconn, reg, sent, gone, sndfull, closed,
                 replied, m_user_count, mpc, mcount, workerVars>>

HandleInFails(fd) ==
  /\ Handling([fd |-> fd, ev |-> "in"])
  /\ ~ ReadSucceeds(fd)
  /\ Recv(fd)
  /\ MainClose(fd)
  /\ UNCHANGED <<backlog, listenEdge, sent, gone, sndfull, replied, m_user_count,
                 poolVars, workerVars>>

(* EPOLLOUT, with nothing to write: back to reading.                       *)
HandleOutNothing(fd) ==
  /\ Handling([fd |-> fd, ev |-> "out"])
  /\ users[fd].write = NoConn
  /\ ModFd(users[fd].sockfd, "in")
  /\ users' = [users EXCEPT ![fd] = Reset(@)]
  /\ UNCHANGED <<backlog, listenEdge, fdconn, pending, sent, gone, sndfull, closed,
                 replied, m_user_count, mpc, mcount, poolVars, workerVars>>

(* The socket's buffer is full: wait for the next EPOLLOUT.                *)
HandleOutAgain(fd) ==
  /\ Handling([fd |-> fd, ev |-> "out"])
  /\ users[fd].write # NoConn /\ ReadConn(fd) # NoConn
  /\ sndfull' = [sndfull EXCEPT ![ReadConn(fd)] = TRUE]
  /\ ModFd(users[fd].sockfd, "out")
  /\ UNCHANGED <<backlog, listenEdge, fdconn, pending, sent, gone, closed, replied,
                 users, m_user_count, mpc, mcount, poolVars, workerVars>>

(* The response is sent and the client asked for keep-alive.               *)
HandleOutLinger(fd) ==
  /\ Handling([fd |-> fd, ev |-> "out"])
  /\ users[fd].write # NoConn /\ ReadConn(fd) # NoConn
  /\ users[fd].linger
  /\ replied' = [replied EXCEPT ![ReadConn(fd)] = TRUE]
  /\ users' = [users EXCEPT ![fd] = Reset([@ EXCEPT !.file = NoConn])]
  /\ ModFd(users[fd].sockfd, "in")
  /\ UNCHANGED <<backlog, listenEdge, fdconn, pending, sent, gone, sndfull, closed,
                 m_user_count, mpc, mcount, poolVars, workerVars>>

(* unmap() and close_conn(): the response is sent and the connection is    *)
(* not kept, or writev failed.                                             *)
HandleOutClose(fd) ==
  /\ Handling([fd |-> fd, ev |-> "out"])
  /\ users[fd].write # NoConn
  /\ \/ /\ ReadConn(fd) # NoConn /\ ~ users[fd].linger
        /\ replied' = [replied EXCEPT ![ReadConn(fd)] = TRUE]
     \/ /\ ReadConn(fd) # NoConn => gone[ReadConn(fd)]
        /\ UNCHANGED replied
  /\ IF users[fd].sockfd = NoFd
     THEN /\ users' = [users EXCEPT ![fd].file = NoConn]
          /\ UNCHANGED <<reg, fdconn, closed, mcount, mpc>>
     ELSE /\ users' = [users EXCEPT ![fd].file = NoConn, ![fd].sockfd = NoFd]
          /\ RemoveFd(users[fd].sockfd)
          /\ LoadCount(-1)
  /\ UNCHANGED <<backlog, listenEdge, pending, sent, gone, sndfull, m_user_count,
                 poolVars, workerVars>>

-------------------------------------------------------------------------------
(* The workers: http_conn::process() *)

ProcessStart(w) ==
  /\ Pool!Start(w)
  /\ wpc' = [wpc EXCEPT ![w] = "parse"]
  /\ UNCHANGED <<kernelVars, users, m_user_count, mainVars, wev, wcount>>

ArmSwapped(w, ev) ==                                    \* mutant
  /\ wpc' = [wpc EXCEPT ![w] = "rearm"]
  /\ wev' = [wev EXCEPT ![w] = IF ev = "in" THEN "out" ELSE "in"]

Arm(w, ev) == wpc' = [wpc EXCEPT ![w] = "rearm"] /\ wev' = [wev EXCEPT ![w] = ev]

(* process_read() finds no complete request, or a line it rejects.         *)
ProcessIncomplete(w) ==
  /\ wpc[w] = "parse"
  /\ \/ users[serving[w]].read < RequestUnits
     \/ "stalled" \in Outcomes
  /\ Arm(w, "in")
  /\ UNCHANGED <<kernelVars, users, m_user_count, mainVars, poolVars, wcount>>

(* process_read() and process_write() leave a response to be written.      *)
ProcessReply(w) ==
  LET fd == serving[w]
  IN  /\ wpc[w] = "parse"
      /\ users[fd].read >= RequestUnits
      /\ \E outcome \in Outcomes \cap {"page", "file"}, linger \in BOOLEAN :
           users' = [users EXCEPT
                       ![fd].write = users[fd].address, ![fd].linger = linger,
                       ![fd].file = IF outcome = "file" THEN users[fd].address
                                    ELSE @]
      /\ Arm(w, "out")
      /\ UNCHANGED <<kernelVars, m_user_count, mainVars, poolVars, wcount>>

(* A file of size zero: the case of process_write that builds its page     *)
(* falls into `default' and returns false, so process() closes.            *)
ProcessEmptyFile(w) ==
  LET fd == serving[w]
  IN  /\ wpc[w] = "parse"
      /\ users[fd].read >= RequestUnits
      /\ "empty" \in Outcomes
      /\ users' = [users EXCEPT ![fd].write = users[fd].address]
      /\ wpc' = [wpc EXCEPT ![w] = "close"]
      /\ UNCHANGED <<kernelVars, m_user_count, mainVars, poolVars, wev, wcount>>

(* close_conn() in a worker, cut where main can come between: the          *)
(* descriptor is free for accept before m_sockfd and m_user_count change.  *)
WorkerRemove(w) ==
  /\ wpc[w] = "close"
  /\ LET fd == users[serving[w]].sockfd
     IN  IF fd = NoFd
         THEN Arm(w, "out") /\ UNCHANGED kernelVars
         ELSE /\ RemoveFd(fd)
              /\ wpc' = [wpc EXCEPT ![w] = "reset"]
              /\ UNCHANGED <<backlog, listenEdge, pending, sent, gone, sndfull,
                             replied, wev>>
  /\ UNCHANGED <<users, m_user_count, mainVars, poolVars, wcount>>

WorkerResetSockfd(w) ==
  /\ wpc[w] = "reset"
  /\ users' = [users EXCEPT ![serving[w]].sockfd = NoFd]
  /\ wpc' = [wpc EXCEPT ![w] = "count"]
  /\ UNCHANGED <<kernelVars, m_user_count, mainVars, poolVars, wev, wcount>>

WorkerLoadCount(w) ==
  /\ wpc[w] = "count"
  /\ wcount' = [wcount EXCEPT ![w] = m_user_count - 1]
  /\ wpc' = [wpc EXCEPT ![w] = "store"]
  /\ UNCHANGED <<kernelVars, users, m_user_count, mainVars, poolVars, wev>>

WorkerStoreCount(w) ==
  /\ wpc[w] = "store"
  /\ m_user_count' = wcount[w]
  /\ Arm(w, "out")
  /\ UNCHANGED <<kernelVars, users, mainVars, poolVars, wcount>>

(* The modfd that ends process(), on whatever m_sockfd is by now.          *)
ProcessEnd(w) ==
  /\ wpc[w] = "rearm"
  /\ ModFd(users[serving[w]].sockfd, wev[w])
  /\ Pool!Finish(w)
  /\ wpc' = [wpc EXCEPT ![w] = "idle"]
  /\ UNCHANGED <<backlog, listenEdge, fdconn, pending, sent, gone, sndfull, closed,
                 replied, users, m_user_count, mainVars, wev, wcount>>

-------------------------------------------------------------------------------
ClientNext(c) ==
  ClientConnect(c) \/ ClientSend(c) \/ ClientLeave(c) \/ ClientDrain(c)

MainNext ==
  \/ EpollWait \/ BatchDone \/ StoreCount
  \/ AcceptFails \/ AcceptBusy \/ Accept
  \/ \E fd \in Fds :
       \/ HandleHup(fd) \/ HandleIn(fd) \/ HandleInFails(fd)
       \/ HandleOutNothing(fd) \/ HandleOutAgain(fd)
       \/ HandleOutLinger(fd) \/ HandleOutClose(fd)

WorkerNext(w) ==
  \/ ProcessStart(w)
  \/ ProcessIncomplete(w) \/ ProcessReply(w) \/ ProcessEmptyFile(w)
  \/ WorkerRemove(w) \/ WorkerResetSockfd(w)
  \/ WorkerLoadCount(w) \/ WorkerStoreCount(w)
  \/ ProcessEnd(w)

Next ==
  \/ \E c \in Conns : ClientNext(c)
  \/ MainNext
  \/ \E w \in Workers : WorkerNext(w)

Spec == Init /\ [][Next]_vars

(* Every thread runs; a peer takes what it is sent; writev, told by         *)
(* EPOLLOUT that there is room, does not find the buffer full for ever.     *)
Fairness ==
  /\ WF_vars(MainNext)
  /\ \A fd \in Fds : SF_vars(HandleOutLinger(fd) \/ HandleOutClose(fd))
  /\ \A w \in Workers : WF_vars(WorkerNext(w))
  /\ \A c \in Conns : WF_vars(ClientDrain(c))

FairSpec == Spec /\ Fairness

-------------------------------------------------------------------------------
(* Properties *)

OpenFds == {fd \in Fds : fdconn[fd] # NoConn}

(* The threads, events and queue entries that will touch users[fd] next:   *)
(* an armed registration, an event not yet handled, a place in the pool's  *)
(* queue, a worker that has not closed it itself.                          *)
Serving(fd) == {w \in Workers : serving[w] = fd /\ wpc[w] \in {"parse", "close", "rearm"}}
Claims(fd) ==
  (IF reg[fd] \in {"in", "out"} THEN 1 ELSE 0)
    + Cardinality({e \in batch : e.fd = fd})
    + Cardinality({i \in DOMAIN m_workqueue : m_workqueue[i] = fd})
    + Cardinality(Serving(fd))

(* The one-shot discipline: an open connection is in exactly one hand, so  *)
(* that no two threads work on users[fd] and none forgets it; a closed one *)
(* is in none.                                                             *)
OneOwner ==
  mpc # "out_of_bounds" =>
    \A fd \in Fds : Claims(fd) = IF fd \in OpenFds THEN 1 ELSE 0

(* http_conn.h:120 says m_user_count counts the users: whenever no thread is   *)
(* in the middle of an update it is the number of open connections.        *)
UserCountExact ==
  (/\ mpc \notin {"store", "out_of_bounds"}
   /\ \A w \in Workers : wpc[w] \notin {"reset", "count", "store"})
    => m_user_count = Cardinality(OpenFds)

(* http_conn.h:124 says m_sockfd is the socket of the HTTP connection: the     *)
(* object of an open connection knows its descriptor.                      *)
SockfdIsOwn ==
  mpc # "out_of_bounds" => \A fd \in OpenFds : users[fd].sockfd = fd

(* A response in the write buffer of an open connection answers a request  *)
(* of that connection, not of the one that had the descriptor before.      *)
ReplyIsOwn ==
  \A fd \in OpenFds : users[fd].write \in {NoConn, fdconn[fd]}

(* While append refuses nothing, the only way a connection drops out of    *)
(* everyone's hands is that its m_sockfd was overwritten.                  *)
LostOnlyBySockfd ==
  mpc # "out_of_bounds" =>
    \A fd \in OpenFds : users[fd].sockfd = fd => Claims(fd) >= 1

(* http_web_server.cpp:112 refuses a client when m_user_count has reached  *)
(* MAX_FD: even when the two unsynchronised threads lose updates of it, it *)
(* never passes MAX_FD.                                                    *)
CountBelowMax == m_user_count =< MaxFd

(* http_web_server.cpp:127 says that, by the result of the read, the task  *)
(* is added to the pool or the connection closed: after an EPOLLIN is      *)
(* handled the connection is queued or closed.                             *)
ReadQueuesOrCloses ==
  [][\A fd \in Fds :
       [fd |-> fd, ev |-> "in"] \in batch \ batch' =>
         \/ fdconn'[fd] = NoConn
         \/ \E i \in DOMAIN m_workqueue' : m_workqueue'[i] = fd]_vars

(* An accepted client that sent a whole request is answered or closed.     *)
Answered ==
  \A c \in Conns :
    (sent[c] >= RequestUnits /\ (\E fd \in Fds : fdconn[fd] = c))
      ~> (replied[c] \/ closed[c])
===============================================================================
