--------------------------- MODULE HttpServerProofs ---------------------------
(***************************************************************************)
(* Theorems about HttpServer, for any number of connections, descriptors,  *)
(* workers and outcomes: who owns a connection, and what the count counts. *)
(***************************************************************************)
EXTENDS HttpServer, FiniteSetTheorems, WellFoundedInduction, TLAPS

(* What is received and not yet read was sent.                             *)
Received == \A c \in Conns : pending[c] =< sent[c]

Typed == TypeOK /\ Received

-------------------------------------------------------------------------------
(* Types *)

(* Updating one field of an object.                                        *)
LEMMA UserUpdate ==
  ASSUME NEW u \in User
  PROVE  /\ \A x \in Fds \cup {NoFd} : [u EXCEPT !.sockfd = x] \in User
         /\ \A x \in Conns \cup {NoConn} : [u EXCEPT !.address = x] \in User
         /\ \A x \in 0 .. BufferUnits : [u EXCEPT !.read = x] \in User
         /\ \A x \in Conns \cup {NoConn} : [u EXCEPT !.write = x] \in User
         /\ \A x \in BOOLEAN : [u EXCEPT !.linger = x] \in User
         /\ \A x \in Conns \cup {NoConn} : [u EXCEPT !.file = x] \in User
BY DEF User

(* init() leaves an object.                                                *)
LEMMA ResetType == ASSUME NEW u \in User PROVE Reset(u) \in User
<1>1. 0 \in 0 .. BufferUnits
  BY ServerAssumption
<1> DEFINE v == [u EXCEPT !.read = 0]
           x == [v EXCEPT !.write = NoConn]
<1>2. v \in User
  BY <1>1, UserUpdate
<1> HIDE DEF v
<1>3. x \in User
  BY <1>2, UserUpdate
<1> HIDE DEF x
<1>4. [x EXCEPT !.linger = FALSE] \in User
  BY <1>3, UserUpdate
<1> QED
  BY <1>4 DEF v, x, Reset

(* removefd leaves registrations, descriptors and connections in their types.*)
LEMMA RemoveFdType ==
  ASSUME TypeOK, NEW fd, RemoveFd(fd)
  PROVE  /\ reg' \in [Fds -> {"none", "off", "in", "out"}]
         /\ fdconn' \in [Fds -> Conns \cup {NoConn}]
         /\ closed' \in [Conns -> BOOLEAN]
<1>1. closed' = [c \in Conns |-> closed[c] \/ fdconn[fd] = c]
  BY DEF RemoveFd
<1>2. closed' \in [Conns -> BOOLEAN]
  BY <1>1, Zenon
<1>3. reg' = [reg EXCEPT ![fd] = "none"] /\ fdconn' = [fdconn EXCEPT ![fd] = NoConn]
  BY DEF RemoveFd
<1> QED
  BY <1>2, <1>3 DEF TypeOK

(* So does close_conn() in main.                                           *)
LEMMA MainCloseType ==
  ASSUME TypeOK, NEW fd \in Fds, MainClose(fd)
  PROVE  /\ reg' \in [Fds -> {"none", "off", "in", "out"}]
         /\ fdconn' \in [Fds -> Conns \cup {NoConn}]
         /\ closed' \in [Conns -> BOOLEAN]
         /\ users' \in [Fds -> User]
         /\ mcount' \in Int
         /\ mpc' \in {mpc, "store"}
<1>1. users[fd] \in User
  BY DEF TypeOK
<1>2. CASE users[fd].sockfd = NoFd
  BY <1>2 DEF MainClose, TypeOK
<1>3. CASE users[fd].sockfd # NoFd
  <2>1. [users[fd] EXCEPT !.sockfd = NoFd] \in User
    BY <1>1, UserUpdate
  <2>2. users' \in [Fds -> User]
    BY <1>3, <2>1 DEF MainClose, TypeOK
  <2>3. RemoveFd(users[fd].sockfd) /\ LoadCount(-1)
    BY <1>3 DEF MainClose
  <2>4. mcount' \in Int /\ mpc' \in {mpc, "store"}
    BY <2>3 DEF LoadCount, TypeOK
  <2> QED
    BY <2>2, <2>3, <2>4, RemoveFdType
<1> QED
  BY <1>2, <1>3

(* And modfd.                                                              *)
LEMMA ModFdType ==
  ASSUME TypeOK, NEW fd, NEW ev \in {"in", "out"}, ModFd(fd, ev)
  PROVE  reg' \in [Fds -> {"none", "off", "in", "out"}]
BY DEF ModFd, TypeOK

(* recv takes no more than there is, nor than there is room for.           *)
LEMMA RecvType ==
  ASSUME Typed, NEW fd \in Fds, Recv(fd)
  PROVE  /\ pending' \in [Conns -> 0 .. MaxUnits]
         /\ \A c \in Conns : pending'[c] =< pending[c]
         /\ ReadConn(fd) # NoConn => Got(fd) \in 0 .. Room(fd)
<1> USE ServerAssumption DEF Typed, TypeOK, User
<1>1. users[fd] \in User /\ Room(fd) \in 0 .. BufferUnits
  BY DEF Room
<1>2. ReadConn(fd) \in Conns \cup {NoConn}
  BY <1>1 DEF ReadConn
<1>3. CASE ReadConn(fd) = NoConn
  BY <1>3 DEF Recv
<1>4. CASE ReadConn(fd) # NoConn
  <2>1. Input(fd) = pending[ReadConn(fd)] /\ Input(fd) \in 0 .. MaxUnits
    BY <1>2, <1>4 DEF Input
  <2>2. Got(fd) \in 0 .. Room(fd) /\ Got(fd) =< Input(fd) /\ Got(fd) \in Nat
    BY <1>1, <2>1 DEF Got
  <2>3. PICK c \in Conns : c = ReadConn(fd)
    BY <1>2, <1>4
  <2>4. PICK left \in 0 .. pending[c] : pending' = [pending EXCEPT ![c] = left]
    <3>1. pending[c] - Got(fd) \in 0 .. pending[c]
      BY <2>1, <2>2, <2>3
    <3>2. pending' = [pending EXCEPT ![c] = pending[c] - Got(fd)]
      BY <1>4, <2>3 DEF Recv
    <3> QED
      BY <3>1, <3>2
  <2>5. pending \in [Conns -> 0 .. MaxUnits] /\ left \in 0 .. MaxUnits
    BY <2>4
  <2>6. pending' \in [Conns -> 0 .. MaxUnits]
    BY <2>4, <2>5
  <2>7. \A x \in Conns : pending'[x] =< pending[x]
    BY <2>4, <2>5
  <2> QED
    BY <2>2, <2>6, <2>7
<1> QED
  BY <1>3, <1>4

(* The clients' steps keep the types.                                      *)
LEMMA ClientType ==
  ASSUME Typed, NEW c \in Conns, ClientNext(c) PROVE Typed'
<1> USE DEF Typed, TypeOK, Received, mainVars, poolVars, workerVars
<1>1. CASE ClientConnect(c)
  BY <1>1 DEF ClientConnect
<1>2. CASE ClientSend(c)
  <2>1. sent[c] + 1 \in 0 .. MaxUnits /\ pending[c] + 1 \in 0 .. MaxUnits
        /\ pending[c] + 1 =< sent[c] + 1
    BY <1>2, ServerAssumption DEF ClientSend
  <2>2. /\ sent' = [sent EXCEPT ![c] = sent[c] + 1]
        /\ pending' = [pending EXCEPT ![c] = pending[c] + 1]
    BY <1>2 DEF ClientSend
  <2>3. /\ sent' \in [Conns -> 0 .. MaxUnits] /\ pending' \in [Conns -> 0 .. MaxUnits]
        /\ Received'
    BY <2>1, <2>2
  <2> QED
    BY <1>2, <2>3 DEF ClientSend
<1>3. CASE ClientLeave(c)
  BY <1>3 DEF ClientLeave
<1>4. CASE ClientDrain(c)
  BY <1>4 DEF ClientDrain
<1> QED
  BY <1>1, <1>2, <1>3, <1>4 DEF ClientNext

(* An accept keeps the types, even one whose descriptor is beyond users[]. *)
LEMMA AcceptType == Typed /\ (AcceptFails \/ AcceptBusy \/ Accept) => Typed'
<1> SUFFICES ASSUME Typed, AcceptFails \/ AcceptBusy \/ Accept PROVE Typed'
  OBVIOUS
<1> USE ServerAssumption
<1>1. CASE AcceptFails
  BY <1>1 DEF AcceptFails, Handling, Typed, TypeOK, Received, kernelVars, poolVars, workerVars
<1>2. CASE AcceptBusy
  BY <1>2 DEF AcceptBusy, Handling, Typed, TypeOK, Received, poolVars, workerVars
<1>3. CASE Accept
  <2>1. backlog \in Seq(Conns) /\ backlog # << >>
    BY <1>3 DEF Accept, Typed, TypeOK
  <2>2. Head(backlog) \in Conns /\ backlog' \in Seq(Conns)
    BY <1>3, <2>1 DEF Accept
  <2>3. CASE LowestFree >= MaxFd
    BY <1>3, <2>2, <2>3 DEF Accept, Handling, Typed, TypeOK, Received, poolVars, workerVars
  <2>4. CASE ~ LowestFree >= MaxFd
    <3>1. ASSUME LowestFree \in Fds PROVE users' \in [Fds -> User]
      <4> DEFINE u == users[LowestFree]
                 v == [u EXCEPT !.sockfd = LowestFree]
                 x == [v EXCEPT !.address = Head(backlog)]
      <4>1. u \in User
        BY <3>1 DEF Typed, TypeOK
      <4> HIDE DEF u
      <4>2. v \in User
        BY <3>1, <4>1, UserUpdate
      <4> HIDE DEF v
      <4>3. x \in User
        BY <2>2, <4>2, UserUpdate
      <4>4. users' = [users EXCEPT ![LowestFree] = Reset(x)]
        BY <1>3, <2>4 DEF Accept, u, v, x
      <4> HIDE DEF x
      <4> QED
        BY <4>3, <4>4, ResetType DEF Typed, TypeOK
    <3>2. users' \in [Fds -> User]
      <4>1. CASE LowestFree \notin Fds
        BY <1>3, <2>4, <4>1 DEF Accept, Typed, TypeOK
      <4> QED
        BY <3>1, <4>1
    <3>3. LoadCount(1) /\ reg' = [reg EXCEPT ![LowestFree] = "in"]
          /\ fdconn' = [fdconn EXCEPT ![LowestFree] = Head(backlog)]
          /\ batch' \subseteq batch
          /\ UNCHANGED <<listenEdge, pending, sent, gone, sndfull, closed, replied,
                         m_user_count, poolVars, workerVars>>
      BY <1>3, <2>4 DEF Accept, Handling
    <3>4. reg' \in [Fds -> {"none", "off", "in", "out"}]
          /\ fdconn' \in [Fds -> Conns \cup {NoConn}]
      BY <2>2, <3>3 DEF Typed, TypeOK
    <3>5. mcount' \in Int /\ mpc' = "store"
      BY <3>3 DEF LoadCount, Typed, TypeOK
    <3> QED
      BY <2>2, <3>2, <3>3, <3>4, <3>5 DEF Typed, TypeOK, Received, poolVars, workerVars
  <2> QED
    BY <2>3, <2>4
<1> QED
  BY <1>1, <1>2, <1>3

(* The steps of main's loop keep the types.                                *)
LEMMA EpollType == Typed /\ (EpollWait \/ BatchDone \/ StoreCount) => Typed'
<1> SUFFICES ASSUME Typed, EpollWait \/ BatchDone \/ StoreCount PROVE Typed'
  OBVIOUS
<1>1. CASE EpollWait
  <2>1. \A fd \in ReadyFds : fd \in Fds /\ Report(fd) \in Events
    BY DEF ReadyFds, Report, Events
  <2>2. batch' \subseteq Events
    BY <1>1, <2>1 DEF EpollWait, Events
  <2>3. reg' \in [Fds -> {"none", "off", "in", "out"}]
    BY <1>1 DEF EpollWait, Spent, Typed, TypeOK
  <2> QED
    BY <1>1, <2>2, <2>3 DEF EpollWait, Typed, TypeOK, Received, poolVars, workerVars
<1>2. CASE BatchDone
  BY <1>2 DEF BatchDone, Typed, TypeOK, Received, kernelVars, poolVars, workerVars
<1>3. CASE StoreCount
  BY <1>3 DEF StoreCount, Typed, TypeOK, Received, kernelVars, poolVars, workerVars
<1> QED
  BY <1>1, <1>2, <1>3

(* Handling an EPOLLIN or a hang-up keeps the types.                       *)
LEMMA HandleInType ==
  ASSUME Typed, NEW fd \in Fds, HandleHup(fd) \/ HandleIn(fd) \/ HandleInFails(fd)
  PROVE  Typed'
<1> USE ServerAssumption
<1>1. batch' \subseteq Events
  BY DEF Typed, TypeOK, HandleHup, HandleIn, HandleInFails, Handling
<1>2. CASE HandleHup(fd)
  <2>1. MainClose(fd)
    BY <1>2 DEF HandleHup
  <2> QED
    BY <1>1, <1>2, <2>1, MainCloseType DEF HandleHup, Typed, TypeOK, Received,
       poolVars, workerVars
<1>3. CASE HandleInFails(fd)
  <2>1. MainClose(fd) /\ Recv(fd)
    BY <1>3 DEF HandleInFails
  <2>2. /\ pending' \in [Conns -> 0 .. MaxUnits]
        /\ \A c \in Conns : pending'[c] =< pending[c]
    BY <2>1, RecvType
  <2>3. Received'
    BY <1>3, <2>2 DEF HandleInFails, Received, Typed, TypeOK
  <2> QED
    BY <1>1, <1>3, <2>1, <2>2, <2>3, MainCloseType DEF HandleInFails, Typed, TypeOK,
       poolVars, workerVars
<1>4. CASE HandleIn(fd)
  <2>1. Recv(fd) /\ ReadConn(fd) # NoConn
    BY <1>4 DEF HandleIn, ReadSucceeds
  <2>2. /\ pending' \in [Conns -> 0 .. MaxUnits]
        /\ \A c \in Conns : pending'[c] =< pending[c]
        /\ Got(fd) \in 0 .. Room(fd)
    BY <2>1, RecvType
  <2>3. Received'
    <3>1. \A c \in Conns : /\ sent'[c] = sent[c] /\ pending[c] =< sent[c]
                           /\ pending'[c] \in Int /\ pending[c] \in Int /\ sent[c] \in Int
      BY <1>4, <2>2 DEF HandleIn, Received, Typed, TypeOK
    <3> QED
      BY <2>2, <3>1 DEF Received
  <2>4. users' \in [Fds -> User]
    <3>1. users[fd] \in User
      BY DEF Typed, TypeOK
    <3>2. users[fd].read + Got(fd) \in 0 .. BufferUnits
      BY <2>2, <3>1 DEF Room, User
    <3>3. [users[fd] EXCEPT !.read = users[fd].read + Got(fd)] \in User
      BY <3>1, <3>2, UserUpdate
    <3> QED
      BY <1>4, <3>3 DEF HandleIn, Typed, TypeOK
  <2>5. m_workqueue' \in Seq(Fds) /\ UNCHANGED serving
    <3>1. m_workqueue \in Seq(Fds) /\ (Pool!Accept(fd) \/ Pool!Reject)
      BY <1>4 DEF HandleIn, Typed, TypeOK
    <3> QED
      BY <3>1 DEF Pool!Accept, Pool!Reject
  <2> QED
    BY <1>1, <1>4, <2>2, <2>3, <2>4, <2>5 DEF HandleIn, Typed, TypeOK, workerVars
<1> QED
  BY <1>2, <1>3, <1>4

(* Handling an EPOLLOUT keeps the types.                                   *)
LEMMA HandleOutType ==
  ASSUME Typed, NEW fd \in Fds,
         \/ HandleOutNothing(fd) \/ HandleOutAgain(fd)
         \/ HandleOutLinger(fd) \/ HandleOutClose(fd)
  PROVE  Typed'
<1> USE ServerAssumption
<1>1. batch' \subseteq Events
  BY DEF Typed, TypeOK, HandleOutNothing, HandleOutAgain, HandleOutLinger, HandleOutClose,
     Handling
<1>2. users[fd] \in User
  BY DEF Typed, TypeOK
<1> DEFINE u == [users[fd] EXCEPT !.file = NoConn]
<1>3. u \in User
  BY <1>2, UserUpdate
<1>4. CASE HandleOutNothing(fd)
  <2>1. users' \in [Fds -> User]
    BY <1>2, <1>4, ResetType DEF HandleOutNothing, Typed, TypeOK
  <2>2. ModFd(users[fd].sockfd, "in")
    BY <1>4 DEF HandleOutNothing
  <2>3. reg' \in [Fds -> {"none", "off", "in", "out"}]
    BY <2>2, ModFdType DEF Typed
  <2> QED
    BY <1>1, <1>4, <2>1, <2>3 DEF HandleOutNothing, Typed, TypeOK, Received, poolVars,
       workerVars
<1>5. CASE HandleOutAgain(fd)
  <2>1. ModFd(users[fd].sockfd, "out")
    BY <1>5 DEF HandleOutAgain
  <2>2. reg' \in [Fds -> {"none", "off", "in", "out"}]
    BY <2>1, ModFdType DEF Typed
  <2>3. sndfull' \in [Conns -> BOOLEAN]
    BY <1>5 DEF HandleOutAgain, Typed, TypeOK
  <2> QED
    BY <1>1, <1>5, <2>2, <2>3 DEF HandleOutAgain, Typed, TypeOK, Received, poolVars,
       workerVars
<1>6. CASE HandleOutLinger(fd)
  <2>1. users' = [users EXCEPT ![fd] = Reset(u)]
    BY <1>6 DEF HandleOutLinger
  <2>2. users' \in [Fds -> User]
    BY <1>3, <2>1, ResetType DEF Typed, TypeOK
  <2>3. ModFd(users[fd].sockfd, "in")
    BY <1>6 DEF HandleOutLinger
  <2>4. reg' \in [Fds -> {"none", "off", "in", "out"}]
    BY <2>3, ModFdType DEF Typed
  <2>5. replied' \in [Conns -> BOOLEAN]
    BY <1>6 DEF HandleOutLinger, Typed, TypeOK
  <2> QED
    BY <1>1, <1>6, <2>2, <2>4, <2>5 DEF HandleOutLinger, Typed, TypeOK, Received,
       poolVars, workerVars
<1>7. CASE HandleOutClose(fd)
  <2>1. replied' \in [Conns -> BOOLEAN]
    BY <1>7 DEF HandleOutClose, Typed, TypeOK
  <2>2. CASE users[fd].sockfd = NoFd
    <3>1. users' = [users EXCEPT ![fd] = u]
      BY <1>7, <2>2 DEF HandleOutClose, Typed, TypeOK
    <3>2. users' \in [Fds -> User]
      BY <1>3, <3>1 DEF Typed, TypeOK
    <3> QED
      BY <1>1, <1>7, <2>1, <2>2, <3>2 DEF HandleOutClose, Typed, TypeOK, Received,
         poolVars, workerVars
  <2>3. CASE users[fd].sockfd # NoFd
    <3>1. [u EXCEPT !.sockfd = NoFd] \in User
      BY <1>3, UserUpdate
    <3>2. users' = [users EXCEPT ![fd] = [u EXCEPT !.sockfd = NoFd]]
      BY <1>7, <2>3 DEF HandleOutClose, Typed, TypeOK
    <3>3. users' \in [Fds -> User]
      BY <3>1, <3>2 DEF Typed, TypeOK
    <3>4. RemoveFd(users[fd].sockfd) /\ LoadCount(-1)
      BY <1>7, <2>3 DEF HandleOutClose
    <3>5. mcount' \in Int /\ mpc' = "store"
      BY <3>4 DEF LoadCount, Typed, TypeOK
    <3>6. /\ reg' \in [Fds -> {"none", "off", "in", "out"}]
          /\ fdconn' \in [Fds -> Conns \cup {NoConn}]
          /\ closed' \in [Conns -> BOOLEAN]
      BY <3>4, RemoveFdType DEF Typed
    <3> QED
      BY <1>1, <1>7, <2>1, <3>3, <3>5, <3>6 DEF HandleOutClose, Typed, TypeOK, Received,
         poolVars, workerVars
  <2> QED
    BY <2>2, <2>3
<1> QED
  BY <1>4, <1>5, <1>6, <1>7

(* The workers' steps keep the types.                                      *)
LEMMA WorkerType ==
  ASSUME Typed, NEW w \in Workers, WorkerNext(w) PROVE Typed'
<1> USE ServerAssumption
<1>1. CASE ProcessStart(w)
  <2>1. /\ m_workqueue \in Seq(Fds) /\ m_workqueue # << >>
        /\ m_workqueue' = Tail(m_workqueue)
        /\ serving' = [serving EXCEPT ![w] = Head(m_workqueue)]
    BY <1>1 DEF ProcessStart, Pool!Start, Typed, TypeOK
  <2>2. m_workqueue' \in Seq(Fds) /\ Head(m_workqueue) \in Fds
    BY <2>1
  <2>3. serving' \in [Workers -> Fds \cup {NoFd}]
    BY <2>1, <2>2 DEF Typed, TypeOK
  <2> QED
    BY <1>1, <2>2, <2>3 DEF ProcessStart, Typed, TypeOK, Received, kernelVars, mainVars
<1>2. CASE ProcessIncomplete(w)
  BY <1>2 DEF ProcessIncomplete, Arm, Typed, TypeOK, Received, kernelVars, mainVars, poolVars
<1>3. CASE ProcessReply(w)
  <2>1. CASE serving[w] \notin Fds
    <3>1. users' = users
      BY <1>3, <2>1 DEF ProcessReply, Typed, TypeOK
    <3> QED
      BY <1>3, <3>1 DEF ProcessReply, Arm, Typed, TypeOK, Received, kernelVars, mainVars,
         poolVars
  <2>2. CASE serving[w] \in Fds
    <3> DEFINE fd == serving[w]
               a == users[fd].address
    <3>1. users[fd] \in User /\ a \in Conns \cup {NoConn}
      BY <2>2 DEF Typed, TypeOK, User
    <3>2. PICK linger \in BOOLEAN, f \in {a, users[fd].file} :
            users' = [users EXCEPT ![fd].write = a, ![fd].linger = linger, ![fd].file = f]
      BY <1>3 DEF ProcessReply
    <3> DEFINE u == [users[fd] EXCEPT !.write = a]
               v == [u EXCEPT !.linger = linger]
    <3>3. u \in User /\ f \in Conns \cup {NoConn}
      BY <3>1, UserUpdate DEF User
    <3> HIDE DEF u
    <3>4. v \in User
      BY <3>3, UserUpdate
    <3> HIDE DEF v
    <3>5. [v EXCEPT !.file = f] \in User
      BY <3>3, <3>4, UserUpdate
    <3>6. users' = [users EXCEPT ![fd] = [v EXCEPT !.file = f]]
      BY <2>2, <3>2 DEF u, v, Typed, TypeOK
    <3>7. users' \in [Fds -> User]
      BY <3>5, <3>6 DEF Typed, TypeOK
    <3> QED
      BY <1>3, <3>7 DEF ProcessReply, Arm, Typed, TypeOK, Received, kernelVars, mainVars,
         poolVars
  <2> QED
    BY <2>1, <2>2
<1>4. CASE ProcessEmptyFile(w)
  <2>1. users' \in [Fds -> User]
    <3>1. CASE serving[w] \notin Fds
      BY <1>4, <3>1 DEF ProcessEmptyFile, Typed, TypeOK
    <3>2. CASE serving[w] \in Fds
      <4>1. users[serving[w]] \in User
        BY <3>2 DEF Typed, TypeOK
      <4>2. [users[serving[w]] EXCEPT !.write = users[serving[w]].address] \in User
        BY <4>1, UserUpdate DEF User
      <4> QED
        BY <1>4, <3>2, <4>2 DEF ProcessEmptyFile, Typed, TypeOK
    <3> QED
      BY <3>1, <3>2
  <2> QED
    BY <1>4, <2>1 DEF ProcessEmptyFile, Typed, TypeOK, Received, kernelVars, mainVars,
       poolVars
<1>5. CASE WorkerRemove(w)
  <2>1. CASE users[serving[w]].sockfd = NoFd
    <3>1. Arm(w, "out") /\ UNCHANGED <<kernelVars, users, m_user_count, mainVars, poolVars,
                                       wcount>>
      BY <1>5, <2>1 DEF WorkerRemove
    <3> QED
      BY <3>1 DEF Arm, Typed, TypeOK, Received, kernelVars, mainVars, poolVars
  <2>2. CASE users[serving[w]].sockfd # NoFd
    <3>1. RemoveFd(users[serving[w]].sockfd)
      BY <1>5, <2>2 DEF WorkerRemove
    <3>2. /\ reg' \in [Fds -> {"none", "off", "in", "out"}]
          /\ fdconn' \in [Fds -> Conns \cup {NoConn}]
          /\ closed' \in [Conns -> BOOLEAN]
      BY <3>1, RemoveFdType DEF Typed
    <3>3. /\ wpc' = [wpc EXCEPT ![w] = "reset"]
          /\ UNCHANGED <<backlog, listenEdge, pending, sent, gone, sndfull, replied, wev,
                         users, m_user_count, mainVars, poolVars, wcount>>
      BY <1>5, <2>2 DEF WorkerRemove
    <3> QED
      BY <3>2, <3>3 DEF Typed, TypeOK, Received, mainVars, poolVars
  <2> QED
    BY <2>1, <2>2
<1>6. CASE WorkerResetSockfd(w)
  <2>1. users' \in [Fds -> User]
    <3>1. CASE serving[w] \notin Fds
      BY <1>6, <3>1 DEF WorkerResetSockfd, Typed, TypeOK
    <3>2. CASE serving[w] \in Fds
      <4>1. users[serving[w]] \in User
        BY <3>2 DEF Typed, TypeOK
      <4>2. [users[serving[w]] EXCEPT !.sockfd = NoFd] \in User
        BY <4>1, UserUpdate
      <4> QED
        BY <1>6, <3>2, <4>2 DEF WorkerResetSockfd, Typed, TypeOK
    <3> QED
      BY <3>1, <3>2
  <2> QED
    BY <1>6, <2>1 DEF WorkerResetSockfd, Typed, TypeOK, Received, kernelVars, mainVars,
       poolVars
<1>7. CASE WorkerLoadCount(w)
  BY <1>7 DEF WorkerLoadCount, Typed, TypeOK, Received, kernelVars, mainVars, poolVars
<1>8. CASE WorkerStoreCount(w)
  BY <1>8 DEF WorkerStoreCount, Arm, Typed, TypeOK, Received, kernelVars, mainVars, poolVars
<1>9. CASE ProcessEnd(w)
  <2>1. reg' \in [Fds -> {"none", "off", "in", "out"}]
    <3>1. ModFd(users[serving[w]].sockfd, wev[w]) /\ wev[w] \in {"in", "out"} /\ TypeOK
      BY <1>9 DEF ProcessEnd, Typed, TypeOK
    <3> QED
      BY <3>1, ModFdType
  <2>2. serving' \in [Workers -> Fds \cup {NoFd}] /\ m_workqueue' = m_workqueue
    BY <1>9 DEF ProcessEnd, Pool!Finish, Typed, TypeOK
  <2> QED
    BY <1>9, <2>1, <2>2 DEF ProcessEnd, Typed, TypeOK, Received, mainVars
<1> QED
  BY <1>1, <1>2, <1>3, <1>4, <1>5, <1>6, <1>7, <1>8, <1>9 DEF WorkerNext

(* The server starts in its types.                                         *)
LEMMA TypedInit == Init => Typed
<1> SUFFICES ASSUME Init PROVE Typed
  OBVIOUS
<1>1. NewUser \in User
  BY ServerAssumption DEF NewUser, User
<1>2. users \in [Fds -> User]
  BY <1>1 DEF Init
<1>3. /\ gone \in [Conns -> BOOLEAN] /\ sndfull \in [Conns -> BOOLEAN]
      /\ closed \in [Conns -> BOOLEAN] /\ replied \in [Conns -> BOOLEAN]
      /\ listenEdge \in BOOLEAN
  BY Zenon DEF Init
<1>4. m_workqueue \in Seq(Fds) /\ serving \in [Workers -> Fds \cup {NoFd}]
  BY DEF Init, Pool!PoolInit
<1>5. 0 \in 0 .. MaxUnits
  BY ServerAssumption
<1>6. /\ pending \in [Conns -> 0 .. MaxUnits] /\ sent \in [Conns -> 0 .. MaxUnits]
      /\ Received
  BY <1>5 DEF Init, Received
<1>7. backlog \in Seq(Conns)
  BY DEF Init
<1>8. /\ wpc \in [Workers -> {"idle", "parse", "close", "reset", "count", "store", "rearm"}]
      /\ wev \in [Workers -> {"in", "out"}] /\ wcount \in [Workers -> Int]
  BY DEF Init
<1>9. /\ fdconn \in [Fds -> Conns \cup {NoConn}]
      /\ reg \in [Fds -> {"none", "off", "in", "out"}]
      /\ m_user_count \in Int /\ mcount \in Int /\ batch \subseteq Events
      /\ mpc \in {"wait", "batch", "store", "out_of_bounds"}
  BY DEF Init
<1> QED
  BY <1>2, <1>3, <1>4, <1>6, <1>7, <1>8, <1>9 DEF Typed, TypeOK

(* Every step keeps the types.                                             *)
LEMMA TypedStep == Typed /\ [Next]_vars => Typed'
<1> SUFFICES ASSUME Typed, [Next]_vars PROVE Typed'
  OBVIOUS
<1>1. CASE UNCHANGED vars
  BY <1>1 DEF vars, kernelVars, mainVars, poolVars, workerVars, Typed, TypeOK, Received
<1>2. CASE MainNext
  BY <1>2, EpollType, AcceptType, HandleInType, HandleOutType DEF MainNext
<1> QED
  BY <1>1, <1>2, ClientType, WorkerType DEF Next

(* The server's state stays in its types: no read passes the end of the    *)
(* buffer, no descriptor outside the process's is registered or queued.    *)
THEOREM ServerTypeCorrect == Spec => []TypeOK
<1> QED
  BY TypedInit, TypedStep, PTL DEF Spec, Typed

-------------------------------------------------------------------------------
(* The inductive invariant.  The theorems about it need a process_read     *)
(* that never makes process_write fail: it is the empty file that lets a   *)
(* worker close a connection behind main's back.                           *)

NoEmptyFile == "empty" \notin Outcomes

(* The pool has room for every descriptor the process may have, so that    *)
(* append never refuses.                                                   *)
PoolHasRoom == LastFd - FirstFd =< MaxRequests

Batched(fd) == \E e \in batch : e.fd = fd
Queued(fd) == \E i \in DOMAIN m_workqueue : m_workqueue[i] = fd
Served(fd) == \E w \in Workers : serving[w] = fd

(* A descriptor with an event to handle, in the queue or with a worker is  *)
(* disarmed, and it is so in one way and once only.                        *)
Hands ==
  /\ \A fd \in Fds : Batched(fd) \/ Queued(fd) \/ Served(fd) => reg[fd] = "off"
  /\ \A fd \in Fds : /\ ~ (Batched(fd) /\ Queued(fd))
                     /\ ~ (Batched(fd) /\ Served(fd))
                     /\ ~ (Queued(fd) /\ Served(fd))
  /\ \A e, f \in batch : e.fd = f.fd => e = f
  /\ \A i, j \in DOMAIN m_workqueue : m_workqueue[i] = m_workqueue[j] => i = j
  /\ \A v, w \in Workers : serving[v] = serving[w] => v = w \/ serving[v] = NoFd
  /\ PoolHasRoom =>
       \A fd \in Fds : reg[fd] = "off" => Batched(fd) \/ Queued(fd) \/ Served(fd)
  /\ mpc = "wait" => batch = {}

(* No worker is closing.                                                   *)
Processing ==
  \A w \in Workers : /\ wpc[w] \in {"idle", "parse", "rearm"}
                     /\ wpc[w] = "idle" <=> serving[w] = NoFd

(* A registered descriptor and its object belong to the same connection;   *)
(* the object of another descriptor is closed.                             *)
Object(fd) ==
  /\ reg[fd] # "none" =>
       /\ fd < MaxFd
       /\ fdconn[fd] # NoConn
       /\ users[fd].sockfd = fd
       /\ users[fd].address = fdconn[fd]
       /\ users[fd].write \in {NoConn, fdconn[fd]}
  /\ reg[fd] = "none" =>
       /\ users[fd].sockfd = NoFd
       /\ fdconn[fd] # NoConn => mpc = "out_of_bounds" /\ users[fd].write = NoConn
  /\ fd >= MaxFd => users[fd].write = NoConn

Objects == \A fd \in Fds : Object(fd)

(* Only main counts.                                                       *)
Counted ==
  /\ mpc \in {"wait", "batch"} => m_user_count = Cardinality(OpenFds)
  /\ mpc = "store" => mcount = Cardinality(OpenFds)

OwnerInv == Typed /\ Hands /\ Processing /\ Objects /\ Counted

-------------------------------------------------------------------------------
(* From hand to hand *)

(* Main has handled the event of fd, and re-armed or removed it.           *)
LEMMA HandsRelease ==
  ASSUME Typed, Hands, mpc = "batch", NEW e \in batch, batch' = batch \ {e},
         NEW reg1 \in {"none", "in", "out"}, e.fd \in Fds,
         reg' = [reg EXCEPT ![e.fd] = reg1],
         mpc' # "wait", UNCHANGED poolVars
  PROVE  Hands'
<1>1. \A fd \in Fds : Batched(fd)' <=> Batched(fd) /\ fd # e.fd
  BY DEF Hands, Batched
<1>2. \A fd \in Fds : (Queued(fd)' <=> Queued(fd)) /\ (Served(fd)' <=> Served(fd))
  BY DEF Queued, Served, poolVars
<1>3. Batched(e.fd) /\ ~ Queued(e.fd) /\ ~ Served(e.fd)
  BY DEF Hands, Batched
<1>4. \A fd \in Fds : reg'[fd] = IF fd = e.fd THEN reg1 ELSE reg[fd]
  BY DEF Typed, TypeOK
<1> QED
  BY <1>1, <1>2, <1>3, <1>4 DEF Hands, poolVars, PoolHasRoom

(* Main has handled an event of listenfd, and armed a new descriptor or not.*)
LEMMA HandsListen ==
  ASSUME Typed, Hands, mpc = "batch", NEW e \in batch, batch' = batch \ {e},
         e.fd = ListenFd, mpc' # "wait", UNCHANGED poolVars,
         \/ reg' = reg
         \/ \E fd \in Fds : reg[fd] = "none" /\ reg' = [reg EXCEPT ![fd] = "in"]
  PROVE  Hands'
<1>1. ListenFd \notin Fds
  BY ServerAssumption DEF ListenFd, Fds
<1>2. \A fd \in Fds : /\ Batched(fd)' <=> Batched(fd)
                      /\ Queued(fd)' <=> Queued(fd)
                      /\ Served(fd)' <=> Served(fd)
  BY <1>1 DEF Batched, Queued, Served, poolVars
<1>3. \A fd \in Fds : \/ reg'[fd] = reg[fd]
                      \/ reg[fd] = "none" /\ reg'[fd] = "in"
  BY DEF Typed, TypeOK
<1> QED
  BY <1>2, <1>3 DEF Hands, poolVars, PoolHasRoom

(* Nothing moves.                                                          *)
LEMMA HandsSame ==
  ASSUME Hands, UNCHANGED <<reg, batch, poolVars>>, mpc' = "wait" => batch = {}
  PROVE  Hands'
BY DEF Hands, Batched, Queued, Served, poolVars, PoolHasRoom

(* epoll_wait reports armed descriptors only, each once, and disarms them. *)
LEMMA HandsEpoll == Typed /\ Hands /\ EpollWait => Hands'
<1> SUFFICES ASSUME Typed, Hands, EpollWait PROVE Hands'
  OBVIOUS
<1>1. ListenFd \notin Fds
  BY ServerAssumption DEF ListenFd, Fds
<1>2. \A fd \in Fds : ~ Batched(fd)
  BY DEF Hands, EpollWait, Batched
<1>3. /\ batch' = {Report(fd) : fd \in ReadyFds}
                    \cup (IF listenEdge THEN {[fd |-> ListenFd, ev |-> "in"]} ELSE {})
      /\ mpc' = "batch" /\ UNCHANGED poolVars
  BY DEF EpollWait
<1>4. ReadyFds \subseteq Fds /\ \A fd \in ReadyFds : Report(fd).fd = fd
  BY DEF ReadyFds, Report
<1>5. \A fd \in Fds : Batched(fd)' <=> fd \in ReadyFds
  BY <1>1, <1>3, <1>4 DEF Batched
<1>6. \A e, f \in batch' : e.fd = f.fd => e = f
  BY <1>1, <1>3, <1>4
<1>7. \A fd \in ReadyFds : reg[fd] \in {"in", "out"}
  BY DEF ReadyFds, Revents
<1>8. \A fd \in Fds : reg'[fd] = IF fd \in ReadyFds THEN "off" ELSE reg[fd]
  BY DEF EpollWait, Spent
<1>9. \A fd \in Fds : (Queued(fd)' <=> Queued(fd)) /\ (Served(fd)' <=> Served(fd))
  BY <1>3 DEF Queued, Served, poolVars
<1> QED
  BY <1>2, <1>3, <1>5, <1>6, <1>7, <1>8, <1>9 DEF Hands, poolVars, PoolHasRoom

(* The queue has each descriptor once: it never holds them all while one   *)
(* of them is still with main.                                             *)
LEMMA QueueHasRoom ==
  ASSUME Typed, Hands, PoolHasRoom, NEW fd \in Fds, ~ Queued(fd)
  PROVE  ~ Pool!Full(m_workqueue)
<1> DEFINE n == Len(m_workqueue)
<1>1. m_workqueue \in Seq(Fds) /\ n \in Nat /\ DOMAIN m_workqueue = 1 .. n
  BY DEF Typed, TypeOK
<1>2. IsFiniteSet(Fds) /\ Cardinality(Fds) = LastFd - FirstFd + 1
  BY ServerAssumption, FS_Interval DEF Fds
<1>3. IsFiniteSet(Fds \ {fd}) /\ Cardinality(Fds \ {fd}) = LastFd - FirstFd
  <2>1. /\ IsFiniteSet(Fds \ {fd})
        /\ Cardinality(Fds \ {fd}) = Cardinality(Fds) - 1
    BY <1>2, FS_RemoveElement
  <2>2. LastFd \in Nat /\ FirstFd \in Nat
    BY ServerAssumption
  <2> QED
    BY <1>2, <2>1, <2>2
<1>4. IsFiniteSet(1 .. n) /\ Cardinality(1 .. n) = n
  <2> HIDE DEF n
  <2> QED
    BY <1>1, FS_Interval
<1>5. m_workqueue \in [1 .. n -> Fds \ {fd}]
  <2>1. m_workqueue \in [1 .. n -> Fds] /\ \A i \in 1 .. n : m_workqueue[i] # fd
    BY <1>1 DEF Queued
  <2> HIDE DEF n
  <2> QED
    BY <2>1
<1>6. \A i, j \in 1 .. n : m_workqueue[i] = m_workqueue[j] => i = j
  BY <1>1 DEF Hands
<1>7. ~ (Cardinality(Fds \ {fd}) < Cardinality(1 .. n))
  BY <1>3, <1>4, <1>5, <1>6, FS_PigeonHole
<1> QED
  BY <1>1, <1>3, <1>4, <1>7, ServerAssumption DEF PoolHasRoom, Pool!Full

(* Main hands fd over to the pool; only a pool without room makes it fall. *)
LEMMA HandsEnqueue ==
  ASSUME Typed, Hands, mpc = "batch", NEW e \in batch, batch' = batch \ {e},
         e.fd \in Fds, Pool!Accept(e.fd) \/ Pool!Reject,
         UNCHANGED <<reg, mpc>>
  PROVE  Hands'
<1>1. \A fd \in Fds : Batched(fd)' <=> Batched(fd) /\ fd # e.fd
  BY DEF Hands, Batched
<1>2. Batched(e.fd) /\ ~ Queued(e.fd) /\ ~ Served(e.fd)
  BY DEF Hands, Batched
<1>3. m_workqueue \in Seq(Fds)
  BY DEF Typed, TypeOK
<1>4. serving' = serving /\ \A fd \in Fds : Served(fd)' <=> Served(fd)
  BY DEF Pool!Accept, Pool!Reject, Served
<1>5. CASE Pool!Accept(e.fd)
  <2>1. m_workqueue' = Append(m_workqueue, e.fd)
    BY <1>5 DEF Pool!Accept
  <2>2. /\ Len(m_workqueue') = Len(m_workqueue) + 1
        /\ DOMAIN m_workqueue' = 1 .. Len(m_workqueue')
        /\ \A i \in 1 .. Len(m_workqueue) : m_workqueue'[i] = m_workqueue[i]
        /\ m_workqueue'[Len(m_workqueue) + 1] = e.fd
        /\ DOMAIN m_workqueue = 1 .. Len(m_workqueue)
        /\ Len(m_workqueue) \in Nat
    BY <1>3, <2>1
  <2>3. \A fd \in Fds : Queued(fd)' <=> Queued(fd) \/ fd = e.fd
    BY <2>2 DEF Queued
  <2>4. \A i \in DOMAIN m_workqueue : m_workqueue[i] # e.fd
    BY <1>2 DEF Queued
  <2>5. \A i, j \in DOMAIN m_workqueue' : m_workqueue'[i] = m_workqueue'[j] => i = j
    BY <2>2, <2>4 DEF Hands
  <2> QED
    BY <1>1, <1>2, <1>4, <2>3, <2>5 DEF Hands, PoolHasRoom
<1>6. CASE Pool!Reject
  <2>1. ~ PoolHasRoom
    BY <1>2, <1>6, QueueHasRoom DEF Pool!Reject
  <2>2. m_workqueue' = m_workqueue /\ \A fd \in Fds : Queued(fd)' <=> Queued(fd)
    BY <1>6 DEF Pool!Reject, Queued
  <2> QED
    BY <1>1, <1>4, <2>1, <2>2 DEF Hands, PoolHasRoom
<1> QED
  BY <1>5, <1>6

(* A worker takes the head of the queue.                                   *)
LEMMA HandsStart ==
  ASSUME Typed, Hands, NEW w \in Workers, Pool!Start(w),
         UNCHANGED <<reg, batch, mpc>>
  PROVE  Hands'
<1> DEFINE q == m_workqueue
           h == Head(m_workqueue)
<1>1. q \in Seq(Fds) /\ q # << >> /\ serving[w] = NoFd
  BY DEF Typed, TypeOK, Pool!Start
<1>2. /\ h \in Fds /\ h = q[1] /\ Len(q) \in Nat \ {0}
      /\ DOMAIN q = 1 .. Len(q)
      /\ DOMAIN q' = 1 .. (Len(q) - 1)
      /\ \A i \in 1 .. (Len(q) - 1) : q'[i] = q[i + 1]
  BY <1>1 DEF Pool!Start
<1>3. \A fd \in Fds : Queued(fd)' <=> Queued(fd) /\ fd # h
  <2> SUFFICES ASSUME NEW fd \in Fds
               PROVE  Queued(fd)' <=> Queued(fd) /\ fd # h
    OBVIOUS
  <2>1. ASSUME Queued(fd)' PROVE Queued(fd) /\ fd # h
    <3>1. PICK i \in 1 .. (Len(q) - 1) : q[i + 1] = fd
      BY <1>2, <2>1 DEF Queued
    <3>2. i + 1 \in DOMAIN q /\ 1 \in DOMAIN q /\ i + 1 # 1
      BY <1>2
    <3> QED
      BY <1>2, <3>1, <3>2 DEF Hands, Queued
  <2>2. ASSUME Queued(fd), fd # h PROVE Queued(fd)'
    <3>1. PICK i \in DOMAIN q : q[i] = fd
      BY <2>2 DEF Queued
    <3>2. i - 1 \in 1 .. (Len(q) - 1)
      BY <1>2, <2>2, <3>1
    <3> QED
      BY <1>2, <3>1, <3>2 DEF Queued
  <2> QED
    BY <2>1, <2>2
<1>4. \A fd \in Fds : Served(fd)' <=> Served(fd) \/ fd = h
  <2>1. NoFd \notin Fds
    BY ServerAssumption DEF Fds
  <2> QED
    BY <1>1, <2>1 DEF Served, Pool!Start, Typed, TypeOK
<1>5. Queued(h) /\ ~ Served(h)
  BY <1>2 DEF Queued, Hands
<1>6. \A u, v \in Workers : serving'[u] = serving'[v] => u = v \/ serving'[u] = NoFd
  BY <1>5 DEF Hands, Served, Pool!Start, Typed, TypeOK
<1>7. \A i, j \in DOMAIN q' : q'[i] = q'[j] => i = j
  <2> SUFFICES ASSUME NEW i \in DOMAIN q', NEW j \in DOMAIN q', q'[i] = q'[j]
               PROVE  i = j
    OBVIOUS
  <2>1. i + 1 \in DOMAIN q /\ j + 1 \in DOMAIN q /\ q[i + 1] = q[j + 1]
    BY <1>2
  <2> QED
    BY <1>2, <2>1 DEF Hands
<1>8. \A fd \in Fds : Batched(fd)' <=> Batched(fd)
  BY DEF Batched
<1> QED
  BY <1>3, <1>4, <1>5, <1>6, <1>7, <1>8 DEF Hands, PoolHasRoom

(* A worker that returns from process() has re-armed its descriptor.       *)
LEMMA HandsFinish ==
  ASSUME Typed, Hands, NEW w \in Workers, Pool!Finish(w),
         NEW reg1 \in {"in", "out"}, reg' = [reg EXCEPT ![serving[w]] = reg1],
         UNCHANGED <<batch, mpc>>
  PROVE  Hands'
<1> DEFINE fd == serving[w]
<1>1. fd \in Fds /\ m_workqueue' = m_workqueue
  BY DEF Pool!Finish, Typed, TypeOK
<1>2. NoFd \notin Fds
  BY ServerAssumption DEF Fds
<1>3. \A x \in Fds : Served(x)' <=> Served(x) /\ x # fd
  BY <1>1, <1>2 DEF Served, Hands, Pool!Finish, Typed, TypeOK
<1>4. \A x \in Fds : (Queued(x)' <=> Queued(x)) /\ (Batched(x)' <=> Batched(x))
  BY <1>1 DEF Queued, Batched
<1>5. Served(fd) /\ ~ Queued(fd) /\ ~ Batched(fd)
  BY <1>1 DEF Served, Hands
<1>6. \A u, v \in Workers : serving'[u] = serving'[v] => u = v \/ serving'[u] = NoFd
  BY DEF Hands, Pool!Finish, Typed, TypeOK
<1>7. \A x \in Fds : reg'[x] = IF x = fd THEN reg1 ELSE reg[x]
  BY <1>1 DEF Typed, TypeOK
<1> QED
  BY <1>1, <1>3, <1>4, <1>5, <1>6, <1>7 DEF Hands, PoolHasRoom

-------------------------------------------------------------------------------
(* Connections and their objects *)

(* accept returns a free descriptor.                                       *)
LEMMA LowestFreeIsFree == FreeFds # {} => LowestFree \in FreeFds
<1> SUFFICES ASSUME FreeFds # {} PROVE LowestFree \in FreeFds
  OBVIOUS
<1>1. FreeFds \subseteq Nat
  BY ServerAssumption DEF FreeFds, Fds
<1> DEFINE Less == {ss \in Nat \X Nat : ss[1] < ss[2]}
<1>2. IsWellFoundedOn(Less, Nat)
  BY NatLessThanWellFounded, Zenon DEF OpToRel
<1> HIDE DEF Less
<1>3. PICK m \in FreeFds : \A y \in FreeFds : ~ (<<y, m>> \in Less)
  BY <1>1, <1>2, WFMin
<1>4. ASSUME NEW other \in FreeFds PROVE m =< other
  <2>1. m \in Nat /\ other \in Nat
    BY <1>1
  <2>2. other < m => <<other, m>> \in Less
    BY <2>1 DEF Less
  <2> QED
    BY <1>3, <2>1, <2>2
<1> QED
  BY <1>4 DEF LowestFree

(* The fields that Reset leaves alone, and the one that matters.           *)
LEMMA ResetFields ==
  ASSUME NEW u \in User
  PROVE  /\ Reset(u).sockfd = u.sockfd
         /\ Reset(u).address = u.address
         /\ Reset(u).write = NoConn
BY DEF Reset, User

(* An event that main has in hand is of a registered descriptor, whose     *)
(* object knows it.                                                        *)
LEMMA InHand ==
  ASSUME Typed, Hands, Objects, NEW fd \in Fds, Batched(fd) \/ Queued(fd) \/ Served(fd)
  PROVE  /\ reg[fd] = "off" /\ fd < MaxFd /\ fd # NoFd
         /\ users[fd].sockfd = fd /\ fdconn[fd] # NoConn
         /\ users[fd].address = fdconn[fd]
         /\ users[fd].write \in {NoConn, fdconn[fd]}
         /\ ReadConn(fd) = fdconn[fd]
<1>1. fd # NoFd
  BY ServerAssumption DEF Fds
<1> QED
  BY <1>1 DEF Hands, Objects, Object, ReadConn

(* There are finitely many open descriptors.                               *)
LEMMA OpenFdsFinite == IsFiniteSet(OpenFds)
<1>1. IsFiniteSet(Fds)
  BY ServerAssumption, FS_Interval DEF Fds
<1> QED
  BY <1>1, FS_Subset DEF OpenFds

(* Closing a connection makes one open connection less.                    *)
LEMMA OneLess ==
  ASSUME Typed, NEW fd \in Fds, fdconn[fd] # NoConn,
         fdconn' = [fdconn EXCEPT ![fd] = NoConn]
  PROVE  Cardinality(OpenFds') = Cardinality(OpenFds) - 1
<1>1. OpenFds' = OpenFds \ {fd} /\ fd \in OpenFds
  BY DEF OpenFds, Typed, TypeOK
<1>2. IsFiniteSet(OpenFds)
  BY OpenFdsFinite
<1> QED
  BY <1>1, <1>2, FS_RemoveElement

(* Accepting one makes one more.                                           *)
LEMMA OneMore ==
  ASSUME Typed, NEW fd \in Fds, fdconn[fd] = NoConn, NEW c \in Conns,
         fdconn' = [fdconn EXCEPT ![fd] = c]
  PROVE  Cardinality(OpenFds') = Cardinality(OpenFds) + 1
<1>1. OpenFds' = OpenFds \cup {fd} /\ fd \notin OpenFds
  BY ServerAssumption DEF OpenFds, Typed, TypeOK
<1>2. IsFiniteSet(OpenFds)
  BY OpenFdsFinite
<1> QED
  BY <1>1, <1>2, FS_AddElement

(* A close by main leaves one connection less and nobody holding it.       *)
LEMMA Closes ==
  ASSUME OwnerInv, NEW fd \in Fds, NEW ev, Handling([fd |-> fd, ev |-> ev]),
         RemoveFd(fd), LoadCount(-1), UNCHANGED <<poolVars, workerVars>>,
         Typed', users'[fd].sockfd = NoFd, users'[fd].write = users[fd].write,
         \A x \in Fds \ {fd} : users'[x] = users[x]
  PROVE  OwnerInv'
<1>1. Batched(fd) /\ mpc = "batch" /\ mpc' = "store"
  BY DEF Handling, Batched, LoadCount
<1>2. fdconn[fd] # NoConn /\ fd < MaxFd
  BY <1>1, InHand DEF OwnerInv
<1>3. Hands'
  BY <1>1, HandsRelease DEF OwnerInv, Handling, RemoveFd
<1>4. Processing'
  BY DEF OwnerInv, Processing, poolVars, workerVars
<1>5. /\ reg' = [reg EXCEPT ![fd] = "none"]
      /\ fdconn' = [fdconn EXCEPT ![fd] = NoConn]
  BY DEF RemoveFd
<1>6. Objects'
  <2>1. \A x \in Fds \ {fd} : reg'[x] = reg[x] /\ fdconn'[x] = fdconn[x]
    BY <1>5 DEF OwnerInv, Typed, TypeOK
  <2>2. reg'[fd] = "none" /\ fdconn'[fd] = NoConn
    BY <1>5 DEF OwnerInv, Typed, TypeOK
  <2>3. \A x \in Fds \ {fd} : Object(x)'
    BY <1>1, <2>1 DEF OwnerInv, Objects, Object
  <2>4. Object(fd)'
    BY <2>2 DEF OwnerInv, Objects, Object
  <2> QED
    BY <2>3, <2>4 DEF Objects
<1>7. Counted'
  <2>1. m_user_count = Cardinality(OpenFds)
    BY <1>1 DEF OwnerInv, Counted
  <2>2. Cardinality(OpenFds') = Cardinality(OpenFds) - 1
    BY <1>2, <1>5, OneLess DEF OwnerInv
  <2> QED
    BY <1>1, <2>1, <2>2 DEF Counted, LoadCount, OwnerInv, Typed, TypeOK, OpenFds
<1> QED
  BY <1>3, <1>4, <1>6, <1>7 DEF OwnerInv

(* Objects that keep what Object says of them.                             *)
LEMMA ObjectsKept ==
  ASSUME Objects, UNCHANGED fdconn, mpc = "out_of_bounds" => mpc' = "out_of_bounds",
         \A x \in Fds : /\ reg'[x] = "none" <=> reg[x] = "none"
                        /\ users'[x].sockfd = users[x].sockfd
                        /\ users'[x].address = users[x].address
                        /\ \/ users'[x].write = users[x].write
                           \/ users'[x].write = NoConn
                           \/ reg[x] # "none" /\ users'[x].write = fdconn[x]
  PROVE  Objects'
<1> SUFFICES ASSUME NEW x \in Fds PROVE Object(x)'
  BY DEF Objects
<1>1. Object(x)
  BY DEF Objects
<1>2. x \in Int /\ MaxFd \in Int
  BY ServerAssumption DEF Fds
<1>3. x < MaxFd => ~ x >= MaxFd
  BY <1>2
<1> QED
  BY <1>1, <1>3 DEF Object

(* Main re-arms the descriptor whose event it handled.                     *)
LEMMA Rearms ==
  ASSUME OwnerInv, NEW fd \in Fds, NEW ev, Handling([fd |-> fd, ev |-> ev]),
         NEW arm \in {"in", "out"}, ModFd(users[fd].sockfd, arm),
         UNCHANGED <<fdconn, mpc, mcount, m_user_count, poolVars, workerVars>>,
         Typed', users'[fd].sockfd = users[fd].sockfd,
         users'[fd].address = users[fd].address,
         users'[fd].write \in {NoConn, users[fd].write},
         \A x \in Fds \ {fd} : users'[x] = users[x]
  PROVE  OwnerInv'
<1>1. Batched(fd) /\ mpc = "batch"
  BY DEF Handling, Batched
<1>2. reg[fd] = "off" /\ users[fd].sockfd = fd
  BY <1>1, InHand DEF OwnerInv
<1>3. reg' = [reg EXCEPT ![fd] = arm]
  BY <1>2 DEF ModFd
<1>4. Hands'
  BY <1>1, <1>3, HandsRelease DEF OwnerInv, Handling
<1>5. \A x \in Fds : reg'[x] = "none" <=> reg[x] = "none"
  BY <1>2, <1>3 DEF OwnerInv, Typed, TypeOK
<1>6. Objects'
  BY <1>1, <1>5, ObjectsKept DEF OwnerInv
<1> QED
  BY <1>4, <1>6 DEF OwnerInv, Processing, Counted, OpenFds, poolVars, workerVars

(* Handling an EPOLLOUT keeps the invariant.                               *)
LEMMA HandleOutOwner ==
  ASSUME OwnerInv, NEW fd \in Fds,
         \/ HandleOutNothing(fd) \/ HandleOutAgain(fd)
         \/ HandleOutLinger(fd) \/ HandleOutClose(fd)
  PROVE  OwnerInv'
<1>1. Typed'
  BY HandleOutType DEF OwnerInv
<1>2. users[fd] \in User /\ users \in [Fds -> User]
  BY DEF OwnerInv, Typed, TypeOK
<1> DEFINE u == [users[fd] EXCEPT !.file = NoConn]
<1>3. /\ u \in User /\ u.sockfd = users[fd].sockfd
      /\ u.address = users[fd].address /\ u.write = users[fd].write
  BY <1>2, UserUpdate DEF User
<1> HIDE DEF u
<1>4. Handling([fd |-> fd, ev |-> "out"]) /\ Batched(fd)
  BY DEF HandleOutNothing, HandleOutAgain, HandleOutLinger, HandleOutClose, Handling,
     Batched
<1>5. CASE HandleOutNothing(fd)
  <2>1. users' = [users EXCEPT ![fd] = Reset(users[fd])]
    BY <1>5 DEF HandleOutNothing
  <2>2. /\ users'[fd] = Reset(users[fd])
        /\ \A x \in Fds \ {fd} : users'[x] = users[x]
    BY <1>2, <2>1
  <2> QED
    BY <1>1, <1>2, <1>4, <1>5, <2>2, ResetFields, Rearms DEF HandleOutNothing
<1>6. CASE HandleOutAgain(fd)
  BY <1>1, <1>4, <1>6, Rearms DEF HandleOutAgain
<1>7. CASE HandleOutLinger(fd)
  <2>1. users' = [users EXCEPT ![fd] = Reset(u)]
    BY <1>7 DEF HandleOutLinger, u
  <2>2. users'[fd] = Reset(u) /\ \A x \in Fds \ {fd} : users'[x] = users[x]
    BY <1>2, <2>1
  <2> QED
    BY <1>1, <1>3, <1>4, <1>7, <2>2, ResetFields, Rearms DEF HandleOutLinger
<1>8. CASE HandleOutClose(fd)
  <2>1. users[fd].sockfd = fd /\ fd # NoFd
    BY <1>4, InHand DEF OwnerInv
  <2>2. users' = [users EXCEPT ![fd] = [u EXCEPT !.sockfd = NoFd]]
    BY <1>2, <1>8, <2>1 DEF HandleOutClose, u
  <2>3. /\ users'[fd].sockfd = NoFd /\ users'[fd].write = users[fd].write
        /\ \A x \in Fds \ {fd} : users'[x] = users[x]
    BY <1>2, <1>3, <2>2 DEF User
  <2>4. RemoveFd(fd) /\ LoadCount(-1)
    BY <1>8, <2>1 DEF HandleOutClose
  <2> QED
    BY <1>1, <1>4, <1>8, <2>3, <2>4, Closes DEF HandleOutClose
<1> QED
  BY <1>5, <1>6, <1>7, <1>8

(* Handling an EPOLLIN or a hang-up keeps the invariant.                   *)
LEMMA HandleInOwner ==
  ASSUME OwnerInv, NEW fd \in Fds, HandleHup(fd) \/ HandleIn(fd) \/ HandleInFails(fd)
  PROVE  OwnerInv'
<1>1. Typed'
  BY HandleInType DEF OwnerInv
<1>2. users[fd] \in User /\ users \in [Fds -> User]
  BY DEF OwnerInv, Typed, TypeOK
<1>3. Batched(fd) /\ mpc = "batch"
  BY DEF HandleHup, HandleIn, HandleInFails, Handling, Batched
<1>4. reg[fd] = "off" /\ users[fd].sockfd = fd /\ fd # NoFd
  BY <1>3, InHand DEF OwnerInv
<1>5. CASE HandleHup(fd) \/ HandleInFails(fd)
  <2>1. MainClose(fd)
    BY <1>5 DEF HandleHup, HandleInFails
  <2>2. /\ users' = [users EXCEPT ![fd].sockfd = NoFd]
        /\ RemoveFd(fd) /\ LoadCount(-1)
    BY <1>4, <2>1 DEF MainClose
  <2>3. /\ users'[fd].sockfd = NoFd /\ users'[fd].write = users[fd].write
        /\ \A x \in Fds \ {fd} : users'[x] = users[x]
    BY <1>2, <2>2 DEF User
  <2>4. PICK ev \in {"hup", "in"} : Handling([fd |-> fd, ev |-> ev])
    BY <1>5 DEF HandleHup, HandleInFails
  <2>5. UNCHANGED <<poolVars, workerVars>>
    BY <1>5 DEF HandleHup, HandleInFails
  <2> QED
    BY <1>1, <2>2, <2>3, <2>4, <2>5, Closes
<1>6. CASE HandleIn(fd)
  <2>1. Hands'
    BY <1>3, <1>6, HandsEnqueue DEF OwnerInv, HandleIn, Handling
  <2>2. \A x \in Fds : /\ users'[x].sockfd = users[x].sockfd
                       /\ users'[x].address = users[x].address
                       /\ users'[x].write = users[x].write
    BY <1>2, <1>6 DEF HandleIn, User
  <2>3. UNCHANGED <<reg, fdconn, mpc, mcount, m_user_count, serving, workerVars>>
    BY <1>6 DEF HandleIn, Pool!Accept, Pool!Reject
  <2>4. Objects'
    BY <2>2, <2>3, ObjectsKept DEF OwnerInv
  <2> QED
    BY <1>1, <2>1, <2>3, <2>4 DEF OwnerInv, Processing, Counted, OpenFds, workerVars
<1> QED
  BY <1>5, <1>6

(* A free descriptor is not registered; accept arms it and gives its       *)
(* object to the new connection, or main is lost beyond users[].           *)
LEMMA AcceptOwner == OwnerInv /\ (AcceptFails \/ AcceptBusy \/ Accept) => OwnerInv'
<1> SUFFICES ASSUME OwnerInv, AcceptFails \/ AcceptBusy \/ Accept PROVE OwnerInv'
  OBVIOUS
<1>1. Typed'
  BY AcceptType DEF OwnerInv
<1>2. Handling([fd |-> ListenFd, ev |-> "in"]) /\ UNCHANGED <<poolVars, workerVars>>
  BY DEF AcceptFails, AcceptBusy, Accept
<1>3. Processing'
  BY <1>2 DEF OwnerInv, Processing, poolVars, workerVars
<1>4. CASE AcceptFails \/ AcceptBusy
  <2>1. UNCHANGED <<reg, fdconn, users, mpc, mcount, m_user_count>>
    BY <1>4 DEF AcceptFails, AcceptBusy, kernelVars
  <2>2. Hands'
    BY <1>2, <2>1, HandsListen DEF OwnerInv, Handling
  <2>3. Objects'
    BY <2>1, ObjectsKept DEF OwnerInv
  <2> QED
    BY <1>1, <1>3, <2>1, <2>2, <2>3 DEF OwnerInv, Counted, OpenFds
<1>5. CASE Accept
  <2>1. PICK lf \in Fds : lf = LowestFree /\ fdconn[lf] = NoConn
    BY <1>5, LowestFreeIsFree DEF Accept, FreeFds
  <2>2. reg[lf] = "none" /\ users[lf].sockfd = NoFd
    BY <2>1 DEF OwnerInv, Typed, TypeOK, Objects, Object
  <2>3. backlog \in Seq(Conns) /\ backlog # << >>
    BY <1>5 DEF Accept, OwnerInv, Typed, TypeOK
  <2>4. PICK c \in Conns : c = Head(backlog) /\ c # NoConn
    BY <2>3, ServerAssumption
  <2>5. fdconn' = [fdconn EXCEPT ![lf] = c] /\ UNCHANGED m_user_count
    BY <1>5, <2>1, <2>4 DEF Accept
  <2>6. mpc = "batch" /\ m_user_count = Cardinality(OpenFds)
    BY <1>2 DEF Handling, OwnerInv, Counted
  <2>7. \A x \in Fds \ {lf} : fdconn'[x] = fdconn[x]
    BY <2>5 DEF OwnerInv, Typed, TypeOK
  <2>8. fdconn'[lf] = c
    BY <2>1, <2>5 DEF OwnerInv, Typed, TypeOK
  <2>9. CASE lf >= MaxFd
    <3>1. UNCHANGED <<reg, users, mcount>> /\ mpc' = "out_of_bounds"
      BY <1>5, <2>1, <2>9 DEF Accept
    <3>2. Hands'
      BY <1>2, <3>1, HandsListen DEF OwnerInv, Handling
    <3>3. Object(lf)'
      BY <2>1, <2>2, <2>9, <3>1 DEF OwnerInv, Objects, Object
    <3>4. \A x \in Fds \ {lf} : Object(x)'
      BY <2>7, <3>1 DEF OwnerInv, Objects, Object
    <3> QED
      BY <1>1, <1>3, <3>1, <3>2, <3>3, <3>4 DEF OwnerInv, Objects, Counted
  <2>10. CASE ~ lf >= MaxFd
    <3> DEFINE u == [users[lf] EXCEPT !.sockfd = lf]
               v == [u EXCEPT !.address = c]
    <3>1. users[lf] \in User /\ users \in [Fds -> User]
      BY <2>1 DEF OwnerInv, Typed, TypeOK
    <3>2. u \in User /\ u.sockfd = lf
      BY <2>1, <3>1, UserUpdate DEF User
    <3>3. users' = [users EXCEPT ![lf] = Reset(v)]
      BY <1>5, <2>1, <2>4, <2>10 DEF Accept
    <3> HIDE DEF u
    <3>4. v \in User /\ v.sockfd = lf /\ v.address = c
      BY <2>4, <3>2, UserUpdate DEF User
    <3> HIDE DEF v
    <3>5. /\ users'[lf].sockfd = lf /\ users'[lf].address = c
          /\ users'[lf].write = NoConn
          /\ \A x \in Fds \ {lf} : users'[x] = users[x]
      BY <2>1, <3>1, <3>3, <3>4, ResetFields
    <3>6. reg' = [reg EXCEPT ![lf] = "in"] /\ LoadCount(1)
      BY <1>5, <2>1, <2>10 DEF Accept
    <3>7. mpc' = "store" /\ mcount' = Cardinality(OpenFds) + 1
      BY <2>6, <3>6 DEF LoadCount
    <3>8. Hands'
      BY <1>2, <2>1, <2>2, <3>6, <3>7, HandsListen DEF OwnerInv, Handling
    <3>9. reg'[lf] = "in" /\ \A x \in Fds \ {lf} : reg'[x] = reg[x]
      BY <2>1, <3>6 DEF OwnerInv, Typed, TypeOK
    <3>10. Object(lf)'
      <4>1. lf < MaxFd
        BY <2>1, <2>10, ServerAssumption DEF Fds
      <4> QED
        BY <2>4, <2>8, <3>5, <3>9, <4>1 DEF Object
    <3>11. \A x \in Fds \ {lf} : Object(x)'
      BY <2>6, <2>7, <3>5, <3>9 DEF OwnerInv, Objects, Object
    <3>12. Cardinality(OpenFds') = Cardinality(OpenFds) + 1
      BY <2>1, <2>4, <2>5, OneMore DEF OwnerInv
    <3> QED
      BY <1>1, <1>3, <3>7, <3>8, <3>10, <3>11, <3>12 DEF OwnerInv, Objects, Counted,
         OpenFds
  <2> QED
    BY <2>9, <2>10
<1> QED
  BY <1>4, <1>5

(* The steps of main's loop keep the invariant.                            *)
LEMMA EpollOwner == OwnerInv /\ (EpollWait \/ BatchDone \/ StoreCount) => OwnerInv'
<1> SUFFICES ASSUME OwnerInv, EpollWait \/ BatchDone \/ StoreCount PROVE OwnerInv'
  OBVIOUS
<1>1. Typed'
  BY EpollType DEF OwnerInv
<1>2. UNCHANGED <<fdconn, users, mcount, poolVars, workerVars>>
  BY DEF EpollWait, BatchDone, StoreCount, kernelVars
<1>3. Processing'
  BY <1>2 DEF OwnerInv, Processing, poolVars, workerVars
<1>4. CASE EpollWait
  <2>1. Hands'
    BY <1>4, HandsEpoll DEF OwnerInv
  <2>2. \A x \in Fds : reg'[x] = "none" <=> reg[x] = "none"
    BY <1>4 DEF EpollWait, Spent, ReadyFds, Revents
  <2>3. mpc = "wait" /\ mpc' = "batch" /\ UNCHANGED m_user_count
    BY <1>4 DEF EpollWait
  <2>4. Objects'
    BY <1>2, <2>2, <2>3, ObjectsKept DEF OwnerInv
  <2> QED
    BY <1>1, <1>2, <1>3, <2>1, <2>3, <2>4 DEF OwnerInv, Counted, OpenFds
<1>5. CASE BatchDone
  <2>1. UNCHANGED <<reg, batch, m_user_count>> /\ mpc = "batch" /\ batch = {}
        /\ mpc' = "wait"
    BY <1>5 DEF BatchDone, kernelVars
  <2>2. Hands'
    BY <1>2, <2>1, HandsSame DEF OwnerInv
  <2>3. Objects'
    BY <1>2, <2>1, ObjectsKept DEF OwnerInv
  <2> QED
    BY <1>1, <1>2, <1>3, <2>1, <2>2, <2>3 DEF OwnerInv, Counted, OpenFds
<1>6. CASE StoreCount
  <2>1. UNCHANGED <<reg, batch>> /\ mpc = "store" /\ mpc' = "batch"
        /\ m_user_count' = mcount
    BY <1>6 DEF StoreCount, kernelVars
  <2>2. Hands'
    BY <1>2, <2>1, HandsSame DEF OwnerInv
  <2>3. Objects'
    BY <1>2, <2>1, ObjectsKept DEF OwnerInv
  <2> QED
    BY <1>1, <1>2, <1>3, <2>1, <2>2, <2>3 DEF OwnerInv, Counted, OpenFds
<1> QED
  BY <1>4, <1>5, <1>6

(* The clients touch nothing the invariant speaks of.                      *)
LEMMA ClientOwner ==
  ASSUME OwnerInv, NEW c \in Conns, ClientNext(c) PROVE OwnerInv'
<1>1. Typed'
  BY ClientType DEF OwnerInv
<1>2. UNCHANGED <<fdconn, reg, users, m_user_count, mainVars, poolVars, workerVars>>
  BY DEF ClientNext, ClientConnect, ClientSend, ClientLeave, ClientDrain
<1>3. Hands'
  BY <1>2, HandsSame DEF OwnerInv, Hands, mainVars
<1>4. Objects'
  BY <1>2, ObjectsKept DEF OwnerInv, mainVars
<1> QED
  BY <1>1, <1>2, <1>3, <1>4 DEF OwnerInv, Processing, Counted, OpenFds, mainVars,
     poolVars, workerVars

(* The workers' steps keep the invariant, when no file is empty.           *)
LEMMA WorkerOwner ==
  ASSUME NoEmptyFile, OwnerInv, NEW w \in Workers, WorkerNext(w) PROVE OwnerInv'
<1> DEFINE fd == serving[w]
<1>1. Typed'
  BY WorkerType DEF OwnerInv
<1>2. wpc[w] \in {"idle", "parse", "rearm"} /\ (wpc[w] = "idle" <=> fd = NoFd)
  BY DEF OwnerInv, Processing
<1>3. fd \in Fds \cup {NoFd} /\ NoFd \notin Fds
  BY ServerAssumption DEF OwnerInv, Typed, TypeOK, Fds
<1>4. CASE ProcessStart(w)
  <2>1. Pool!Start(w) /\ UNCHANGED <<kernelVars, users, m_user_count, mainVars>>
    BY <1>4 DEF ProcessStart
  <2>2. Hands'
    BY <2>1, HandsStart DEF OwnerInv, kernelVars, mainVars
  <2>3. Objects'
    BY <2>1, ObjectsKept DEF OwnerInv, kernelVars, mainVars
  <2>4. serving' = [serving EXCEPT ![w] = Head(m_workqueue)] /\ Head(m_workqueue) \in Fds
    BY <2>1 DEF Pool!Start, OwnerInv, Typed, TypeOK
  <2>5. Processing'
    BY <1>3, <1>4, <2>4 DEF ProcessStart, OwnerInv, Processing, Typed, TypeOK
  <2> QED
    BY <1>1, <2>1, <2>2, <2>3, <2>5 DEF OwnerInv, Counted, OpenFds, kernelVars, mainVars
<1>5. ASSUME wpc[w] = "parse", wpc' = [wpc EXCEPT ![w] = "rearm"],
             UNCHANGED <<kernelVars, m_user_count, mainVars, poolVars>>,
             \A x \in Fds : \/ users'[x] = users[x]
                            \/ /\ x = fd
                               /\ users'[x].sockfd = users[x].sockfd
                               /\ users'[x].address = users[x].address
                               /\ users'[x].write = users[x].address
      PROVE  OwnerInv'
  <2>1. fd \in Fds /\ Served(fd)
    BY <1>2, <1>3, <1>5 DEF Served
  <2>2. reg[fd] = "off" /\ users[fd].address = fdconn[fd]
    BY <2>1, InHand DEF OwnerInv
  <2>3. Hands'
    BY <1>5, HandsSame DEF OwnerInv, Hands, kernelVars, mainVars
  <2>4. Objects'
    BY <1>5, <2>2, ObjectsKept DEF OwnerInv, kernelVars, mainVars
  <2>5. Processing'
    BY <1>2, <1>5 DEF OwnerInv, Processing, Typed, TypeOK, poolVars
  <2> QED
    BY <1>1, <1>5, <2>3, <2>4, <2>5 DEF OwnerInv, Counted, OpenFds, kernelVars, mainVars
<1>6. CASE ProcessIncomplete(w)
  BY <1>5, <1>6 DEF ProcessIncomplete, Arm
<1>7. CASE ProcessReply(w)
  <2>1. fd \in Fds
    BY <1>2, <1>3, <1>7 DEF ProcessReply
  <2>2. users \in [Fds -> User] /\ users[fd] \in User
    BY <2>1 DEF OwnerInv, Typed, TypeOK
  <2> DEFINE a == users[fd].address
  <2>3. PICK linger \in BOOLEAN, f \in {a, users[fd].file} :
          users' = [users EXCEPT ![fd].write = a, ![fd].linger = linger, ![fd].file = f]
    BY <1>7 DEF ProcessReply
  <2> DEFINE u == [users[fd] EXCEPT !.write = a]
             v == [u EXCEPT !.linger = linger]
  <2>4. u \in User /\ u.sockfd = users[fd].sockfd /\ u.address = a /\ u.write = a
    BY <2>2, UserUpdate DEF User
  <2>5. users' = [users EXCEPT ![fd] = [v EXCEPT !.file = f]]
    BY <2>1, <2>2, <2>3 DEF u, v
  <2> HIDE DEF u
  <2>6. v \in User /\ v.sockfd = users[fd].sockfd /\ v.address = a /\ v.write = a
    BY <2>4, UserUpdate DEF User
  <2> HIDE DEF v
  <2>7. /\ \A x \in Fds \ {fd} : users'[x] = users[x]
        /\ users'[fd].sockfd = users[fd].sockfd /\ users'[fd].address = a
        /\ users'[fd].write = a
    BY <2>1, <2>2, <2>5, <2>6 DEF User
  <2> QED
    BY <1>5, <1>7, <2>7 DEF ProcessReply, Arm
<1>8. CASE ProcessEnd(w)
  <2>1. fd \in Fds /\ Served(fd)
    BY <1>2, <1>3, <1>8 DEF ProcessEnd, Served
  <2>2. reg[fd] = "off" /\ users[fd].sockfd = fd /\ wev[w] \in {"in", "out"}
    BY <2>1, InHand DEF OwnerInv, Typed, TypeOK
  <2>3. reg' = [reg EXCEPT ![fd] = wev[w]] /\ Pool!Finish(w)
    BY <1>8, <2>1, <2>2 DEF ProcessEnd, ModFd
  <2>4. UNCHANGED <<fdconn, users, m_user_count, mainVars>>
    BY <1>8 DEF ProcessEnd
  <2>5. Hands'
    BY <2>2, <2>3, <2>4, HandsFinish DEF OwnerInv, mainVars
  <2>6. \A x \in Fds : reg'[x] = "none" <=> reg[x] = "none"
    BY <2>1, <2>2, <2>3 DEF OwnerInv, Typed, TypeOK
  <2>7. Objects'
    BY <2>4, <2>6, ObjectsKept DEF OwnerInv, mainVars
  <2>8. Processing'
    BY <1>8, <2>3 DEF ProcessEnd, Pool!Finish, OwnerInv, Processing, Typed, TypeOK
  <2> QED
    BY <1>1, <2>4, <2>5, <2>7, <2>8 DEF OwnerInv, Counted, OpenFds, mainVars
<1>9. ~ (\/ ProcessEmptyFile(w) \/ WorkerRemove(w) \/ WorkerResetSockfd(w)
         \/ WorkerLoadCount(w) \/ WorkerStoreCount(w))
  BY <1>2 DEF NoEmptyFile, ProcessEmptyFile, WorkerRemove, WorkerResetSockfd,
     WorkerLoadCount, WorkerStoreCount
<1> QED
  BY <1>4, <1>6, <1>7, <1>8, <1>9 DEF WorkerNext

(* The invariant holds at the start.                                       *)
LEMMA OwnerInit == Init => OwnerInv
<1> SUFFICES ASSUME Init PROVE OwnerInv
  OBVIOUS
<1>1. Typed
  BY TypedInit
<1>2. /\ batch = {} /\ m_workqueue = << >> /\ mpc = "wait" /\ m_user_count = 0
      /\ \A w \in Workers : serving[w] = NoFd /\ wpc[w] = "idle"
      /\ \A fd \in Fds : /\ reg[fd] = "none" /\ fdconn[fd] = NoConn
                         /\ users[fd] = NewUser
  BY DEF Init, Pool!PoolInit
<1>3. NoFd \notin Fds
  BY ServerAssumption DEF Fds
<1>4. \A fd \in Fds : ~ Batched(fd) /\ ~ Queued(fd) /\ ~ Served(fd)
  BY <1>2, <1>3 DEF Batched, Queued, Served
<1>5. Hands
  BY <1>2, <1>4 DEF Hands
<1>6. Objects
  BY <1>2 DEF Objects, Object, NewUser
<1>7. OpenFds = {}
  BY <1>2 DEF OpenFds
<1> QED
  BY <1>1, <1>2, <1>5, <1>6, <1>7, FS_EmptySet DEF OwnerInv, Processing, Counted

(* Every step keeps the invariant.                                         *)
LEMMA OwnerStep == NoEmptyFile /\ OwnerInv /\ [Next]_vars => OwnerInv'
<1> SUFFICES ASSUME NoEmptyFile, OwnerInv, [Next]_vars PROVE OwnerInv'
  OBVIOUS
<1>1. CASE UNCHANGED vars
  <2>1. Typed'
    BY TypedStep DEF OwnerInv
  <2>2. Hands'
    BY <1>1, HandsSame DEF vars, kernelVars, mainVars, OwnerInv, Hands
  <2>3. Objects'
    BY <1>1, ObjectsKept DEF vars, kernelVars, mainVars, OwnerInv
  <2> QED
    BY <1>1, <2>1, <2>2, <2>3 DEF vars, kernelVars, mainVars, poolVars, workerVars,
       OwnerInv, Processing, Counted, OpenFds
<1>2. CASE MainNext
  BY <1>2, EpollOwner, AcceptOwner, HandleInOwner, HandleOutOwner DEF MainNext
<1> QED
  BY <1>1, <1>2, ClientOwner, WorkerOwner DEF Next

(* The invariant holds in every reachable state.                           *)
LEMMA OwnerInvariant == NoEmptyFile /\ Spec => []OwnerInv
<1> SUFFICES ASSUME NoEmptyFile PROVE Spec => []OwnerInv
  OBVIOUS
<1>1. OwnerInv /\ [Next]_vars => OwnerInv'
  BY OwnerStep
<1> QED
  BY <1>1, OwnerInit, PTL DEF Spec

(* The object of an open connection knows its own descriptor.              *)
THEOREM ServerSockfdIsOwn == NoEmptyFile /\ Spec => []SockfdIsOwn
<1>1. OwnerInv => SockfdIsOwn
  BY DEF OwnerInv, Objects, Object, SockfdIsOwn, OpenFds
<1> QED
  BY <1>1, OwnerInvariant, PTL

(* However many connections have had a descriptor before, the response in  *)
(* its write buffer answers the one that has it now.                       *)
THEOREM ServerReplyIsOwn == NoEmptyFile /\ Spec => []ReplyIsOwn
<1>1. OwnerInv => ReplyIsOwn
  BY DEF OwnerInv, Objects, Object, ReplyIsOwn, OpenFds, Typed, TypeOK
<1> QED
  BY <1>1, OwnerInvariant, PTL

(* m_user_count is the number of open connections whenever main is not in  *)
(* the middle of an update.                                                *)
THEOREM ServerUserCountExact == NoEmptyFile /\ Spec => []UserCountExact
<1>1. OwnerInv => UserCountExact
  BY DEF OwnerInv, Counted, UserCountExact, Typed, TypeOK
<1> QED
  BY <1>1, OwnerInvariant, PTL

(* What one descriptor contributes to each term of Claims.                 *)
LEMMA OneClaim ==
  ASSUME OwnerInv, NEW fd \in Fds
  PROVE  /\ Cardinality({e \in batch : e.fd = fd}) = IF Batched(fd) THEN 1 ELSE 0
         /\ Cardinality({i \in DOMAIN m_workqueue : m_workqueue[i] = fd})
              = IF Queued(fd) THEN 1 ELSE 0
         /\ Cardinality(Serving(fd)) = IF Served(fd) THEN 1 ELSE 0
<1>1. ASSUME NEW S, \A x, y \in S : x = y
      PROVE  Cardinality(S) = IF S = {} THEN 0 ELSE 1
  <2>1. CASE S = {}
    BY <2>1, FS_EmptySet
  <2>2. CASE S # {}
    <3>1. PICK x \in S : S = {x}
      BY <1>1, <2>2
    <3> QED
      BY <2>2, <3>1, FS_Singleton
  <2> QED
    BY <2>1, <2>2
<1>2. Cardinality({e \in batch : e.fd = fd}) = IF Batched(fd) THEN 1 ELSE 0
  <2> DEFINE S == {e \in batch : e.fd = fd}
  <2>1. (\A x, y \in S : x = y) /\ (S = {} <=> ~ Batched(fd))
    BY DEF OwnerInv, Hands, Batched
  <2> HIDE DEF S
  <2> QED
    BY <1>1, <2>1 DEF S
<1>3. Cardinality({i \in DOMAIN m_workqueue : m_workqueue[i] = fd})
        = IF Queued(fd) THEN 1 ELSE 0
  <2> DEFINE S == {i \in DOMAIN m_workqueue : m_workqueue[i] = fd}
  <2>1. (\A x, y \in S : x = y) /\ (S = {} <=> ~ Queued(fd))
    BY DEF OwnerInv, Hands, Queued
  <2> HIDE DEF S
  <2> QED
    BY <1>1, <2>1 DEF S
<1>4. Cardinality(Serving(fd)) = IF Served(fd) THEN 1 ELSE 0
  <2>1. NoFd \notin Fds
    BY ServerAssumption DEF Fds
  <2>2. \A x, y \in Serving(fd) : x = y
    BY <2>1 DEF OwnerInv, Hands, Serving
  <2>3. Serving(fd) = {} <=> ~ Served(fd)
    BY <2>1 DEF OwnerInv, Processing, Serving, Served
  <2> QED
    BY <1>1, <2>2, <2>3
<1> QED
  BY <1>2, <1>3, <1>4

(* The one-shot discipline: if the pool has room for every descriptor, an  *)
(* open connection is in exactly one hand and a closed one in none.        *)
THEOREM ServerOneOwner == NoEmptyFile /\ PoolHasRoom /\ Spec => []OneOwner
<1>1. ASSUME PoolHasRoom, OwnerInv, mpc # "out_of_bounds", NEW fd \in Fds
      PROVE  Claims(fd) = IF fd \in OpenFds THEN 1 ELSE 0
  <2>1. reg[fd] \in {"none", "off", "in", "out"}
    BY <1>1 DEF OwnerInv, Typed, TypeOK
  <2>2. /\ Batched(fd) \/ Queued(fd) \/ Served(fd) <=> reg[fd] = "off"
        /\ ~ (Batched(fd) /\ Queued(fd)) /\ ~ (Batched(fd) /\ Served(fd))
        /\ ~ (Queued(fd) /\ Served(fd))
    BY <1>1 DEF OwnerInv, Hands
  <2>3. fd \in OpenFds <=> reg[fd] # "none"
    BY <1>1 DEF OwnerInv, Objects, Object, OpenFds
  <2>4. Claims(fd) = (IF reg[fd] \in {"in", "out"} THEN 1 ELSE 0)
                       + (IF Batched(fd) THEN 1 ELSE 0)
                       + (IF Queued(fd) THEN 1 ELSE 0)
                       + (IF Served(fd) THEN 1 ELSE 0)
    BY <1>1, OneClaim DEF Claims
  <2> QED
    BY <2>1, <2>2, <2>3, <2>4
<1> SUFFICES ASSUME NoEmptyFile, PoolHasRoom PROVE Spec => []OneOwner
  OBVIOUS
<1>2. OwnerInv => OneOwner
  BY <1>1 DEF OneOwner
<1> QED
  BY <1>2, OwnerInvariant, PTL

(* If the pool has room for every descriptor, the connection whose input   *)
(* main has read is queued or closed, never dropped.                       *)
THEOREM ServerReadQueuesOrCloses ==
  NoEmptyFile /\ PoolHasRoom /\ Spec => ReadQueuesOrCloses
<1> DEFINE Kept(fd) ==
             \/ fdconn'[fd] = NoConn
             \/ \E i \in DOMAIN m_workqueue' : m_workqueue'[i] = fd
<1>1. ASSUME PoolHasRoom, OwnerInv, Next, NEW fd \in Fds,
             [fd |-> fd, ev |-> "in"] \in batch \ batch'
      PROVE  Kept(fd)
  <2> DEFINE e == [fd |-> fd, ev |-> "in"]
  <2>1. Batched(fd) /\ mpc # "wait" /\ fd # ListenFd
    BY <1>1, ServerAssumption DEF Batched, OwnerInv, Hands, Fds, ListenFd
  <2>2. users[fd].sockfd = fd /\ fd # NoFd /\ ~ Queued(fd) /\ m_workqueue \in Seq(Fds)
        /\ fdconn \in [Fds -> Conns \cup {NoConn}]
    BY <1>1, <2>1, InHand DEF OwnerInv, Hands, Typed, TypeOK
  <2>3. HandleIn(fd) \/ HandleInFails(fd)
    <3>1. \E x \in batch : batch' = batch \ {x} /\ (x = e => HandleIn(fd) \/ HandleInFails(fd))
      BY <1>1, <2>1 DEF Next, ClientNext, ClientConnect, ClientSend, ClientLeave,
         ClientDrain, MainNext, EpollWait, BatchDone, StoreCount, AcceptFails, AcceptBusy,
         Accept, HandleHup, HandleIn, HandleInFails, HandleOutNothing, HandleOutAgain,
         HandleOutLinger, HandleOutClose, Handling, WorkerNext, ProcessStart,
         ProcessIncomplete, ProcessReply, ProcessEmptyFile, WorkerRemove,
         WorkerResetSockfd, WorkerLoadCount, WorkerStoreCount, ProcessEnd, mainVars
    <3> QED
      BY <1>1, <3>1
  <2>4. CASE HandleIn(fd)
    <3>1. ~ Pool!Full(m_workqueue)
      BY <1>1, <2>2, QueueHasRoom DEF OwnerInv
    <3>2. m_workqueue' = Append(m_workqueue, fd)
      BY <2>4, <3>1 DEF HandleIn, Pool!Accept, Pool!Reject
    <3>3. /\ Len(m_workqueue) + 1 \in DOMAIN m_workqueue'
          /\ m_workqueue'[Len(m_workqueue) + 1] = fd
      BY <2>2, <3>2
    <3> QED
      BY <3>3
  <2>5. CASE HandleInFails(fd)
    <3>1. fdconn' = [fdconn EXCEPT ![fd] = NoConn]
      BY <2>2, <2>5 DEF HandleInFails, MainClose, RemoveFd
    <3> QED
      BY <2>2, <3>1
  <2> QED
    BY <2>3, <2>4, <2>5
<1> SUFFICES ASSUME NoEmptyFile, PoolHasRoom PROVE Spec => ReadQueuesOrCloses
  OBVIOUS
<1>2. OwnerInv /\ [Next]_vars =>
        [\A fd \in Fds : [fd |-> fd, ev |-> "in"] \in batch \ batch' => Kept(fd)]_vars
  BY <1>1
<1> QED
  BY <1>2, OwnerInvariant, PTL DEF Spec, ReadQueuesOrCloses

-------------------------------------------------------------------------------
(* The count, under every interleaving *)

(* The count alone is not inductive: a load made before another thread's   *)
(* store is stored after it, so the values under way are bounded too.      *)
CountInv ==
  /\ m_user_count \in Int /\ m_user_count =< MaxFd
  /\ mcount \in Int /\ (mpc = "store" => mcount =< MaxFd)
  /\ wcount \in [Workers -> Int]
  /\ \A w \in Workers : wpc[w] = "store" => wcount[w] =< MaxFd
  /\ wpc \in [Workers -> {"idle", "parse", "close", "reset", "count", "store", "rearm"}]

(* Main's steps leave the workers' loads alone, and what main itself loads *)
(* is below the limit: it counts up only after the test of line 112.       *)
LEMMA MainCount == CountInv /\ MainNext => CountInv'
<1> SUFFICES ASSUME CountInv, MainNext PROVE CountInv'
  OBVIOUS
<1> USE ServerAssumption DEF CountInv
<1>1. ASSUME UNCHANGED <<m_user_count, workerVars>>,
             \/ UNCHANGED mcount /\ mpc' \in {mpc, "wait", "batch", "out_of_bounds"}
             \/ LoadCount(-1)
             \/ ~ ServerBusy /\ LoadCount(1)
      PROVE  CountInv'
  BY <1>1 DEF LoadCount, ServerBusy, workerVars
<1>2. CASE EpollWait
  BY <1>1, <1>2 DEF EpollWait
<1>3. CASE BatchDone
  BY <1>1, <1>3 DEF BatchDone
<1>4. CASE StoreCount
  BY <1>4 DEF StoreCount, workerVars
<1>5. CASE AcceptFails \/ AcceptBusy \/ Accept
  BY <1>1, <1>5 DEF AcceptFails, AcceptBusy, Accept
<1>6. ASSUME NEW fd \in Fds, HandleHup(fd) \/ HandleInFails(fd) PROVE CountInv'
  BY <1>1, <1>6 DEF HandleHup, HandleInFails, MainClose
<1>7. ASSUME NEW fd \in Fds, HandleIn(fd) \/ HandleOutNothing(fd)
                               \/ HandleOutAgain(fd) \/ HandleOutLinger(fd)
      PROVE  CountInv'
  BY <1>1, <1>7 DEF HandleIn, HandleOutNothing, HandleOutAgain, HandleOutLinger
<1>8. ASSUME NEW fd \in Fds, HandleOutClose(fd) PROVE CountInv'
  BY <1>1, <1>8 DEF HandleOutClose
<1> QED
  BY <1>2, <1>3, <1>4, <1>5, <1>6, <1>7, <1>8 DEF MainNext

(* A worker only ever loads one less than a value within the limit.        *)
LEMMA WorkerCount ==
  ASSUME NEW w \in Workers, CountInv, WorkerNext(w) PROVE CountInv'
<1> USE ServerAssumption DEF CountInv, mainVars
<1>1. CASE ProcessStart(w)
  BY <1>1 DEF ProcessStart
<1>2. CASE ProcessIncomplete(w) \/ ProcessReply(w)
  BY <1>2 DEF ProcessIncomplete, ProcessReply, Arm
<1>3. CASE ProcessEmptyFile(w) \/ WorkerResetSockfd(w)
  BY <1>3 DEF ProcessEmptyFile, WorkerResetSockfd
<1>4. CASE WorkerRemove(w)
  BY <1>4 DEF WorkerRemove, Arm
<1>5. CASE WorkerLoadCount(w)
  BY <1>5 DEF WorkerLoadCount
<1>6. CASE WorkerStoreCount(w)
  BY <1>6 DEF WorkerStoreCount, Arm
<1>7. CASE ProcessEnd(w)
  BY <1>7 DEF ProcessEnd
<1> QED
  BY <1>1, <1>2, <1>3, <1>4, <1>5, <1>6, <1>7 DEF WorkerNext

(* However the two threads' loads and stores of m_user_count interleave,   *)
(* and whatever updates they lose, the count never passes MAX_FD.          *)
THEOREM ServerCountBelowMax == Spec => []CountBelowMax
<1>1. Init => CountInv
  BY ServerAssumption DEF Init, CountInv
<1>2. CountInv /\ [Next]_vars => CountInv'
  <2> SUFFICES ASSUME CountInv, [Next]_vars PROVE CountInv'
    OBVIOUS
  <2>1. CASE UNCHANGED vars
    BY <2>1 DEF vars, mainVars, workerVars, CountInv
  <2>2. ASSUME NEW c \in Conns, ClientNext(c) PROVE CountInv'
    BY <2>2 DEF ClientNext, ClientConnect, ClientSend, ClientLeave, ClientDrain,
         mainVars, workerVars, CountInv
  <2> QED
    BY <2>1, <2>2, MainCount, WorkerCount DEF Next
<1>3. CountInv => CountBelowMax
  BY DEF CountInv, CountBelowMax
<1> QED
  BY <1>1, <1>2, <1>3, PTL DEF Spec

-------------------------------------------------------------------------------
(* Connections that drop out of everyone's hands, under every interleaving *)

(* append has room whenever main hands a connection over.                  *)
NeverRefused == [][\A fd \in Fds : HandleIn(fd) => ~ Pool!Full(m_workqueue)]_vars

Handed(fd) ==
  reg[fd] \in {"in", "out"} \/ Batched(fd) \/ Queued(fd) \/ Serving(fd) # {}

(* What LostOnlyBySockfd does not say: an object knows its own descriptor  *)
(* or none, so a thread that comes back to users[fd] re-arms fd or nothing;*)
(* and an open descriptor is registered, so that re-arming it succeeds.    *)
Known(fd) ==
  /\ users[fd].sockfd \in {fd, NoFd}
  /\ fdconn[fd] # NoConn => reg[fd] # "none"
  /\ fdconn[fd] # NoConn /\ users[fd].sockfd = fd => Handed(fd)

LostInv ==
  /\ Typed
  /\ mpc = "wait" => batch = {}
  /\ \A w \in Workers : wpc[w] = "idle" <=> serving[w] = NoFd
  /\ mpc # "out_of_bounds" => \A fd \in Fds : Known(fd)

(* What LostInv needs of a step besides Known.                             *)
LEMMA LostKept ==
  ASSUME LostInv, Typed', mpc' = "wait" => batch' = {},
         \A w \in Workers : wpc'[w] = "idle" <=> serving'[w] = NoFd,
         mpc' # "out_of_bounds" => mpc # "out_of_bounds",
         mpc # "out_of_bounds" /\ mpc' # "out_of_bounds"
           /\ (\A fd \in Fds : Known(fd)) => \A fd \in Fds : Known(fd)'
  PROVE  LostInv'
BY DEF LostInv

(* Nothing that Known speaks of changes for fd.                            *)
LEMMA KnownSame ==
  ASSUME NEW fd \in Fds, Known(fd), users'[fd].sockfd = users[fd].sockfd,
         fdconn'[fd] = fdconn[fd], reg'[fd] = reg[fd], Batched(fd) => Batched(fd)',
         UNCHANGED <<poolVars, wpc>>
  PROVE  Known(fd)'
<1>1. Queued(fd)' = Queued(fd) /\ Serving(fd)' = Serving(fd)
  BY DEF Queued, Serving, poolVars
<1> QED
  BY <1>1 DEF Known, Handed

(* Main has handled the event of one descriptor, and handed it over,       *)
(* re-armed it, closed it or found its object closed.                      *)
LEMMA HandledKnown ==
  ASSUME LostInv, mpc = "batch", mpc' \in {"batch", "store"}, Typed',
         NEW fd \in Fds, NEW e \in batch, e.fd = fd, batch' = batch \ {e},
         UNCHANGED <<serving, wpc>>,
         \A x \in Fds \ {fd} :
           /\ users'[x].sockfd = users[x].sockfd
           /\ fdconn'[x] = fdconn[x] /\ reg'[x] = reg[x]
           /\ Queued(x) => Queued(x)',
         users'[fd].sockfd \in {fd, NoFd},
         fdconn'[fd] # NoConn => reg'[fd] # "none",
         fdconn'[fd] # NoConn /\ users'[fd].sockfd = fd => Handed(fd)'
  PROVE  LostInv'
<1>1. ASSUME NEW x \in Fds, Known(x) PROVE Known(x)'
  <2>1. CASE x = fd
    BY <2>1 DEF Known
  <2>2. CASE x # fd
    <3>1. Batched(x) => Batched(x)'
      BY <2>2 DEF Batched
    <3>2. Serving(x)' = Serving(x)
      BY DEF Serving
    <3> QED
      BY <1>1, <2>2, <3>1, <3>2 DEF Known, Handed
  <2> QED
    BY <2>1, <2>2
<1> QED
  BY <1>1, LostKept DEF LostInv

(* close_conn() in main closes fd or finds it closed, and nothing else.    *)
LEMMA CloseKnown ==
  ASSUME LostInv, mpc = "batch", NEW fd \in Fds, MainClose(fd)
  PROVE  /\ \A x \in Fds \ {fd} : /\ users'[x].sockfd = users[x].sockfd
                                  /\ fdconn'[x] = fdconn[x] /\ reg'[x] = reg[x]
         /\ users'[fd].sockfd = NoFd
         /\ fdconn'[fd] # NoConn => reg'[fd] # "none"
         /\ mpc' \in {"batch", "store"}
<1>1. /\ users[fd].sockfd \in {fd, NoFd} /\ (fdconn[fd] # NoConn => reg[fd] # "none")
      /\ users \in [Fds -> User] /\ fdconn \in [Fds -> Conns \cup {NoConn}]
      /\ reg \in [Fds -> {"none", "off", "in", "out"}]
  BY DEF LostInv, Known, Typed, TypeOK
<1>2. CASE users[fd].sockfd = NoFd
  BY <1>1, <1>2 DEF MainClose
<1>3. CASE users[fd].sockfd # NoFd
  <2>1. /\ users' = [users EXCEPT ![fd].sockfd = NoFd] /\ mpc' = "store"
        /\ reg' = [reg EXCEPT ![fd] = "none"] /\ fdconn' = [fdconn EXCEPT ![fd] = NoConn]
    BY <1>1, <1>3 DEF MainClose, RemoveFd, LoadCount
  <2>2. users[fd] \in User /\ [users[fd] EXCEPT !.sockfd = NoFd].sockfd = NoFd
    BY <1>1 DEF User
  <2> QED
    BY <1>1, <2>1, <2>2
<1> QED
  BY <1>2, <1>3

(* modfd with the descriptor the object knows arms fd or nothing.          *)
LEMMA ModKnown ==
  ASSUME Typed, NEW fd \in Fds, Known(fd), NEW ev \in {"in", "out"},
         ModFd(users[fd].sockfd, ev)
  PROVE  /\ \A x \in Fds \ {fd} : reg'[x] = reg[x]
         /\ fdconn[fd] # NoConn => reg'[fd] # "none"
         /\ fdconn[fd] # NoConn /\ users[fd].sockfd = fd => reg'[fd] \in {"in", "out"}
<1>1. NoFd \notin Fds /\ reg \in [Fds -> {"none", "off", "in", "out"}]
  BY ServerAssumption DEF Fds, Typed, TypeOK
<1> QED
  BY <1>1 DEF ModFd, Known

(* EPOLLRDHUP and EPOLLIN: main closes, or hands over to a pool with room. *)
LEMMA HandleInLost ==
  ASSUME LostInv, NEW fd \in Fds,
         HandleHup(fd) \/ HandleIn(fd) \/ HandleInFails(fd),
         HandleIn(fd) => ~ Pool!Full(m_workqueue)
  PROVE  LostInv'
<1>1. Typed'
  BY HandleInType DEF LostInv
<1>2. mpc = "batch" /\ users \in [Fds -> User] /\ m_workqueue \in Seq(Fds)
  BY DEF HandleHup, HandleIn, HandleInFails, Handling, LostInv, Typed, TypeOK
<1>3. CASE HandleHup(fd) \/ HandleInFails(fd)
  <2>1. PICK e \in batch : e.fd = fd /\ batch' = batch \ {e}
    BY <1>3 DEF HandleHup, HandleInFails, Handling
  <2>2. MainClose(fd) /\ UNCHANGED <<poolVars, wpc>>
    BY <1>3 DEF HandleHup, HandleInFails, workerVars
  <2>3. \A x \in Fds : Queued(x)' = Queued(x)
    BY <2>2 DEF Queued, poolVars
  <2>4. fd # NoFd
    BY ServerAssumption DEF Fds
  <2> QED
    BY <1>1, <1>2, <2>1, <2>2, <2>3, <2>4, CloseKnown, HandledKnown DEF poolVars
<1>4. CASE HandleIn(fd)
  <2>1. PICK e \in batch : e.fd = fd /\ batch' = batch \ {e}
    BY <1>4 DEF HandleIn, Handling
  <2>2. /\ m_workqueue' = Append(m_workqueue, fd)
        /\ UNCHANGED <<reg, fdconn, mpc, serving, wpc>>
        /\ users' = [users EXCEPT ![fd].read = @ + Got(fd)]
    BY <1>4 DEF HandleIn, Pool!Accept, Pool!Reject, workerVars
  <2>3. \A x \in Fds : users'[x].sockfd = users[x].sockfd
    BY <1>2, <2>2 DEF User
  <2>4. /\ Len(m_workqueue) \in Nat /\ DOMAIN m_workqueue = 1 .. Len(m_workqueue)
        /\ DOMAIN m_workqueue' = 1 .. (Len(m_workqueue) + 1)
        /\ \A i \in 1 .. Len(m_workqueue) : m_workqueue'[i] = m_workqueue[i]
        /\ m_workqueue'[Len(m_workqueue) + 1] = fd
    BY <1>2, <2>2
  <2>5. \A x \in Fds : Queued(x)' <=> Queued(x) \/ x = fd
    BY <2>4 DEF Queued
  <2>6. Known(fd)
    BY <1>2 DEF LostInv
  <2>7. Handed(fd)'
    BY <2>5 DEF Handed
  <2>8. \A x \in Fds : fdconn'[x] = fdconn[x] /\ reg'[x] = reg[x]
    BY <2>2
  <2> QED
    BY <1>1, <1>2, <2>1, <2>2, <2>3, <2>5, <2>6, <2>7, <2>8, HandledKnown DEF Known
<1> QED
  BY <1>3, <1>4

(* EPOLLOUT: main re-arms what the object knows, or closes.                *)
LEMMA HandleOutLost ==
  ASSUME LostInv, NEW fd \in Fds,
         \/ HandleOutNothing(fd) \/ HandleOutAgain(fd)
         \/ HandleOutLinger(fd) \/ HandleOutClose(fd)
  PROVE  LostInv'
<1>1. Typed'
  BY HandleOutType DEF LostInv
<1>2. mpc = "batch" /\ users \in [Fds -> User] /\ users[fd] \in User
  BY DEF HandleOutNothing, HandleOutAgain, HandleOutLinger, HandleOutClose, Handling,
     LostInv, Typed, TypeOK
<1>3. Known(fd) /\ Typed
  BY <1>2 DEF LostInv
<1>4. PICK e \in batch : e.fd = fd /\ batch' = batch \ {e}
  BY DEF HandleOutNothing, HandleOutAgain, HandleOutLinger, HandleOutClose, Handling
<1>5. UNCHANGED <<poolVars, wpc>>
  BY DEF HandleOutNothing, HandleOutAgain, HandleOutLinger, HandleOutClose, workerVars
<1>6. \A x \in Fds : Queued(x)' = Queued(x)
  BY <1>5 DEF Queued, poolVars
<1>7. ASSUME NEW ev \in {"in", "out"}, ModFd(users[fd].sockfd, ev), UNCHANGED <<fdconn, mpc>>,
             \A x \in Fds : users'[x].sockfd = users[x].sockfd
      PROVE  LostInv'
  <2>1. /\ \A x \in Fds \ {fd} : reg'[x] = reg[x]
        /\ fdconn[fd] # NoConn => reg'[fd] # "none"
        /\ fdconn[fd] # NoConn /\ users[fd].sockfd = fd => reg'[fd] \in {"in", "out"}
    BY <1>3, <1>7, ModKnown
  <2>2. fdconn'[fd] # NoConn /\ users'[fd].sockfd = fd => Handed(fd)'
    BY <1>7, <2>1 DEF Handed
  <2> QED
    BY <1>1, <1>2, <1>3, <1>4, <1>5, <1>6, <1>7, <2>1, <2>2, HandledKnown
       DEF Known, poolVars
<1>8. CASE HandleOutNothing(fd)
  <2>1. \A x \in Fds : users'[x].sockfd = users[x].sockfd
    BY <1>2, <1>8, ResetFields DEF HandleOutNothing
  <2> QED
    BY <1>7, <1>8, <2>1 DEF HandleOutNothing
<1>9. CASE HandleOutAgain(fd)
  BY <1>7, <1>9 DEF HandleOutAgain
<1>10. CASE HandleOutLinger(fd)
  <2>1. [users[fd] EXCEPT !.file = NoConn] \in User
    BY <1>2, UserUpdate
  <2>2. Reset([users[fd] EXCEPT !.file = NoConn]).sockfd = users[fd].sockfd
    BY <1>2, <2>1, ResetFields DEF User
  <2>3. \A x \in Fds : users'[x].sockfd = users[x].sockfd
    BY <1>2, <1>10, <2>2 DEF HandleOutLinger
  <2> QED
    BY <1>7, <1>10, <2>3 DEF HandleOutLinger
<1>11. CASE HandleOutClose(fd)
  <2>1. /\ fdconn \in [Fds -> Conns \cup {NoConn}] /\ fd # NoFd
        /\ reg \in [Fds -> {"none", "off", "in", "out"}]
    BY <1>3, ServerAssumption DEF Typed, TypeOK, Fds
  <2>2. /\ \A x \in Fds \ {fd} : fdconn'[x] = fdconn[x] /\ reg'[x] = reg[x]
        /\ fdconn'[fd] # NoConn => reg'[fd] # "none"
        /\ mpc' \in {"batch", "store"}
    BY <1>2, <1>3, <1>11, <2>1 DEF HandleOutClose, RemoveFd, LoadCount, Known
  <2>3. users'[fd].sockfd = NoFd /\ \A x \in Fds \ {fd} : users'[x].sockfd = users[x].sockfd
    <3>1. CASE users[fd].sockfd = NoFd
      BY <1>2, <1>11, <3>1 DEF HandleOutClose, User
    <3>2. CASE users[fd].sockfd # NoFd
      <4>1. users' = [users EXCEPT ![fd].file = NoConn, ![fd].sockfd = NoFd]
        BY <1>11, <3>2 DEF HandleOutClose
      <4> QED
        BY <1>2, <4>1 DEF User
    <3> QED
      BY <3>1, <3>2
  <2> QED
    BY <1>1, <1>2, <1>4, <1>5, <1>6, <2>1, <2>2, <2>3, HandledKnown DEF poolVars
<1> QED
  BY <1>8, <1>9, <1>10, <1>11

(* epoll_wait takes armed descriptors into the batch, whose last is done.  *)
LEMMA EpollLost == LostInv /\ (EpollWait \/ BatchDone \/ StoreCount) => LostInv'
<1> SUFFICES ASSUME LostInv, EpollWait \/ BatchDone \/ StoreCount PROVE LostInv'
  OBVIOUS
<1>1. Typed'
  BY EpollType DEF LostInv
<1>2. UNCHANGED <<users, fdconn, poolVars, wpc>>
  BY DEF EpollWait, BatchDone, StoreCount, kernelVars, workerVars
<1>3. CASE EpollWait
  <2>1. /\ batch' = {Report(fd) : fd \in ReadyFds}
                      \cup (IF listenEdge THEN {[fd |-> ListenFd, ev |-> "in"]} ELSE {})
        /\ mpc' = "batch" /\ batch = {} /\ mpc # "out_of_bounds"
        /\ reg' = [fd \in Fds |-> IF fd \in ReadyFds THEN "off" ELSE reg[fd]]
    BY <1>3 DEF EpollWait, Spent, LostInv
  <2>2. \A fd \in ReadyFds : Report(fd).fd = fd /\ reg[fd] # "none"
    BY DEF ReadyFds, Report, Revents
  <2>3. ASSUME NEW fd \in Fds, Known(fd) PROVE Known(fd)'
    <3>1. CASE fd \in ReadyFds
      <4>1. Batched(fd)' /\ reg'[fd] # "none"
        BY <2>1, <2>2, <3>1 DEF Batched
      <4> QED
        BY <1>2, <2>2, <2>3, <3>1, <4>1 DEF Known, Handed
    <3>2. CASE fd \notin ReadyFds
      <4>1. ~ Batched(fd) /\ reg'[fd] = reg[fd]
        BY <2>1, <3>2 DEF Batched
      <4> QED
        BY <1>2, <2>3, <4>1, KnownSame
    <3> QED
      BY <3>1, <3>2
  <2> QED
    BY <1>1, <1>2, <2>1, <2>3, LostKept DEF LostInv, poolVars
<1>4. CASE BatchDone \/ StoreCount
  <2>1. UNCHANGED <<reg, batch>> /\ mpc \in {"batch", "store"} /\ (mpc' = "wait" => batch = {})
    BY <1>4 DEF BatchDone, StoreCount, kernelVars
  <2>2. ASSUME NEW fd \in Fds, Known(fd) PROVE Known(fd)'
    BY <1>2, <2>1, <2>2, KnownSame DEF Batched
  <2> QED
    BY <1>1, <1>2, <2>1, <2>2, LostKept DEF LostInv, poolVars
<1> QED
  BY <1>3, <1>4

(* accept registers a free descriptor, and its object knows it.            *)
LEMMA AcceptLost == LostInv /\ (AcceptFails \/ AcceptBusy \/ Accept) => LostInv'
<1> SUFFICES ASSUME LostInv, AcceptFails \/ AcceptBusy \/ Accept PROVE LostInv'
  OBVIOUS
<1> DEFINE e == [fd |-> ListenFd, ev |-> "in"]
<1>1. Typed'
  BY AcceptType DEF LostInv
<1>2. /\ mpc = "batch" /\ batch' = batch \ {e} /\ UNCHANGED <<poolVars, wpc>>
      /\ mpc' # "wait"
  BY DEF AcceptFails, AcceptBusy, Accept, Handling, workerVars, LoadCount
<1>3. ListenFd \notin Fds
  BY ServerAssumption DEF ListenFd, Fds
<1>4. \A fd \in Fds : Batched(fd)' <=> Batched(fd)
  BY <1>2, <1>3 DEF Batched
<1>5. ASSUME \A fd \in Fds : Known(fd) => Known(fd)' PROVE LostInv'
  BY <1>1, <1>2, <1>5, LostKept DEF LostInv, poolVars
<1>6. CASE AcceptFails \/ AcceptBusy
  <2>1. UNCHANGED <<users, fdconn, reg>>
    BY <1>6 DEF AcceptFails, AcceptBusy, kernelVars
  <2> QED
    BY <1>2, <1>4, <1>5, <2>1, KnownSame
<1>7. CASE Accept
  <2>1. CASE LowestFree >= MaxFd
    <3>1. mpc' = "out_of_bounds"
      BY <1>7, <2>1 DEF Accept
    <3> QED
      BY <1>1, <1>2, <3>1, LostKept DEF LostInv, poolVars
  <2>2. CASE ~ (LowestFree >= MaxFd)
    <3> DEFINE new == LowestFree
               u == [users[new] EXCEPT !.sockfd = new, !.address = Head(backlog)]
    <3>1. new \in Fds /\ backlog # << >>
      BY <1>7, LowestFreeIsFree DEF Accept, FreeFds
    <3>2. /\ fdconn' = [fdconn EXCEPT ![new] = Head(backlog)]
          /\ reg' = [reg EXCEPT ![new] = "in"]
          /\ users' = [users EXCEPT ![new] = Reset(u)]
      BY <1>7, <2>2 DEF Accept
    <3>3. Head(backlog) \in Conns /\ users \in [Fds -> User] /\ Typed
      BY <3>1 DEF LostInv, Typed, TypeOK
    <3>4. u \in User /\ u.sockfd = new
      BY <3>1, <3>3 DEF User
    <3> HIDE DEF new, u
    <3>5. users'[new].sockfd = new /\ \A x \in Fds \ {new} : users'[x] = users[x]
      BY <3>1, <3>2, <3>3, <3>4, ResetFields
    <3>6. /\ reg'[new] = "in"
          /\ \A x \in Fds \ {new} : reg'[x] = reg[x] /\ fdconn'[x] = fdconn[x]
      BY <3>1, <3>2, <3>3 DEF Typed, TypeOK
    <3>7. ASSUME NEW fd \in Fds, Known(fd) PROVE Known(fd)'
      <4>1. CASE fd = new
        BY <3>5, <3>6, <4>1 DEF Known, Handed
      <4>2. CASE fd # new
        BY <1>2, <1>4, <3>5, <3>6, <3>7, <4>2, KnownSame
      <4> QED
        BY <4>1, <4>2
    <3> QED
      BY <1>5, <3>7
  <2> QED
    BY <2>1, <2>2
<1> QED
  BY <1>6, <1>7

(* A step of a worker that takes nothing from the queue: another           *)
(* descriptor than its own keeps its claims.                               *)
LEMMA OthersKnown ==
  ASSUME LostInv, Typed', NEW w \in Workers, NEW fd \in Fds, fd = serving[w],
         UNCHANGED <<m_workqueue, batch, mpc>>,
         NEW pc1, wpc' = [wpc EXCEPT ![w] = pc1],
         \/ serving' = serving /\ pc1 # "idle"
         \/ serving' = [serving EXCEPT ![w] = NoFd] /\ pc1 = "idle",
         \A x \in Fds \ {fd} : /\ users'[x].sockfd = users[x].sockfd
                              /\ fdconn'[x] = fdconn[x] /\ reg'[x] = reg[x],
         mpc # "out_of_bounds" /\ Known(fd) => Known(fd)'
  PROVE  LostInv'
<1>1. wpc[w] # "idle" /\ NoFd \notin Fds
  BY ServerAssumption DEF LostInv, Typed, TypeOK, Fds
<1>2. /\ wpc \in [Workers -> {"idle", "parse", "close", "reset", "count", "store", "rearm"}]
      /\ serving \in [Workers -> Fds \cup {NoFd}]
  BY DEF LostInv, Typed, TypeOK
<1>3. \A v \in Workers : wpc'[v] = "idle" <=> serving'[v] = NoFd
  BY <1>1, <1>2 DEF LostInv
<1>4. ASSUME NEW x \in Fds \ {fd}, Known(x) PROVE Known(x)'
  <2>1. (Queued(x)' <=> Queued(x)) /\ (Batched(x)' <=> Batched(x))
    BY DEF Queued, Batched
  <2>2. Serving(x) \subseteq Serving(x)'
    BY <1>1, <1>2, <1>4 DEF Serving
  <2> QED
    BY <1>4, <2>1, <2>2 DEF Known, Handed
<1> QED
  BY <1>1, <1>3, <1>4, LostKept DEF LostInv

(* A worker takes a claim from the queue, works under it, and gives it     *)
(* back to epoll; only closing and overwriting m_sockfd put an end to it.  *)
LEMMA WorkerLost ==
  ASSUME LostInv, NEW w \in Workers, WorkerNext(w) PROVE LostInv'
<1>1. Typed /\ Typed'
  BY WorkerType DEF LostInv
<1> PICK fd : fd = serving[w]
  OBVIOUS
<1>2. /\ wpc \in [Workers -> {"idle", "parse", "close", "reset", "count", "store", "rearm"}]
      /\ serving \in [Workers -> Fds \cup {NoFd}] /\ NoFd \notin Fds
      /\ users \in [Fds -> User] /\ fdconn \in [Fds -> Conns \cup {NoConn}]
      /\ reg \in [Fds -> {"none", "off", "in", "out"}] /\ wev[w] \in {"in", "out"}
  BY <1>1, ServerAssumption DEF Typed, TypeOK, Fds
<1>3. wpc[w] # "idle" => fd \in Fds
  BY <1>2 DEF LostInv
<1>4. CASE ProcessStart(w)
  <2> DEFINE q == m_workqueue
  <2> PICK h : h = Head(q)
    OBVIOUS
  <2>1. /\ UNCHANGED <<reg, fdconn, users, batch, mpc>> /\ q \in Seq(Fds) /\ q # << >>
        /\ q' = Tail(q) /\ wpc' = [wpc EXCEPT ![w] = "parse"]
        /\ serving' = [serving EXCEPT ![w] = h] /\ serving[w] = NoFd
    BY <1>1, <1>4 DEF ProcessStart, Pool!Start, kernelVars, mainVars, Typed, TypeOK
  <2>2. /\ h \in Fds /\ h = q[1] /\ DOMAIN q = 1 .. Len(q) /\ Len(q) \in Nat \ {0}
        /\ DOMAIN q' = 1 .. (Len(q) - 1)
        /\ \A i \in 1 .. (Len(q) - 1) : q'[i] = q[i + 1]
    BY <2>1
  <2>3. \A x \in Fds \ {h} : Queued(x) => Queued(x)'
    <3> SUFFICES ASSUME NEW x \in Fds \ {h}, Queued(x) PROVE Queued(x)'
      OBVIOUS
    <3>1. PICK i \in DOMAIN q : q[i] = x
      BY DEF Queued
    <3>2. i - 1 \in 1 .. (Len(q) - 1) /\ q'[i - 1] = x
      BY <2>2, <3>1
    <3> QED
      BY <2>2, <3>2 DEF Queued
  <2>4. \A x \in Fds : (Batched(x)' <=> Batched(x)) /\ Serving(x) \subseteq Serving(x)'
    BY <1>2, <2>1 DEF Batched, Serving
  <2>5. w \in Serving(h)'
    BY <1>2, <2>1 DEF Serving
  <2>6. \A v \in Workers : wpc'[v] = "idle" <=> serving'[v] = NoFd
    BY <1>2, <2>1, <2>2 DEF LostInv
  <2>7. ASSUME NEW x \in Fds, Known(x) PROVE Known(x)'
    BY <2>1, <2>3, <2>4, <2>5, <2>7 DEF Known, Handed
  <2> QED
    BY <1>1, <2>1, <2>6, <2>7, LostKept DEF LostInv
<1>5. ASSUME wpc[w] \in {"parse", "close", "count", "store"},
             NEW pc1 \in {"close", "store", "rearm"},
             wpc[w] \in {"parse", "close"} => pc1 # "store", wpc' = [wpc EXCEPT ![w] = pc1],
             UNCHANGED <<reg, fdconn, batch, mpc, poolVars>>,
             \A x \in Fds : users'[x].sockfd = users[x].sockfd
      PROVE  LostInv'
  <2>1. fd \in Fds /\ wpc[w] # "idle"
    BY <1>3, <1>5
  <2>2. Known(fd) => Known(fd)'
    <3>1. (Queued(fd)' <=> Queued(fd)) /\ (Batched(fd)' <=> Batched(fd))
      BY <1>5 DEF Queued, Batched, poolVars
    <3>2. Serving(fd) \subseteq Serving(fd)'
      BY <1>2, <1>5 DEF Serving, poolVars
    <3> QED
      BY <1>5, <2>1, <3>1, <3>2 DEF Known, Handed
  <2> QED
    BY <1>1, <1>5, <2>1, <2>2, OthersKnown DEF poolVars
<1>6. CASE ProcessIncomplete(w)
  BY <1>5, <1>6 DEF ProcessIncomplete, Arm, kernelVars, mainVars
<1>7. CASE ProcessReply(w)
  <2>1. \A x \in Fds : users'[x].sockfd = users[x].sockfd
    BY <1>2, <1>7 DEF ProcessReply, User
  <2> QED
    BY <1>5, <1>7, <2>1 DEF ProcessReply, Arm, kernelVars, mainVars
<1>8. CASE ProcessEmptyFile(w)
  <2>1. \A x \in Fds : users'[x].sockfd = users[x].sockfd
    BY <1>2, <1>8 DEF ProcessEmptyFile, User
  <2> QED
    BY <1>5, <1>8, <2>1 DEF ProcessEmptyFile, kernelVars, mainVars
<1>9. CASE WorkerRemove(w)
  <2>1. wpc[w] = "close" /\ fd \in Fds /\ UNCHANGED <<users, batch, mpc, poolVars>>
    BY <1>3, <1>9 DEF WorkerRemove, mainVars
  <2>2. CASE users[fd].sockfd = NoFd
    BY <1>5, <1>9, <2>1, <2>2 DEF WorkerRemove, Arm, kernelVars
  <2>3. CASE users[fd].sockfd # NoFd /\ mpc # "out_of_bounds"
    <3>1. users[fd].sockfd = fd
      BY <2>1, <2>3 DEF LostInv, Known
    <3>2. RemoveFd(fd) /\ wpc' = [wpc EXCEPT ![w] = "reset"]
      BY <1>9, <2>3, <3>1 DEF WorkerRemove
    <3>3. /\ fdconn'[fd] = NoConn
          /\ \A x \in Fds \ {fd} : fdconn'[x] = fdconn[x] /\ reg'[x] = reg[x]
      BY <1>2, <2>1, <3>2 DEF RemoveFd
    <3>4. Known(fd)'
      BY <2>1, <3>1, <3>3 DEF Known
    <3> QED
      BY <1>1, <2>1, <3>2, <3>3, <3>4, OthersKnown DEF poolVars
  <2>4. CASE users[fd].sockfd # NoFd /\ mpc = "out_of_bounds"
    <3>1. wpc' = [wpc EXCEPT ![w] = "reset"]
      BY <1>9, <2>4 DEF WorkerRemove
    <3>2. \A v \in Workers : wpc'[v] = "idle" <=> serving'[v] = NoFd
      BY <1>2, <2>1, <3>1 DEF LostInv, poolVars
    <3> QED
      BY <1>1, <2>1, <2>4, <3>2 DEF LostInv
  <2> QED
    BY <2>2, <2>3, <2>4
<1>10. CASE WorkerResetSockfd(w)
  <2>1. /\ wpc[w] # "idle" /\ fd \in Fds /\ UNCHANGED <<reg, fdconn, batch, mpc, poolVars>>
        /\ wpc' = [wpc EXCEPT ![w] = "count"]
        /\ users' = [users EXCEPT ![fd].sockfd = NoFd]
    BY <1>3, <1>10 DEF WorkerResetSockfd, kernelVars, mainVars
  <2>2. users'[fd].sockfd = NoFd /\ \A x \in Fds \ {fd} : users'[x] = users[x]
    BY <1>2, <2>1 DEF User
  <2>3. Known(fd) => Known(fd)'
    BY <1>2, <2>1, <2>2 DEF Known
  <2> QED
    BY <1>1, <2>1, <2>2, <2>3, OthersKnown DEF poolVars
<1>11. CASE WorkerLoadCount(w) \/ WorkerStoreCount(w)
  BY <1>5, <1>11 DEF WorkerLoadCount, WorkerStoreCount, Arm, kernelVars, mainVars
<1>12. CASE ProcessEnd(w)
  <2>1. /\ wpc[w] # "idle" /\ fd \in Fds /\ UNCHANGED <<users, fdconn, batch, mpc, m_workqueue>>
        /\ wpc' = [wpc EXCEPT ![w] = "idle"] /\ ModFd(users[fd].sockfd, wev[w])
        /\ serving' = [serving EXCEPT ![w] = NoFd]
    BY <1>3, <1>12 DEF ProcessEnd, Pool!Finish, mainVars
  <2>2. CASE mpc = "out_of_bounds"
    <3>1. \A v \in Workers : wpc'[v] = "idle" <=> serving'[v] = NoFd
      BY <1>2, <2>1 DEF LostInv
    <3> QED
      BY <1>1, <2>1, <2>2, <3>1 DEF LostInv
  <2>3. CASE mpc # "out_of_bounds"
    <3>1. Known(fd)
      BY <2>1, <2>3 DEF LostInv
    <3>2. /\ \A x \in Fds \ {fd} : reg'[x] = reg[x]
          /\ fdconn[fd] # NoConn => reg'[fd] # "none"
          /\ fdconn[fd] # NoConn /\ users[fd].sockfd = fd => reg'[fd] \in {"in", "out"}
      BY <1>1, <1>2, <2>1, <3>1, ModKnown
    <3>3. Known(fd)'
      BY <2>1, <3>1, <3>2 DEF Known, Handed
    <3> QED
      BY <1>1, <2>1, <3>2, <3>3, OthersKnown
  <2> QED
    BY <2>2, <2>3
<1> QED
  BY <1>4, <1>6, <1>7, <1>8, <1>9, <1>10, <1>11, <1>12 DEF WorkerNext

(* LostInv holds at the start, and every step in which append has room     *)
(* keeps it.                                                               *)
LEMMA LostInit == Init => LostInv
<1> SUFFICES ASSUME Init PROVE LostInv
  OBVIOUS
<1>1. Typed
  BY TypedInit
<1>2. /\ batch = {} /\ \A w \in Workers : serving[w] = NoFd /\ wpc[w] = "idle"
      /\ \A fd \in Fds : fdconn[fd] = NoConn /\ users[fd].sockfd = NoFd
  BY DEF Init, Pool!PoolInit, NewUser
<1> QED
  BY <1>1, <1>2 DEF LostInv, Known

LEMMA LostStep ==
  ASSUME LostInv, [Next]_vars, [\A fd \in Fds : HandleIn(fd) => ~ Pool!Full(m_workqueue)]_vars
  PROVE  LostInv'
<1>1. CASE UNCHANGED vars \/ \E c \in Conns : ClientNext(c)
  <2>1. UNCHANGED <<users, fdconn, reg, mpc, batch, poolVars, wpc>>
    BY <1>1 DEF vars, kernelVars, mainVars, workerVars, ClientNext, ClientConnect,
       ClientSend, ClientLeave, ClientDrain
  <2>2. Typed'
    BY TypedStep DEF LostInv
  <2>3. \A fd \in Fds : Known(fd) => Known(fd)'
    BY <2>1, KnownSame DEF Batched
  <2> QED
    BY <2>1, <2>2, <2>3, LostKept DEF LostInv, poolVars
<1>2. CASE UNCHANGED vars
  BY <1>1, <1>2
<1>3. CASE ~ UNCHANGED vars /\ MainNext
  BY <1>3, EpollLost, AcceptLost, HandleInLost, HandleOutLost DEF MainNext
<1> QED
  BY <1>1, <1>2, <1>3, WorkerLost DEF Next

(* Claims counts finite sets: who has the descriptor in hand has a claim.  *)
LEMMA HandedClaims ==
  ASSUME Typed, NEW fd \in Fds, Handed(fd) PROVE Claims(fd) >= 1
<1> DEFINE B == {e \in batch : e.fd = fd}
           Q == {i \in DOMAIN m_workqueue : m_workqueue[i] = fd}
           S == Serving(fd)
<1>1. IsFiniteSet(B)
  <2> DEFINE E == {[fd |-> fd, ev |-> "hup"]} \cup {[fd |-> fd, ev |-> "in"]}
                    \cup {[fd |-> fd, ev |-> "out"]}
  <2>1. IsFiniteSet(E)
    BY FS_Singleton, FS_Union
  <2>2. fd # ListenFd
    BY ServerAssumption DEF ListenFd, Fds
  <2>3. B \subseteq E
    BY <2>2 DEF Typed, TypeOK, Events
  <2> QED
    BY <2>1, <2>3, FS_Subset
<1>2. IsFiniteSet(Q)
  <2>1. DOMAIN m_workqueue = 1 .. Len(m_workqueue) /\ Len(m_workqueue) \in Nat
    BY DEF Typed, TypeOK
  <2>2. IsFiniteSet(1 .. Len(m_workqueue))
    BY <2>1, FS_Interval
  <2> QED
    BY <2>1, <2>2, FS_Subset
<1>3. IsFiniteSet(S)
  BY ServerAssumption, FS_Subset DEF Serving
<1>4. reg[fd] \in {"in", "out"} \/ B # {} \/ Q # {} \/ S # {}
  BY DEF Handed, Batched, Queued
<1>5. Claims(fd) = (IF reg[fd] \in {"in", "out"} THEN 1 ELSE 0)
                     + Cardinality(B) + Cardinality(Q) + Cardinality(S)
  BY DEF Claims
<1> HIDE DEF B, Q, S
<1>6. /\ Cardinality(B) \in Nat /\ (Cardinality(B) = 0 => B = {})
      /\ Cardinality(Q) \in Nat /\ (Cardinality(Q) = 0 => Q = {})
      /\ Cardinality(S) \in Nat /\ (Cardinality(S) = 0 => S = {})
  BY <1>1, <1>2, <1>3, FS_CardinalityType, FS_EmptySet
<1> QED
  BY <1>4, <1>5, <1>6

(* Also when workers close connections behind main's back: while append    *)
(* has room, an open connection whose object still knows its descriptor is *)
(* in somebody's hands.                                                    *)
THEOREM ServerLostOnlyBySockfd == Spec /\ NeverRefused => []LostOnlyBySockfd
<1>1. LostInv /\ [Next]_vars
        /\ [\A fd \in Fds : HandleIn(fd) => ~ Pool!Full(m_workqueue)]_vars => LostInv'
  BY LostStep
<1>2. LostInv => LostOnlyBySockfd
  BY HandedClaims DEF LostInv, Known, LostOnlyBySockfd, OpenFds
<1> QED
  BY <1>1, <1>2, LostInit, PTL DEF Spec, NeverRefused
===============================================================================
