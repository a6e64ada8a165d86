---------------------------- MODULE ProcessPoolProofs ----------------------------
(***************************************************************************)
(* The process pool for any number of kids, connections and pipe sizes:    *)
(* the types, who ends last, and where a waiting connection may be         *)
(* forgotten.                                                              *)
(***************************************************************************)
EXTENDS ProcessPool, FiniteSetTheorems, WellFoundedInduction, TLAPS

One(b) == IF b THEN 1 ELSE 0
Edge(p) == One(edge[p])
In(p) == One("in" \in batch[p])

(* The parent's own life: it stops only when every kid has been reaped,    *)
(* and handles events only while it runs.                                  *)
ParentInv ==
  /\ life[0] \in {"starting", "running", "gone"}
  /\ life[0] # "starting" => \A i \in Kids : life[i] # "none"
  /\ life[0] = "starting" => ~edge[0] /\ ~m_stop[0] /\ \A i \in Kids : notices[i] = 0
  /\ m_stop[0] \/ life[0] = "gone" => \A i \in Kids : life[i] = "gone"
  /\ batch[0] # {} => life[0] = "running"
  /\ \A i \in doomed : life[i] = "starting"

(* A notice, the parent's edge and its report each stand for a client.     *)
Arrived == {c \in Conns : conn[c] # "none"}
NoticesBounded ==
  \A i \in Kids : notices[i] + Edge(0) + In(0) <= Cardinality(Arrived)

(* What is under way for the backlog: the parent's edge, the report in its *)
(* batch, and the notices it has written.                                  *)
Tokens ==
  {x \in Procs \X (1 .. Cardinality(Conns) + 2) :
     IF x[1] = 0 THEN (x[2] = 1 /\ edge[0]) \/ (x[2] = 2 /\ "in" \in batch[0])
     ELSE x[2] <= notices[x[1]]}

(* As long as nothing was merged, there is one for each connection, and    *)
(* epoll has as many reports for a kid as there are notices in its pipe.   *)
EpollHasAll == \A i \in Kids : life[i] = "starting" \/ notices[i] <= Edge(i) + In(i)
BacklogCovered ==
  life[0] = "running" /\ ~m_stop[0] => Cardinality(Backlog) <= Cardinality(Tokens)
NothingMerged == EpollHasAll /\ BacklogCovered

PoolInv == TypeOK /\ ParentInv /\ NoticesBounded /\ (merged \/ NothingMerged)

-------------------------------------------------------------------------------
LEMMA KidsAndProcs == Procs = Kids \cup {0} /\ 0 \notin Kids /\ 1 \in Kids /\ N \in Nat
  BY ProcessPoolAssumption DEF Procs, Kids

LEMMA FewConns ==
  ASSUME NEW S \in SUBSET Conns
  PROVE  IsFiniteSet(S) /\ Cardinality(S) \in 0 .. Cardinality(Conns)
  BY ProcessPoolAssumption, FS_Subset, FS_CardinalityType

(* The round robin passes every kid, so it stops at one whose m_pid is set. *)
LEMMA RoundRobin ==
  ASSUME NEW c \in Kids, NEW i \in Kids
  PROVE  \E k \in 0 .. N - 1 : ((c - 1 + k) % N) + 1 = i
<1> DEFINE k == IF i >= c THEN i - c ELSE i - c + N
<1>1. k \in 0 .. N - 1
  BY ProcessPoolAssumption DEF Kids
<1>2. c - 1 + k = i - 1 \/ c - 1 + k = i - 1 + N
  BY ProcessPoolAssumption DEF Kids
<1>3. ((c - 1 + k) % N) + 1 = i
  BY <1>2, ProcessPoolAssumption DEF Kids
<1> QED
  BY <1>1, <1>3

LEMMA ChosenIsUnreaped ==
  ASSUME counter \in Kids, Unreaped # {}
  PROVE  Chosen \in Unreaped
<1> DEFINE At(k) == ((counter - 1 + k) % N) + 1
           Hits == {k \in 0 .. N - 1 : At(k) \in Unreaped}
           First(k) == At(k) \in Unreaped /\ \A j \in 0 .. k - 1 : At(j) \notin Unreaped
<1>1. Unreaped \subseteq Kids
  BY DEF Unreaped
<1>2. Hits # {} /\ Hits \subseteq Nat
  BY <1>1, RoundRobin, ProcessPoolAssumption
<1> DEFINE Less == {ss \in Nat \X Nat : ss[1] < ss[2]}
<1>a. IsWellFoundedOn(Less, Nat)
  BY NatLessThanWellFounded, Zenon DEF OpToRel
<1> HIDE DEF Less
<1>3. PICK k \in Hits : \A j \in Hits : ~(<<j, k>> \in Less)
  BY <1>2, <1>a, WFMin
<1>4. First(k)
  <2>1. ASSUME NEW j \in 0 .. k - 1, At(j) \in Unreaped PROVE FALSE
    <3>1. j \in 0 .. N - 1 /\ j \in Nat /\ k \in Nat /\ j < k
      BY <2>1, ProcessPoolAssumption
    <3>2. j \in Hits
      BY <3>1, <2>1
    <3> QED
      BY <3>1, <3>2, <1>3 DEF Less
  <2> QED
    BY <2>1
<1>5. \E m \in 0 .. N - 1 : First(m)
  BY <1>4
<1> HIDE DEF First
<1>6. First(CHOOSE m \in 0 .. N - 1 : First(m))
  BY <1>5
<1> QED
  BY <1>6 DEF First, Chosen

-------------------------------------------------------------------------------
(* Signals *)

Pipes == {s \in [Procs -> Seq({"CHLD", "TERM"})] : \A p \in Procs : Len(s[p]) <= PipeSize[p]}

LEMMA SignalledFits ==
  ASSUME NEW pipes \in Pipes, NEW P \in SUBSET Procs, NEW sig \in {"CHLD", "TERM"}
  PROVE  Signalled(pipes, P, sig) \in Pipes
<1>1. \A p \in Procs : Len(pipes[p]) \in Nat /\ PipeSize[p] \in Nat \ {0}
  BY ProcessPoolAssumption DEF Pipes
<1>2. ASSUME NEW p \in Procs, Len(pipes[p]) < PipeSize[p]
      PROVE  /\ Append(pipes[p], sig) \in Seq({"CHLD", "TERM"})
             /\ Len(Append(pipes[p], sig)) <= PipeSize[p]
  BY <1>1, <1>2 DEF Pipes
<1> QED
  BY <1>2 DEF Signalled, Pipes

LEMMA EmptiedFits ==
  ASSUME NEW pipes \in Pipes, NEW p \in Procs
  PROVE  [pipes EXCEPT ![p] = << >>] \in Pipes
<1>1. << >> \in Seq({"CHLD", "TERM"}) /\ Len(<< >>) = 0
  OBVIOUS
<1>2. PipeSize[p] \in Nat \ {0}
  BY ProcessPoolAssumption
<1> QED
  BY <1>1, <1>2 DEF Pipes

-------------------------------------------------------------------------------
(* The steps, with the three ways in which a kid ends taken together.      *)
LEMMA StepKinds ==
  ASSUME \A i \in doomed : life[i] = "starting", [Next]_vars
  PROVE  \/ UNCHANGED vars
         \/ \E p \in Procs : EpollWait(p) \/ Setup(p)
         \/ ParentNotices \/ ParentFindsNobody \/ ParentSignals \/ ParentExits \/ Terminate
         \/ \E i \in Kids : \/ Fork(i) \/ KidSignals(i) \/ KidAccepts(i)
                            \/ \E c \in Conns : KidProcess(i, c)
                            \/ Alive(i) /\ Ends(i)
         \/ \E c \in Conns : \/ Connect(c) \/ ProgramEnds(c)
                             \/ \E what \in {"part", "line", "fin"} : Send(c, what)
<1>1. \A i \in Kids : KidExits(i) \/ Crash(i) \/ KilledEarly(i) => Alive(i) /\ Ends(i)
  BY DEF KidExits, Crash, KilledEarly, Alive
<1>2. \A i \in Kids : KidStep(i) =>
        \/ EpollWait(i) \/ KidSignals(i) \/ KidAccepts(i) \/ KidExits(i)
        \/ \E c \in Conns : KidProcess(i, c)
  BY DEF KidStep
<1>3. ParentStep =>
        \/ EpollWait(0) \/ ParentNotices \/ ParentFindsNobody \/ ParentSignals \/ ParentExits
  BY DEF ParentStep
<1>4. 0 \in Procs /\ \A i \in Kids : i \in Procs
  BY KidsAndProcs
<1> QED
  BY <1>1, <1>2, <1>3, <1>4 DEF Next

LEMMA ParentInvStep == TypeOK /\ ParentInv /\ [Next]_vars => ParentInv'
<1> SUFFICES ASSUME TypeOK, ParentInv, [Next]_vars PROVE ParentInv'
  OBVIOUS
<1> USE KidsAndProcs DEF TypeOK, ParentInv
<1>1. CASE UNCHANGED vars
  BY <1>1 DEF vars, connVars, noticeVars, sigVars, procVars
<1>2. ASSUME NEW p \in Procs, EpollWait(p) PROVE ParentInv'
  BY <1>2 DEF EpollWait, connVars, noticeVars, sigVars, procVars
<1>3. CASE ParentNotices
  BY <1>3, ChosenIsUnreaped DEF ParentNotices, Handled, Alive, Unreaped, connVars, sigVars, procVars
<1>4. CASE ParentFindsNobody
  BY <1>4 DEF ParentFindsNobody, Unreaped, connVars, sigVars
<1>5. CASE ParentSignals
  BY <1>5 DEF ParentSignals, Handled, NobodyLeft, Unreaped, Killed, Alive, connVars
<1>6. CASE ParentExits
  BY <1>6 DEF ParentExits, connVars, noticeVars, sigVars, procVars
<1>7. CASE Terminate
  BY <1>7 DEF Terminate, connVars, noticeVars, sigVars, procVars
<1>8. ASSUME NEW p \in Procs, Setup(p) PROVE ParentInv'
  BY <1>8 DEF Setup, AddFd, connVars, sigVars
<1>9. ASSUME NEW i \in Kids, Fork(i) PROVE ParentInv'
  BY <1>9 DEF Fork, connVars, noticeVars, sigVars, procVars
<1>10. ASSUME NEW i \in Kids, KidSignals(i) PROVE ParentInv'
  BY <1>10 DEF KidSignals, Handled, connVars, noticeVars, sigVars, procVars
<1>11. ASSUME NEW i \in Kids, KidAccepts(i) PROVE ParentInv'
  BY <1>11 DEF KidAccepts, Handled, connVars, noticeVars, sigVars, procVars
<1>12. ASSUME NEW i \in Kids, NEW c \in Conns, KidProcess(i, c) PROVE ParentInv'
  BY <1>12 DEF KidProcess, connVars, noticeVars, sigVars, procVars
<1>13. ASSUME NEW i \in Kids, Alive(i), Ends(i) PROVE ParentInv'
  BY <1>13 DEF Ends, Alive
<1>14. ASSUME NEW c \in Conns, Connect(c) PROVE ParentInv'
  BY <1>14 DEF Connect, connVars, noticeVars, sigVars, procVars
<1>15. ASSUME NEW c \in Conns, ProgramEnds(c) PROVE ParentInv'
  BY <1>15 DEF ProgramEnds, connVars, noticeVars, sigVars, procVars
<1>16. ASSUME NEW c \in Conns, NEW what \in {"part", "line", "fin"}, Send(c, what)
      PROVE  ParentInv'
  BY <1>16 DEF Send, connVars, noticeVars, sigVars, procVars
<1> QED
  BY <1>1, <1>2, <1>3, <1>4, <1>5, <1>6, <1>7, <1>8, <1>9, <1>10, <1>11, <1>12, <1>13, <1>14, <1>15, <1>16, StepKinds DEF ParentInv

(* Each notice stands for a client: one that has connected.                *)
LEMMA NoticesStep ==
  TypeOK /\ ParentInv /\ NoticesBounded /\ [Next]_vars => NoticesBounded'
<1> SUFFICES ASSUME TypeOK, ParentInv, NoticesBounded, [Next]_vars PROVE NoticesBounded'
  OBVIOUS
<1> USE KidsAndProcs DEF TypeOK, ParentInv, NoticesBounded, Edge, In, One
<1>a. Cardinality(Arrived) \in Nat /\ Cardinality(Arrived') \in Nat
  BY FewConns DEF Arrived
<1>d. \A i \in Kids : notices[i] \in Nat
  BY FewConns
<1>b. ASSUME conn' = conn PROVE Cardinality(Arrived') = Cardinality(Arrived)
  BY <1>b DEF Arrived
<1>c. ASSUME \A c \in Conns : conn'[c] # "none" <=> conn[c] # "none"
      PROVE  Cardinality(Arrived') = Cardinality(Arrived)
  <2>1. Arrived' = Arrived
    BY <1>c DEF Arrived
  <2> QED
    BY <2>1
<1>1. CASE UNCHANGED vars
  BY <1>1, <1>b DEF vars, connVars, noticeVars
<1>2. ASSUME NEW p \in Procs, EpollWait(p) PROVE NoticesBounded'
  BY <1>2, <1>b, <1>a DEF EpollWait
<1>3. CASE ParentNotices
  <2>1. Chosen \in Kids
    BY <1>3, ChosenIsUnreaped DEF ParentNotices, Unreaped
  <2>2. "in" \in batch[0] /\ "in" \notin batch'[0] /\ edge'[0] = edge[0]
    BY <1>3, <2>1 DEF ParentNotices, Handled
  <2>3. notices' = notices \/ notices' = [notices EXCEPT ![Chosen] = @ + 1]
    BY <1>3 DEF ParentNotices
  <2>4. \A i \in Kids : notices'[i] <= notices[i] + 1 /\ notices'[i] \in Nat /\ notices[i] \in Nat
    <3>1. CASE notices' = notices
      BY <3>1, <1>d
    <3>2. CASE notices' = [notices EXCEPT ![Chosen] = @ + 1]
      <4>1. notices'[Chosen] = notices[Chosen] + 1
        BY <3>2, <2>1
      <4>2. \A i \in Kids \ {Chosen} : notices'[i] = notices[i]
        BY <3>2
      <4> HIDE DEF TypeOK, ParentInv, NoticesBounded
      <4>3. ASSUME NEW i \in Kids
            PROVE  notices'[i] = notices[i] + 1 \/ notices'[i] = notices[i]
        BY <4>1, <4>2
      <4> QED
        BY <4>3, <1>d
    <3> QED
      BY <2>3, <3>1, <3>2
  <2>5. Cardinality(Arrived') = Cardinality(Arrived)
    BY <1>3, <1>b DEF ParentNotices, connVars
  <2> QED
    BY <1>a, <2>2, <2>4, <2>5
<1>4. CASE ParentFindsNobody
  BY <1>4, <1>a, <1>b DEF ParentFindsNobody, connVars
<1>5. CASE ParentSignals
  BY <1>5, <1>b DEF ParentSignals, Handled, connVars
<1>6. CASE ParentExits
  BY <1>6, <1>b DEF ParentExits, noticeVars, connVars
<1>7. CASE Terminate
  BY <1>7, <1>b DEF Terminate, noticeVars, connVars
<1>8. ASSUME NEW p \in Procs, Setup(p) PROVE NoticesBounded'
  <2>1. Cardinality(Arrived') = Cardinality(Arrived) /\ notices' = notices /\ batch' = batch
    BY <1>8, <1>b DEF Setup, connVars
  <2>2. CASE p # 0
    BY <1>8, <2>1, <2>2 DEF Setup, AddFd
  <2>3. CASE p = 0
    <3>1. Cardinality(Backlog) \in Nat /\ Cardinality(Backlog) <= Cardinality(Arrived)
      <4>1. Backlog \subseteq Arrived /\ Arrived \subseteq Conns
        BY DEF Backlog, Arrived
      <4> QED
        BY <4>1, FewConns, FS_Subset
    <3>2. batch[0] = {} /\ \A i \in Kids : notices[i] = 0
      BY <1>8, <2>3 DEF Setup
    <3>3. edge'[0] = (Cardinality(Backlog) > 0)
      BY <1>8, <2>3 DEF Setup, AddFd
    <3> QED
      BY <1>a, <2>1, <3>1, <3>2, <3>3
  <2> QED
    BY <2>2, <2>3
<1>9. ASSUME NEW i \in Kids, Fork(i) PROVE NoticesBounded'
  BY <1>9, <1>b DEF Fork, noticeVars, connVars
<1>10. ASSUME NEW i \in Kids, KidSignals(i) PROVE NoticesBounded'
  BY <1>10, <1>b DEF KidSignals, Handled, connVars
<1>11. ASSUME NEW i \in Kids, KidAccepts(i) PROVE NoticesBounded'
  <2>1. Cardinality(Arrived') = Cardinality(Arrived)
    BY <1>11, <1>c DEF KidAccepts, Backlog
  <2>2. edge' = edge /\ batch'[0] = batch[0]
    BY <1>11 DEF KidAccepts, Handled
  <2>3. \A j \in Kids : notices'[j] \in Nat /\ notices'[j] <= notices[j]
    BY <1>11, <1>d DEF KidAccepts
  <2>4. Edge(0)' = Edge(0) /\ In(0)' = In(0)
    BY <2>2
  <2>5. ASSUME NEW j \in Kids PROVE notices'[j] + Edge(0)' + In(0)' <= Cardinality(Arrived')
    <3>1. notices[j] + Edge(0) + In(0) <= Cardinality(Arrived)
      OBVIOUS
    <3>2. Edge(0) \in Nat /\ In(0) \in Nat
      OBVIOUS
    <3> HIDE DEF TypeOK, ParentInv, NoticesBounded, Edge, In, One
    <3> QED
      BY <1>a, <1>d, <2>1, <2>3, <2>4, <3>1, <3>2
  <2> QED
    BY <2>5
<1>12. ASSUME NEW i \in Kids, NEW c \in Conns, KidProcess(i, c) PROVE NoticesBounded'
  <2>1. Cardinality(Arrived') = Cardinality(Arrived)
    BY <1>12, <1>c DEF KidProcess, RemoveFd
  <2> QED
    BY <1>12, <2>1 DEF KidProcess, noticeVars
<1>13. ASSUME NEW i \in Kids, Alive(i), Ends(i) PROVE NoticesBounded'
  <2>1. Cardinality(Arrived') = Cardinality(Arrived)
    BY <1>13, <1>c DEF Ends, OpenIn
  <2>2. /\ edge' = [edge EXCEPT ![i] = FALSE] /\ batch' = [batch EXCEPT ![i] = {}]
        /\ notices' = [notices EXCEPT ![i] = 0]
    BY <1>13 DEF Ends
  <2>3. Edge(0)' = Edge(0) /\ In(0)' = In(0) /\ Edge(0) \in Nat /\ In(0) \in Nat
    BY <2>2
  <2>4. \A k \in Kids : notices'[k] \in Nat /\ notices'[k] <= notices[k]
    BY <1>d, <2>2
  <2>5. \A k \in Kids : notices[k] + Edge(0) + In(0) <= Cardinality(Arrived)
    OBVIOUS
  <2> HIDE DEF TypeOK, ParentInv, NoticesBounded, Edge, In, One
  <2>6. \A k \in Kids : notices'[k] + Edge(0)' + In(0)' <= Cardinality(Arrived')
    BY <1>a, <1>d, <2>1, <2>3, <2>4, <2>5
  <2> QED
    BY <2>6 DEF NoticesBounded
<1>14. ASSUME NEW c \in Conns, Connect(c) PROVE NoticesBounded'
  <2>1. Arrived' = Arrived \cup {c} /\ c \notin Arrived
    BY <1>14 DEF Connect, Arrived
  <2>2. Cardinality(Arrived') = Cardinality(Arrived) + 1
    <3>1. IsFiniteSet(Arrived)
      BY FewConns DEF Arrived
    <3> QED
      BY <2>1, <3>1, FS_AddElement
  <2>3. notices' = notices /\ batch' = batch
    BY <1>14 DEF Connect
  <2> QED
    BY <1>a, <2>2, <2>3
<1>15. ASSUME NEW c \in Conns, ProgramEnds(c) PROVE NoticesBounded'
  BY <1>15, <1>b DEF ProgramEnds, noticeVars
<1>16. ASSUME NEW c \in Conns, NEW what \in {"part", "line", "fin"}, Send(c, what)
      PROVE  NoticesBounded'
  BY <1>16, <1>b DEF Send, noticeVars
<1> QED
  BY <1>1, <1>2, <1>3, <1>4, <1>5, <1>6, <1>7, <1>8, <1>9, <1>10, <1>11, <1>12, <1>13, <1>14, <1>15, <1>16, StepKinds DEF ParentInv

LEMMA TypeStep ==
  TypeOK /\ ParentInv /\ NoticesBounded' /\ [Next]_vars => TypeOK'
<1> SUFFICES ASSUME TypeOK, ParentInv, NoticesBounded', [Next]_vars PROVE TypeOK'
  OBVIOUS
<1> USE KidsAndProcs DEF TypeOK
<1>a. Cardinality(Conns) \in Nat
  BY FewConns
<1>b. ASSUME notices' \in [Kids -> Nat], conn' \in [Conns -> {"none", "backlog", "open", "closed"}]
      PROVE  notices' \in [Kids -> 0 .. Cardinality(Conns)]
  <2>1. Cardinality(Arrived') \in 0 .. Cardinality(Conns)
    BY FewConns DEF Arrived
  <2>2. ASSUME NEW i \in Kids PROVE notices'[i] <= Cardinality(Conns)
    <3>1. notices'[i] + Edge(0)' + In(0)' <= Cardinality(Arrived')
      BY DEF NoticesBounded
    <3>2. Edge(0)' \in Nat /\ In(0)' \in Nat
      BY DEF Edge, In, One
    <3>3. notices'[i] \in Nat
      BY <1>b
    <3> HIDE DEF TypeOK
    <3> QED
      BY <1>a, <2>1, <3>1, <3>2, <3>3
  <2> QED
    BY <1>b, <2>2
<1>c. \A i \in Kids : notices[i] \in Nat
  BY <1>a
<1>d. sigpipe \in Pipes
  BY DEF Pipes
<1>e. ASSUME sigpipe' \in Pipes
      PROVE  /\ sigpipe' \in [Procs -> Seq({"CHLD", "TERM"})]
             /\ \A p \in Procs : Len(sigpipe'[p]) <= PipeSize[p]
  BY <1>e DEF Pipes
<1>1. CASE UNCHANGED vars
  BY <1>1 DEF vars, connVars, noticeVars, sigVars, procVars
<1>2. ASSUME NEW p \in Procs, EpollWait(p) PROVE TypeOK'
  BY <1>2 DEF EpollWait, connVars, noticeVars, sigVars, procVars
<1>3. CASE ParentNotices
  <2>1. Chosen \in Kids
    BY <1>3, ChosenIsUnreaped DEF ParentNotices, Unreaped
  <2>2. (Chosen % N) + 1 \in Kids
    <3> HIDE DEF TypeOK
    <3> QED
      BY <2>1, ProcessPoolAssumption DEF Kids
  <2>a. notices' \in [Kids -> Nat]
    <3>1. notices \in [Kids -> Nat]
      BY <1>c
    <3>2. notices' = notices \/ notices' = [notices EXCEPT ![Chosen] = @ + 1]
      BY <1>3 DEF ParentNotices
    <3> HIDE DEF TypeOK
    <3> QED
      BY <3>1, <3>2, <2>1
  <2>3. notices' \in [Kids -> 0 .. Cardinality(Conns)]
    BY <1>3, <2>a, <1>b DEF ParentNotices, connVars
  <2> QED
    BY <1>3, <2>1, <2>2, <2>3 DEF ParentNotices, Handled, connVars, sigVars, procVars
<1>4. CASE ParentFindsNobody
  BY <1>4 DEF ParentFindsNobody, connVars, sigVars
<1>5. CASE ParentSignals
  <2>1. sigpipe' \in Pipes
    BY <1>5, <1>d, SignalledFits, EmptiedFits DEF ParentSignals, Killed, Unreaped
  <2>2. life' \in [Procs -> {"none", "starting", "running", "zombie", "gone"}]
    BY <1>5 DEF ParentSignals
  <2>3. m_stop' \in [Procs -> BOOLEAN]
    BY <1>5 DEF ParentSignals, NobodyLeft
  <2>4. dropped' \in BOOLEAN
    BY <1>5 DEF ParentSignals, SomeFull
  <2>5. doomed' \subseteq Kids
    BY <1>5 DEF ParentSignals, Killed, Unreaped
  <2>6. batch' \in [Procs -> SUBSET {"sig", "in"}]
    BY <1>5 DEF ParentSignals, Handled
  <2> QED
    BY <1>5, <1>e, <2>1, <2>2, <2>3, <2>4, <2>5, <2>6 DEF ParentSignals, connVars
<1>6. CASE ParentExits
  BY <1>6 DEF ParentExits, connVars, noticeVars, sigVars, procVars
<1>7. CASE Terminate
  <2>1. sigpipe' \in Pipes
    BY <1>7, <1>d, SignalledFits DEF Terminate
  <2> QED
    BY <1>7, <1>e, <2>1 DEF Terminate, SomeFull, procVars, noticeVars, connVars
<1>8. ASSUME NEW p \in Procs, Setup(p) PROVE TypeOK'
  BY <1>8 DEF Setup, AddFd, sigVars, connVars
<1>9. ASSUME NEW i \in Kids, Fork(i) PROVE TypeOK'
  BY <1>9 DEF Fork, connVars, noticeVars, sigVars, procVars
<1>10. ASSUME NEW i \in Kids, KidSignals(i) PROVE TypeOK'
  <2>1. sigpipe' \in Pipes
    BY <1>10, <1>d, EmptiedFits DEF KidSignals
  <2>2. m_stop' \in [Procs -> BOOLEAN]
    BY <1>10 DEF KidSignals
  <2> QED
    BY <1>10, <1>e, <2>1, <2>2 DEF KidSignals, Handled, connVars
<1>11. ASSUME NEW i \in Kids, KidAccepts(i) PROVE TypeOK'
  <2>0. conn' = conn \/ \E c \in Conns : conn' = [conn EXCEPT ![c] = "open"]
    BY <1>11 DEF KidAccepts, Backlog
  <2>1. conn' \in [Conns -> {"none", "backlog", "open", "closed"}]
    BY <2>0
  <2>2. notices' \in [Kids -> Nat]
    <3>1. \A k \in Nat : k > 0 => k - 1 \in Nat
      OBVIOUS
    <3>2. notices \in [Kids -> Nat]
      BY <1>c
    <3>3. notices' = [notices EXCEPT ![i] = IF @ > 0 THEN @ - 1 ELSE 0]
      BY <1>11 DEF KidAccepts
    <3> HIDE DEF TypeOK
    <3> QED
      BY <3>1, <3>2, <3>3
  <2>3. notices' \in [Kids -> 0 .. Cardinality(Conns)]
    BY <2>1, <2>2, <1>b
  <2>4. owner' \in [Conns -> Procs]
    BY <1>11 DEF KidAccepts, Backlog
  <2>5. connEdge' \cup connBatch' \subseteq {c \in Conns : conn'[c] = "open"}
    BY <1>11 DEF KidAccepts, Backlog
  <2> QED
    BY <1>11, <2>1, <2>3, <2>4, <2>5 DEF KidAccepts, Handled, sigVars, procVars
<1>12. ASSUME NEW i \in Kids, NEW c \in Conns, KidProcess(i, c) PROVE TypeOK'
  <2>1. connEdge' \cup connBatch' \subseteq {x \in Conns : conn'[x] = "open"}
    BY <1>12 DEF KidProcess, RemoveFd
  <2>2. running' \subseteq Conns
    BY <1>12 DEF KidProcess
  <2>3. conn' \in [Conns -> {"none", "backlog", "open", "closed"}]
    BY <1>12 DEF KidProcess, RemoveFd
  <2> QED
    BY <1>12, <2>1, <2>2, <2>3 DEF KidProcess, procVars, sigVars, noticeVars
<1>13. ASSUME NEW i \in Kids, Alive(i), Ends(i) PROVE TypeOK'
  <2>1. sigpipe' \in Pipes
    <3>1. [sigpipe EXCEPT ![i] = << >>] \in Pipes
      BY <1>d, EmptiedFits
    <3> HIDE DEF TypeOK
    <3> QED
      BY <1>13, <3>1, SignalledFits DEF Ends
  <2>2. connEdge' \cup connBatch' \subseteq {c \in Conns : conn'[c] = "open"}
    BY <1>13 DEF Ends, OpenIn
  <2>3. dropped' \in BOOLEAN /\ merged' \in BOOLEAN
    BY <1>13 DEF Ends, SomeFull
  <2>4. conn' \in [Conns -> {"none", "backlog", "open", "closed"}]
    BY <1>13 DEF Ends, OpenIn
  <2>5. unread' \in [Conns -> SUBSET {"part", "line", "fin"}]
    BY <1>13 DEF Ends, OpenIn
  <2>6. notices' \in [Kids -> 0 .. Cardinality(Conns)]
    BY <1>13, <1>a DEF Ends
  <2>7. running' \subseteq Conns /\ counter' \in Kids /\ owner' \in [Conns -> Procs]
    BY <1>13 DEF Ends
  <2>8. /\ life' \in [Procs -> {"none", "starting", "running", "zombie", "gone"}]
        /\ m_stop' \in [Procs -> BOOLEAN] /\ doomed' \subseteq Kids
        /\ edge' \in [Procs -> BOOLEAN] /\ batch' \in [Procs -> SUBSET {"sig", "in"}]
    BY <1>13 DEF Ends
  <2> QED
    BY <1>e, <2>1, <2>2, <2>3, <2>4, <2>5, <2>6, <2>7, <2>8
<1>14. ASSUME NEW c \in Conns, Connect(c) PROVE TypeOK'
  BY <1>14 DEF Connect, connVars, noticeVars, sigVars, procVars
<1>15. ASSUME NEW c \in Conns, ProgramEnds(c) PROVE TypeOK'
  <2>1. sigpipe' \in Pipes
    BY <1>15, <1>d, SignalledFits DEF ProgramEnds
  <2> QED
    BY <1>15, <1>e, <2>1 DEF ProgramEnds, SomeFull, procVars, noticeVars
<1>16. ASSUME NEW c \in Conns, NEW what \in {"part", "line", "fin"}, Send(c, what)
      PROVE  TypeOK'
  <2>1. unread' \in [Conns -> SUBSET {"part", "line", "fin"}]
    BY <1>16 DEF Send
  <2> QED
    BY <1>16, <2>1 DEF Send, procVars, sigVars, noticeVars
<1> HIDE DEF TypeOK
<1> QED
  BY <1>1, <1>2, <1>3, <1>4, <1>5, <1>6, <1>7, <1>8, <1>9, <1>10, <1>11, <1>12, <1>13, <1>14, <1>15, <1>16, StepKinds DEF ParentInv

-------------------------------------------------------------------------------
(* What is under way *)

LEMMA MergedStays == merged /\ [Next]_vars => merged'
  BY DEF Next, vars, noticeVars, ParentStep, KidStep, EpollWait, ParentNotices, ParentFindsNobody,
         ParentSignals, ParentExits, Terminate, Setup, AddFd, Fork, KidSignals, KidAccepts,
         KidProcess, KidExits, Crash, KilledEarly, Ends, Connect, ProgramEnds, Send

LEMMA FewTokens ==
  ASSUME NEW T \in SUBSET (Procs \X (1 .. Cardinality(Conns) + 2))
  PROVE  IsFiniteSet(T) /\ Cardinality(T) \in Nat
<1>1. IsFiniteSet(Procs)
  BY FS_Interval, ProcessPoolAssumption DEF Procs
<1>2. Cardinality(Conns) \in Nat
  BY FewConns
<1>3. IsFiniteSet(1 .. Cardinality(Conns) + 2)
  BY <1>2, FS_Interval
<1>4. IsFiniteSet(Procs \X (1 .. Cardinality(Conns) + 2))
  BY <1>1, <1>3, FS_Product
<1> QED
  BY <1>4, FS_Subset, FS_CardinalityType

LEMMA OneForAnother ==
  ASSUME NEW S, IsFiniteSet(S), NEW a \in S, NEW b, b \notin S
  PROVE  Cardinality((S \ {a}) \cup {b}) = Cardinality(S)
<1>1. Cardinality(S) \in Nat
  BY FS_CardinalityType
<1>2. IsFiniteSet(S \ {a}) /\ Cardinality(S \ {a}) = Cardinality(S) - 1
  BY FS_RemoveElement
<1>3. Cardinality((S \ {a}) \cup {b}) = Cardinality(S \ {a}) + 1
  BY <1>2, FS_AddElement
<1> QED
  BY <1>1, <1>2, <1>3

(* A notice stays in the pipe only while epoll has a report of it.         *)
LEMMA EpollHasAllStep ==
  TypeOK /\ ParentInv /\ EpollHasAll /\ ~merged' /\ [Next]_vars => EpollHasAll'
<1> SUFFICES ASSUME TypeOK, ParentInv, EpollHasAll, ~merged', [Next]_vars PROVE EpollHasAll'
  OBVIOUS
<1> USE KidsAndProcs DEF TypeOK, EpollHasAll, Edge, In, One
<1>a. Cardinality(Conns) \in Nat /\ \A i \in Kids : notices[i] \in Nat
  BY FewConns
<1>1. CASE UNCHANGED vars
  BY <1>1 DEF vars, connVars, noticeVars, sigVars, procVars
<1>2. ASSUME NEW p \in Procs, EpollWait(p) PROVE EpollHasAll'
  <2>1. life' = life /\ notices' = notices
    BY <1>2 DEF EpollWait, procVars
  <2>2. ASSUME NEW i \in Kids PROVE Edge(i)' + In(i)' = Edge(i) + In(i)
    <3>1. CASE i # p
      BY <1>2, <3>1 DEF EpollWait
    <3>2. CASE i = p
      <4>1. batch[i] = {} /\ ~edge'[i] /\ ("in" \in batch'[i] <=> edge[i])
        BY <1>2, <3>2 DEF EpollWait
      <4> QED
        BY <4>1
    <3> QED
      BY <3>1, <3>2
  <2> HIDE DEF TypeOK, Edge, In
  <2> QED
    BY <2>1, <2>2
<1>3. CASE ParentNotices
  <2>1. Chosen \in Kids /\ life' = life
    BY <1>3, ChosenIsUnreaped DEF ParentNotices, Unreaped, procVars
  <2>2. \/ notices' = notices /\ edge' = edge
        \/ /\ notices' = [notices EXCEPT ![Chosen] = @ + 1]
           /\ edge' = [edge EXCEPT ![Chosen] = (life[Chosen] = "running")]
           /\ Alive(Chosen) /\ ~edge[Chosen]
    BY <1>3 DEF ParentNotices
  <2>3. \A i \in Kids : batch'[i] = batch[i]
    BY <1>3 DEF ParentNotices, Handled
  <2>4. ASSUME NEW i \in Kids PROVE life[i] = "starting" \/ notices'[i] <= Edge(i)' + In(i)'
    <3>1. CASE i = Chosen /\ notices' # notices /\ life[i] # "starting"
      <4>1. notices'[i] = notices[i] + 1 /\ edge'[i] /\ ~edge[i]
        BY <2>2, <2>1, <3>1 DEF Alive
      <4>2. notices[i] <= In(i) /\ In(i)' = In(i)
        BY <2>3, <3>1, <4>1
      <4> QED
        BY <4>1, <4>2, <1>a
    <3>2. CASE ~(i = Chosen /\ notices' # notices)
      BY <2>1, <2>2, <2>3, <3>2
    <3> QED
      BY <3>1, <3>2
  <2> QED
    BY <2>1, <2>4
<1>4. CASE ParentFindsNobody
  BY <1>4 DEF ParentFindsNobody
<1>5. CASE ParentSignals
  BY <1>5 DEF ParentSignals, Handled, Unreaped
<1>6. CASE ParentExits
  BY <1>6 DEF ParentExits, connVars, noticeVars, sigVars, procVars
<1>7. CASE Terminate
  BY <1>7 DEF Terminate, connVars, noticeVars, sigVars, procVars
<1>8. ASSUME NEW p \in Procs, Setup(p) PROVE EpollHasAll'
  <2>1. notices' = notices /\ batch' = batch /\ \A i \in Kids \ {p} : life'[i] = life[i]
    BY <1>8 DEF Setup
  <2>2. CASE p = 0
    BY <1>8, <2>1, <2>2 DEF Setup, AddFd
  <2>3. CASE p # 0
    <3>1. edge'[p] = (notices[p] > 0) /\ (notices[p] > 1 => merged')
      BY <1>8, <2>3 DEF Setup, AddFd
    <3>2. notices'[p] <= Edge(p)' + In(p)'
      <4>1. p \in Kids /\ notices[p] \in Nat /\ notices'[p] = notices[p]
        BY <1>a, <2>1, <2>3
      <4>2. notices[p] <= 1
        BY <3>1, <4>1
      <4>3. notices[p] > 0 => Edge(p)' = 1
        BY <3>1
      <4>4. Edge(p)' \in {0, 1} /\ In(p)' \in {0, 1}
        OBVIOUS
      <4> HIDE DEF TypeOK, EpollHasAll, Edge, In, One
      <4> QED
        BY <4>1, <4>2, <4>3, <4>4
    <3>3. \A i \in Kids \ {p} : edge'[i] = edge[i]
      BY <1>8 DEF Setup, AddFd
    <3> QED
      BY <2>1, <3>2, <3>3
  <2> QED
    BY <2>2, <2>3
<1>9. ASSUME NEW i \in Kids, Fork(i) PROVE EpollHasAll'
  BY <1>9 DEF Fork, connVars, noticeVars, sigVars, procVars
<1>10. ASSUME NEW i \in Kids, KidSignals(i) PROVE EpollHasAll'
  BY <1>10 DEF KidSignals, Handled
<1>11. ASSUME NEW i \in Kids, KidAccepts(i) PROVE EpollHasAll'
  BY <1>11, <1>a DEF KidAccepts, Handled, procVars
<1>12. ASSUME NEW i \in Kids, NEW c \in Conns, KidProcess(i, c) PROVE EpollHasAll'
  BY <1>12 DEF KidProcess, connVars, noticeVars, sigVars, procVars
<1>13. ASSUME NEW i \in Kids, Alive(i), Ends(i) PROVE EpollHasAll'
  BY <1>13, <1>a DEF Ends
<1>14. ASSUME NEW c \in Conns, Connect(c) PROVE EpollHasAll'
  BY <1>14 DEF Connect, connVars, noticeVars, sigVars, procVars
<1>15. ASSUME NEW c \in Conns, ProgramEnds(c) PROVE EpollHasAll'
  BY <1>15 DEF ProgramEnds, connVars, noticeVars, sigVars, procVars
<1>16. ASSUME NEW c \in Conns, NEW what \in {"part", "line", "fin"}, Send(c, what)
      PROVE  EpollHasAll'
  BY <1>16 DEF Send, connVars, noticeVars, sigVars, procVars
<1> QED
  BY <1>1, <1>2, <1>3, <1>4, <1>5, <1>6, <1>7, <1>8, <1>9, <1>10, <1>11, <1>12, <1>13, <1>14, <1>15, <1>16, StepKinds DEF ParentInv

(* What is under way is enough for every waiting connection.               *)
LEMMA BacklogCoveredStep ==
  TypeOK /\ TypeOK' /\ ParentInv /\ BacklogCovered /\ ~merged /\ ~merged' /\ [Next]_vars
    => BacklogCovered'
<1> SUFFICES ASSUME TypeOK, TypeOK', ParentInv, BacklogCovered, ~merged, ~merged', [Next]_vars
             PROVE  BacklogCovered'
  OBVIOUS
<1> DEFINE Place == Procs \X (1 .. Cardinality(Conns) + 2)
           Live(x) == IF x[1] = 0 THEN (x[2] = 1 /\ edge[0]) \/ (x[2] = 2 /\ "in" \in batch[0])
                      ELSE x[2] <= notices[x[1]]
<1> USE KidsAndProcs
<1>a. /\ IsFiniteSet(Tokens) /\ Cardinality(Tokens) \in Nat
      /\ IsFiniteSet(Tokens') /\ Cardinality(Tokens') \in Nat
  BY FewTokens DEF Tokens
<1>b. /\ IsFiniteSet(Backlog) /\ Cardinality(Backlog) \in Nat
      /\ IsFiniteSet(Backlog') /\ Cardinality(Backlog') \in Nat
  BY FewConns DEF Backlog
<1>c. Cardinality(Conns) \in Nat /\ \A i \in Kids : notices[i] \in 0 .. Cardinality(Conns)
  BY FewConns DEF TypeOK
<1>d. ASSUME edge'[0] = edge[0], "in" \in batch'[0] <=> "in" \in batch[0],
             \A i \in Kids : notices'[i] = notices[i]
      PROVE  Tokens' = Tokens
  BY <1>d DEF Tokens
<1>e. ASSUME \A c \in Conns : conn'[c] = "backlog" <=> conn[c] = "backlog"
      PROVE  Backlog' = Backlog
  BY <1>e DEF Backlog
<1>f. ASSUME Tokens' = Tokens, Backlog' = Backlog, life'[0] = life[0], m_stop'[0] = m_stop[0]
      PROVE  BacklogCovered'
  BY <1>f DEF BacklogCovered
<1>1. CASE UNCHANGED vars
  BY <1>1, <1>d, <1>e, <1>f DEF vars, connVars, noticeVars, procVars
<1>2. ASSUME NEW p \in Procs, EpollWait(p) PROVE BacklogCovered'
  <2>1. Backlog' = Backlog /\ life' = life /\ m_stop' = m_stop /\ notices' = notices
    BY <1>2, <1>e DEF EpollWait, procVars
  <2>2. CASE p # 0 \/ ~edge[0]
    <3>1. edge'[0] = edge[0] /\ ("in" \in batch'[0] <=> "in" \in batch[0])
      BY <1>2, <2>2 DEF EpollWait, TypeOK
    <3> QED
      BY <2>1, <3>1, <1>d, <1>f
  <2>3. CASE p = 0 /\ edge[0]
    <3>1. ~edge'[0] /\ "in" \in batch'[0] /\ "in" \notin batch[0]
      BY <1>2, <2>3 DEF EpollWait, TypeOK
    <3>2. Tokens' = (Tokens \ {<<0, 1>>}) \cup {<<0, 2>>}
      BY <2>1, <2>3, <3>1, <1>c DEF Tokens
    <3>3. <<0, 1>> \in Tokens /\ <<0, 2>> \notin Tokens
      BY <2>3, <3>1, <1>c DEF Tokens
    <3>4. Cardinality(Tokens') = Cardinality(Tokens)
      BY <1>a, <3>2, <3>3, OneForAnother
    <3> QED
      BY <2>1, <3>4 DEF BacklogCovered
  <2> QED
    BY <2>2, <2>3
<1>3. CASE ParentNotices
  <2>1. Chosen \in Kids
    BY <1>3, ChosenIsUnreaped DEF ParentNotices, Unreaped, TypeOK
  <2>2. notices' = [notices EXCEPT ![Chosen] = @ + 1] /\ edge'[0] = edge[0]
    BY <1>3, <2>1 DEF ParentNotices, TypeOK
  <2>3. "in" \in batch[0] /\ "in" \notin batch'[0]
    BY <1>3 DEF ParentNotices, Handled, TypeOK
  <2>4. Backlog' = Backlog /\ life' = life /\ m_stop' = m_stop
    BY <1>3, <1>e DEF ParentNotices, connVars, procVars
  <2> DEFINE new == <<Chosen, notices[Chosen] + 1>>
  <2>5. \A i \in Kids : notices'[i] = IF i = Chosen THEN notices[i] + 1 ELSE notices[i]
    BY <2>1, <2>2 DEF TypeOK
  <2>6. Tokens' = (Tokens \ {<<0, 2>>}) \cup {new}
    <3>1. new \in Place
      BY <1>c, <2>1
    <3>2. ASSUME NEW x \in Place PROVE x \in Tokens' <=> x \in (Tokens \ {<<0, 2>>}) \cup {new}
      <4>1. CASE x[1] = 0
        BY <4>1, <2>1, <2>2, <2>3 DEF Tokens
      <4>2. CASE x[1] # 0
        <5>1. x[1] \in Kids /\ x[2] \in Nat /\ x = <<x[1], x[2]>>
          BY <4>2
        <5>2. notices[x[1]] \in Nat
          BY <5>1, <1>c
        <5> QED
          BY <4>2, <5>1, <5>2, <2>5 DEF Tokens
      <4> QED
        BY <4>1, <4>2
    <3> QED
      BY <3>1, <3>2 DEF Tokens
  <2>7. <<0, 2>> \in Tokens /\ new \notin Tokens
    BY <2>1, <2>3, <1>c DEF Tokens
  <2>8. Cardinality(Tokens') = Cardinality(Tokens)
    BY <1>a, <2>6, <2>7, OneForAnother
  <2> QED
    BY <2>4, <2>8 DEF BacklogCovered
<1>4. CASE ParentFindsNobody
  BY <1>4 DEF ParentFindsNobody, BacklogCovered, TypeOK
<1>5. CASE ParentSignals
  <2>1. Tokens' = Tokens
    BY <1>5, <1>d DEF ParentSignals, Handled, TypeOK
  <2>2. Backlog' = Backlog
    BY <1>5, <1>e DEF ParentSignals, connVars
  <2>3. life'[0] = life[0] /\ (m_stop[0] => m_stop'[0])
    BY <1>5 DEF ParentSignals, ParentInv, NobodyLeft, Unreaped, TypeOK
  <2> QED
    BY <2>1, <2>2, <2>3 DEF BacklogCovered
<1>6. CASE ParentExits
  BY <1>6 DEF ParentExits, BacklogCovered, TypeOK
<1>7. CASE Terminate
  BY <1>7, <1>d, <1>e, <1>f DEF Terminate, connVars, noticeVars, procVars
<1>8. ASSUME NEW p \in Procs, Setup(p) PROVE BacklogCovered'
  <2>1. Backlog' = Backlog /\ m_stop' = m_stop /\ batch' = batch /\ notices' = notices
    BY <1>8, <1>e DEF Setup, connVars
  <2>2. CASE p # 0
    <3>1. edge'[0] = edge[0] /\ life'[0] = life[0]
      BY <1>8, <2>2 DEF Setup, AddFd, TypeOK
    <3> QED
      BY <2>1, <3>1, <1>d, <1>f
  <2>3. CASE p = 0
    <3>a. /\ edge' = [edge EXCEPT ![0] = Cardinality(Backlog) > 0]
          /\ merged' = (merged \/ Cardinality(Backlog) > 1)
      BY <1>8, <2>3 DEF Setup, AddFd
    <3>1. edge'[0] = (Cardinality(Backlog) > 0) /\ Cardinality(Backlog) <= 1
      <4>1. edge'[0] = (Cardinality(Backlog) > 0)
        BY <3>a DEF TypeOK
      <4>2. ~(Cardinality(Backlog) > 1)
        BY <3>a
      <4> QED
        BY <4>1, <4>2, <1>b
    <3>2. edge'[0] => <<0, 1>> \in Tokens'
      BY <1>c DEF Tokens
    <3>3. edge'[0] => Cardinality(Tokens') >= 1
      BY <3>2, <1>a, FS_EmptySet
    <3> QED
      <4>1. CASE edge'[0]
        <5>1. Cardinality(Backlog') <= Cardinality(Tokens')
          BY <4>1, <1>a, <1>b, <2>1, <3>1, <3>3
        <5> QED
          BY <5>1 DEF BacklogCovered
      <4>2. CASE ~edge'[0]
        <5>0. ~(Cardinality(Backlog) > 0)
          BY <4>2, <3>1
        <5>1. Cardinality(Backlog') <= Cardinality(Tokens')
          BY <5>0, <1>a, <1>b, <2>1
        <5> QED
          BY <5>1 DEF BacklogCovered
      <4> QED
        BY <4>1, <4>2
  <2> QED
    BY <2>2, <2>3
<1>9. ASSUME NEW i \in Kids, Fork(i) PROVE BacklogCovered'
  BY <1>9, <1>d, <1>e, <1>f DEF Fork, connVars, noticeVars, TypeOK
<1>10. ASSUME NEW i \in Kids, KidSignals(i) PROVE BacklogCovered'
  <2>1. Tokens' = Tokens
    BY <1>10, <1>d DEF KidSignals, Handled, TypeOK
  <2>2. Backlog' = Backlog
    BY <1>10, <1>e DEF KidSignals, connVars
  <2>3. life'[0] = life[0] /\ m_stop'[0] = m_stop[0]
    BY <1>10 DEF KidSignals, TypeOK
  <2> QED
    BY <2>1, <2>2, <2>3, <1>f
<1>11. ASSUME NEW i \in Kids, KidAccepts(i) PROVE BacklogCovered'
  <2>1. edge' = edge /\ batch'[0] = batch[0] /\ life' = life /\ m_stop' = m_stop
    BY <1>11 DEF KidAccepts, Handled, procVars, TypeOK
  <2>2. \A j \in Kids : notices'[j] = IF j = i /\ notices[j] > 0 THEN notices[j] - 1 ELSE notices[j]
    BY <1>11, <1>c DEF KidAccepts, TypeOK
  <2>3. Cardinality(Tokens') >= Cardinality(Tokens) - 1
    <3>1. CASE notices[i] = 0
      BY <3>1, <2>1, <2>2, <1>a, <1>d
    <3>2. CASE notices[i] > 0
      <4>1. <<i, notices[i]>> \in Tokens
        BY <3>2, <1>c DEF Tokens
      <4>2. Tokens' = Tokens \ {<<i, notices[i]>>}
        <5>1. ASSUME NEW x \in Place PROVE x \in Tokens' <=> x \in Tokens \ {<<i, notices[i]>>}
          <6>1. CASE x[1] = 0
            BY <6>1, <2>1 DEF Tokens
          <6>2. CASE x[1] # 0
            <7>1. x[1] \in Kids /\ x[2] \in Nat /\ x = <<x[1], x[2]>>
              BY <6>2
            <7>2. notices[x[1]] \in Nat
              BY <7>1, <1>c
            <7> QED
              BY <3>2, <6>2, <7>1, <7>2, <2>2 DEF Tokens
          <6> QED
            BY <6>1, <6>2
        <5> QED
          BY <5>1 DEF Tokens
      <4> QED
        BY <4>1, <4>2, <1>a, FS_RemoveElement
    <3> QED
      BY <3>1, <3>2, <1>c
  <2>4. CASE Backlog = {} /\ conn' = conn
    <3>1. Backlog' = {}
      BY <2>4, <1>e
    <3> QED
      BY <3>1, <1>a, FS_EmptySet DEF BacklogCovered
  <2>5. CASE \E c \in Backlog : conn' = [conn EXCEPT ![c] = "open"]
    <3>1. PICK c \in Backlog : conn' = [conn EXCEPT ![c] = "open"]
      BY <2>5
    <3>2. Backlog' = Backlog \ {c}
      BY <3>1 DEF Backlog, TypeOK
    <3>3. Cardinality(Backlog') = Cardinality(Backlog) - 1
      BY <3>2, <1>b, FS_RemoveElement
    <3> QED
      BY <2>1, <2>3, <3>3, <1>a, <1>b DEF BacklogCovered
  <2> QED
    BY <1>11, <2>4, <2>5 DEF KidAccepts
<1>12. ASSUME NEW i \in Kids, NEW c \in Conns, KidProcess(i, c) PROVE BacklogCovered'
  <2>1. Backlog' = Backlog
    BY <1>12, <1>e DEF KidProcess, RemoveFd, TypeOK
  <2> QED
    BY <1>12, <2>1, <1>d, <1>f DEF KidProcess, noticeVars, procVars
<1>13. ASSUME NEW i \in Kids, Alive(i), Ends(i) PROVE BacklogCovered'
  <2>1. Backlog' = Backlog
    BY <1>13, <1>e DEF Ends, OpenIn
  <2>2. notices[i] = 0
    <3>1. notices[i] > 0 => merged'
      BY <1>13 DEF Ends
    <3> QED
      BY <3>1, <1>c
  <2>3. Tokens' = Tokens
    <3>1. \A j \in Kids : notices'[j] = notices[j]
      BY <1>13, <2>2 DEF Ends, TypeOK
    <3>2. edge'[0] = edge[0] /\ batch'[0] = batch[0]
      BY <1>13 DEF Ends, TypeOK
    <3> QED
      BY <3>1, <3>2, <1>d
  <2>4. life'[0] = life[0] /\ m_stop'[0] = m_stop[0]
    BY <1>13 DEF Ends, TypeOK
  <2> QED
    BY <2>1, <2>3, <2>4, <1>f
<1>14. ASSUME NEW c \in Conns, Connect(c) PROVE BacklogCovered'
  <2>1. Backlog' = Backlog \cup {c} /\ c \notin Backlog
    BY <1>14 DEF Connect, Backlog, TypeOK
  <2>2. Cardinality(Backlog') = Cardinality(Backlog) + 1
    BY <2>1, <1>b, FS_AddElement
  <2>3. notices' = notices /\ batch' = batch /\ life' = life /\ m_stop' = m_stop
    BY <1>14 DEF Connect, procVars
  <2>4. ~edge[0] /\ edge'[0] = (life[0] = "running")
    BY <1>14 DEF Connect, TypeOK
  <2>5. CASE life[0] = "running"
    <3>1. Tokens' = Tokens \cup {<<0, 1>>} /\ <<0, 1>> \notin Tokens
      <4>1. <<0, 1>> \in Place /\ \A x \in Place : x = <<x[1], x[2]>>
        BY <1>c
      <4>2. Live(<<0, 1>>)' /\ ~Live(<<0, 1>>)
        BY <2>4, <2>5
      <4>3. ASSUME NEW x \in Place, x # <<0, 1>> PROVE Live(x)' <=> Live(x)
        BY <2>3, <2>4, <4>1, <4>3
      <4>4. Tokens = {x \in Place : Live(x)} /\ Tokens' = {x \in Place : Live(x)'}
        BY DEF Tokens
      <4> HIDE DEF Live, Place
      <4> QED
        BY <4>1, <4>2, <4>3, <4>4
    <3>2. Cardinality(Tokens') = Cardinality(Tokens) + 1
      BY <3>1, <1>a, FS_AddElement
    <3> QED
      BY <2>2, <2>3, <3>2, <1>a, <1>b DEF BacklogCovered
  <2> QED
    BY <2>3, <2>5 DEF BacklogCovered
<1>15. ASSUME NEW c \in Conns, ProgramEnds(c) PROVE BacklogCovered'
  BY <1>15, <1>d, <1>e, <1>f DEF ProgramEnds, noticeVars, procVars
<1>16. ASSUME NEW c \in Conns, NEW what \in {"part", "line", "fin"}, Send(c, what)
      PROVE  BacklogCovered'
  BY <1>16, <1>d, <1>e, <1>f DEF Send, noticeVars, procVars
<1> QED
  BY <1>1, <1>2, <1>3, <1>4, <1>5, <1>6, <1>7, <1>8, <1>9, <1>10, <1>11, <1>12, <1>13, <1>14, <1>15, <1>16, StepKinds DEF ParentInv

-------------------------------------------------------------------------------
LEMMA PoolInit == Init => PoolInv
<1> SUFFICES ASSUME Init PROVE PoolInv
  OBVIOUS
<1> USE KidsAndProcs DEF Init
<1>1. Cardinality(Conns) \in Nat
  BY FewConns
<1>2. << >> \in Seq({"CHLD", "TERM"}) /\ Len(<< >>) = 0
  OBVIOUS
<1>3. TypeOK
  <2>1. /\ sigpipe \in [Procs -> Seq({"CHLD", "TERM"})]
        /\ \A p \in Procs : Len(sigpipe[p]) <= PipeSize[p]
    BY <1>2, ProcessPoolAssumption
  <2>2. notices \in [Kids -> 0 .. Cardinality(Conns)] /\ counter \in Kids
    BY <1>1
  <2>3. owner \in [Conns -> Procs] /\ conn \in [Conns -> {"none", "backlog", "open", "closed"}]
    OBVIOUS
  <2> QED
    BY <2>1, <2>2, <2>3 DEF TypeOK
<1>4. ParentInv
  BY DEF ParentInv
<1>5. NoticesBounded
  <2>1. Cardinality(Arrived) \in Nat
    BY FewConns DEF Arrived
  <2>2. Edge(0) = 0 /\ In(0) = 0 /\ \A i \in Kids : notices[i] = 0
    BY DEF Edge, In, One
  <2> QED
    BY <2>1, <2>2 DEF NoticesBounded
<1>6. EpollHasAll
  <2>1. \A i \in Kids : Edge(i) = 0 /\ In(i) = 0 /\ notices[i] = 0
    BY DEF Edge, In, One
  <2> QED
    BY <2>1 DEF EpollHasAll
<1>7. BacklogCovered
  BY DEF BacklogCovered
<1> QED
  BY <1>3, <1>4, <1>5, <1>6, <1>7 DEF PoolInv, NothingMerged

LEMMA PoolStep == PoolInv /\ [Next]_vars => PoolInv'
<1> SUFFICES ASSUME PoolInv, [Next]_vars PROVE PoolInv'
  OBVIOUS
<1>1. ParentInv' /\ NoticesBounded'
  BY ParentInvStep, NoticesStep DEF PoolInv
<1>2. TypeOK'
  BY <1>1, TypeStep DEF PoolInv
<1>3. merged' \/ NothingMerged'
  BY <1>2, MergedStays, EpollHasAllStep, BacklogCoveredStep DEF PoolInv, NothingMerged
<1> QED
  BY <1>1, <1>2, <1>3 DEF PoolInv

LEMMA PoolInvariant == Spec => []PoolInv
  BY PoolInit, PoolStep, PTL DEF Spec

(* The variables have their types: a signal pipe never holds more than it  *)
(* can, and no kid has more notices than clients have connected.           *)
THEOREM PoolTyped == Spec => []TypeOK
<1>1. PoolInv => TypeOK
  BY DEF PoolInv
<1> QED
  BY <1>1, PoolInvariant, PTL

(* run_parent returns only when every kid has ended and been waited for,   *)
(* whatever crashes and in whatever order signals arrive.                  *)
THEOREM PoolParentGoesLast == Spec => []ParentGoesLast
<1>1. PoolInv => ParentGoesLast
  BY DEF PoolInv, ParentInv, ParentGoesLast
<1> QED
  BY <1>1, PoolInvariant, PTL

(* A connection waits with nothing under way to accept it only if an edge  *)
(* or a report stood for two, or a notice was lost with its kid: the two   *)
(* places where the pool can forget one are the only ones.                 *)
THEOREM PoolStrandedOnlyByMerging == Spec => []StrandedOnlyByMerging
<1>1. PoolInv => StrandedOnlyByMerging
  <2> SUFFICES ASSUME PoolInv, Backlog # {}, life[0] = "running", ~m_stop[0], ~merged,
                      ~edge[0], "in" \notin batch[0]
               PROVE  \E i \in Kids : \/ edge[i] \/ "in" \in batch[i]
                                      \/ life[i] = "starting" /\ notices[i] > 0
    BY DEF StrandedOnlyByMerging
  <2>1. Cardinality(Backlog) <= Cardinality(Tokens)
    BY DEF PoolInv, NothingMerged, BacklogCovered
  <2>2. Cardinality(Backlog) \in Nat /\ Cardinality(Backlog) # 0
    BY FewConns, FS_EmptySet DEF Backlog
  <2>3. Tokens # {}
    BY <2>1, <2>2, FS_EmptySet
  <2>4. PICK x \in Tokens : TRUE
    BY <2>3
  <2>5. x[1] \in Kids /\ x[2] \in Nat \ {0} /\ x[2] <= notices[x[1]]
    <3>1. Cardinality(Conns) \in Nat
      BY FewConns
    <3> QED
      BY <2>4, <3>1, KidsAndProcs DEF Tokens
  <2>6. notices[x[1]] \in Nat
    <3>1. Cardinality(Conns) \in Nat
      BY FewConns
    <3> QED
      BY <2>5, <3>1 DEF PoolInv, TypeOK
  <2>7. life[x[1]] = "starting" \/ notices[x[1]] <= Edge(x[1]) + In(x[1])
    BY <2>5 DEF PoolInv, NothingMerged, EpollHasAll
  <2>8. Edge(x[1]) + In(x[1]) > 0 => edge[x[1]] \/ "in" \in batch[x[1]]
    BY DEF Edge, In, One
  <2>9. Edge(x[1]) \in {0, 1} /\ In(x[1]) \in {0, 1}
    BY DEF Edge, In, One
  <2> QED
    BY <2>5, <2>6, <2>7, <2>8, <2>9
<1> QED
  BY <1>1, PoolInvariant, PTL
===============================================================================
