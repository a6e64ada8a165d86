---------------------------- MODULE ConnectionsProofs ----------------------------
(***************************************************************************)
(* The response writer of http_conn, the chat room and the one-shot server, *)
(* for any sizes of files and pages and any numbers of users and threads.  *)
(***************************************************************************)
EXTENDS HttpWrite, Chatroom, OneShotServer,
        FiniteSetTheorems, SequenceTheorems, WellFoundedInduction, TLAPS

(* What the pieces of a response are as sequences.                         *)
Units == {"head", "form", "page", "file"} \X Nat

LEMMA Pieces ==
  ASSUME NEW name \in {"head", "form", "page", "file"}, NEW n \in Nat
  PROVE  Part(name, n) \in Seq(Units) /\ Len(Part(name, n)) = n
<1>1. Part(name, n) \in [1 .. n -> Units]
  BY DEF Part, Units
<1>2. Part(name, n) \in Seq(Units)
  BY <1>1
<1>3. Len(Part(name, n)) = n
  BY <1>2 DEF Part
<1> QED
  BY <1>2, <1>3

(* What m_write_buf holds after process_write, if it was empty before.     *)
LEMMA Written ==
  ASSUME m_write_buf = << >>, NEW c \in Codes, NEW size \in FileSizes
  PROVE  /\ WriteBuf(c, size) \in Seq(Units)
         /\ Len(WriteBuf(c, size)) \in 0 .. HeadUnits + FormUnits + PageUnits
         /\ WriteBuf(c, size) =
              IF c # "FILE_REQUEST" THEN Part("head", HeadUnits) \o Part("form", FormUnits)
              ELSE IF size = 0 THEN Part("head", HeadUnits) \o Part("page", PageUnits)
              ELSE Part("head", HeadUnits)
<1> DEFINE head == Part("head", HeadUnits)
           form == Part("form", FormUnits)
           page == Part("page", PageUnits)
<1>1. /\ head \in Seq(Units) /\ Len(head) = HeadUnits /\ HeadUnits \in Nat
      /\ form \in Seq(Units) /\ Len(form) = FormUnits /\ FormUnits \in Nat
      /\ page \in Seq(Units) /\ Len(page) = PageUnits /\ PageUnits \in Nat
  BY Pieces, WriteAssumption
<1>2. WriteBuf(c, size) = << >> \o head \o
        (IF c # "FILE_REQUEST" THEN form ELSE IF size = 0 THEN page ELSE << >>)
  BY DEF WriteBuf, ErrorBody
<1> HIDE DEF head, form, page
<1>3. << >> \o head = head /\ head \o << >> = head
  BY <1>1
<1>4. /\ head \o form \in Seq(Units) /\ Len(head \o form) = HeadUnits + FormUnits
      /\ head \o page \in Seq(Units) /\ Len(head \o page) = HeadUnits + PageUnits
  BY <1>1
<1> QED
  BY <1>1, <1>2, <1>3, <1>4 DEF head, form, page

-------------------------------------------------------------------------------
(* Between requests the buffer is empty.                                   *)
WriteInv == MappingReleased /\ (phase = "idle" => m_write_buf = << >>)

LEMMA WriteInit == Init => WriteInv
<1> SUFFICES ASSUME Init PROVE WriteInv
  OBVIOUS
<1>1. 0 \in 0 .. HeadUnits + FormUnits + PageUnits
  BY WriteAssumption
<1>2. m_write_idx = 0 /\ Len(m_iv) = 0
  BY DEF Init, m_write_idx
<1>3. TypeOK
  <2>1. m_write_idx \in 0 .. HeadUnits + FormUnits + PageUnits /\ Len(m_iv) \in 0 .. 2
    BY <1>1, <1>2
  <2>2. /\ m_linger \in BOOLEAN
        /\ m_file_address \in FileSizes \cup {NotMapped} /\ m_file_stat \in FileSizes
    BY DEF Init
  <2>3. bytes_to_send \in Int /\ bytes_have_sent \in Nat
    BY DEF Init
  <2>4. phase \in {"idle", "armed", "write", "closed"} /\ code \in Codes
          /\ report \in {"none", "sent", "failed"}
    BY DEF Init, Codes
  <2> QED
    BY <2>1, <2>2, <2>3, <2>4 DEF TypeOK
<1> QED
  BY <1>3 DEF Init, WriteInv, MappingReleased

LEMMA WriteStep == WriteInv /\ [Next]_vars => WriteInv'
<1> SUFFICES ASSUME WriteInv, [Next]_vars PROVE WriteInv'
  OBVIOUS
<1> USE DEF WriteInv, MappingReleased, TypeOK
<1>n. NotMapped \notin FileSizes
  BY WriteAssumption DEF NotMapped
<1>1. ASSUME NEW c \in Codes, NEW size \in FileSizes, NEW linger \in BOOLEAN,
             Process(c, size, linger)
      PROVE  WriteInv'
  <2>1. m_write_buf = << >> /\ m_file_address = NotMapped
    BY <1>1 DEF Process
  <2>2. Len(WriteBuf(c, size)) \in 0 .. HeadUnits + FormUnits + PageUnits
    BY <2>1, Written
  <2>3. m_write_idx' \in 0 .. HeadUnits + FormUnits + PageUnits
    BY <1>1, <2>2 DEF Process, m_write_idx
  <2>4. Len(m_iv') \in 0 .. 2
    BY <1>1 DEF Process, Iovec
  <2>5. /\ m_file_stat' \in FileSizes /\ m_file_address' \in FileSizes \cup {NotMapped}
        /\ m_file_address' # NotMapped => m_file_address' = m_file_stat'
    BY <1>1, <2>1 DEF Process, DoRequest
  <2>6. phase' \in {"armed", "closed"} /\ report' = "none" /\ code' = c /\ m_linger' = linger
    BY <1>1 DEF Process
  <2>7. UNCHANGED <<bytes_to_send, bytes_have_sent>>
    BY <1>1 DEF Process
  <2> QED
    BY <2>3, <2>4, <2>5, <2>6, <2>7
<1>2. CASE WriteBegin
  BY <1>2 DEF WriteBegin, m_write_idx
<1>3. ASSUME NEW n \in 1 .. MaxUnits, Writev(n) PROVE WriteInv'
  <2>1. n \in Nat
    BY <1>3
  <2>2. bytes_to_send' \in Int /\ bytes_have_sent' \in Nat
    BY <1>3, <2>1 DEF Writev
  <2>3. 0 \in 0 .. HeadUnits + FormUnits + PageUnits
    BY WriteAssumption
  <2>4. CASE Finished(n)
    BY <1>3, <2>2, <2>3, <2>4 DEF Writev, Unmap, InitConn, m_write_idx
  <2>5. CASE ~Finished(n)
    BY <1>3, <2>2, <2>5 DEF Writev, m_write_idx
  <2> QED
    BY <2>4, <2>5
<1>4. CASE WritevAgain
  BY <1>4 DEF WritevAgain, m_write_idx
<1>5. CASE WritevFails
  BY <1>5 DEF WritevFails, Unmap, m_write_idx
<1>6. CASE UNCHANGED vars
  BY <1>6 DEF vars, m_write_idx
<1> QED
  BY <1>1, <1>2, <1>3, <1>4, <1>5, <1>6 DEF Next

LEMMA WriteInvariant == Spec => []WriteInv
<1>1. Init => WriteInv
  BY WriteInit
<1>2. WriteInv /\ [Next]_vars => WriteInv'
  BY WriteStep
<1> QED
  BY <1>1, <1>2, PTL DEF Spec

(* do_request's mapping is released at the end of its response, whether    *)
(* that was sent, cut short or failed, and with the length it was made     *)
(* with: unmap() passes m_file_stat, which each request overwrites.        *)
THEOREM WriteMappingReleased == Spec => []MappingReleased
<1>1. WriteInv => MappingReleased
  BY DEF WriteInv
<1> QED
  BY <1>1, WriteInvariant, PTL

-------------------------------------------------------------------------------
(* While a response is armed or being written the iovec is all of it and   *)
(* nothing is on the wire; bytes_to_send counts less than what is written. *)
SentInv ==
  /\ phase \in {"armed", "write"} =>
       wire = << >> /\ report = "none" /\ Gathered = Response
         /\ Response \in Seq(Units) /\ m_write_idx <= Len(Response)
  /\ phase = "write" => bytes_to_send = m_write_idx /\ bytes_have_sent = 0
  /\ report = "sent" => phase \in {"idle", "closed"} /\ wire = Response

LEMMA SentStep == ~PartialWrites /\ WriteInv /\ SentInv /\ [Next]_vars => SentInv'
<1> SUFFICES ASSUME ~PartialWrites, WriteInv, SentInv, [Next]_vars PROVE SentInv'
  OBVIOUS
<1>1. ASSUME NEW c \in Codes, NEW size \in FileSizes, NEW linger \in BOOLEAN,
             Process(c, size, linger)
      PROVE  SentInv'
  <2>1. m_write_buf = << >>
    BY <1>1 DEF Process, WriteInv
  <2>2. phase' \in {"armed", "closed"} /\ report' = "none" /\ wire' = << >> /\ code' = c
    BY <1>1 DEF Process
  <2>3. c = "FILE_REQUEST" => m_file_stat' = size
    BY <1>1 DEF Process, DoRequest
  <2>4. ASSUME phase' = "armed"
        PROVE  Gathered' = Response' /\ Response' \in Seq(Units) /\ m_write_idx' <= Len(Response')
    <3>1. m_iv' = Iovec(c, size) /\ m_write_buf' = WriteBuf(c, size) /\ ~(c = "FILE_REQUEST" /\ size = 0)
      BY <1>1, <2>4 DEF Process, ProcessWriteResult
    <3>2. /\ WriteBuf(c, size) \in Seq(Units) /\ Len(WriteBuf(c, size)) \in Nat
      BY <2>1, Written
    <3>3. CASE c = "FILE_REQUEST"
      <4> DEFINE file == Part("file", size)
      <4>1. size # 0 /\ size \in Nat
        BY <3>1, <3>3, WriteAssumption
      <4>2. file \in Seq(Units) /\ Len(file) = size
        BY <4>1, Pieces
      <4>3. m_iv' = <<WriteBuf(c, size), file>>
        BY <3>1, <3>3, <4>1 DEF Iovec
      <4>4. Gathered' = WriteBuf(c, size) \o file
        BY <4>3 DEF Gathered
      <4>5. WriteBuf(c, size) = Part("head", HeadUnits)
        BY <2>1, <3>3, <4>1, Written
      <4>6. Response' = WriteBuf(c, size) \o file
        BY <2>2, <2>3, <3>3, <4>1, <4>5 DEF Response
      <4> HIDE DEF file
      <4>7. /\ WriteBuf(c, size) \o file \in Seq(Units)
            /\ Len(WriteBuf(c, size)) <= Len(WriteBuf(c, size) \o file)
        BY <3>2, <4>1, <4>2
      <4> QED
        BY <3>1, <4>4, <4>6, <4>7 DEF m_write_idx
    <3>4. CASE c # "FILE_REQUEST"
      <4>1. m_iv' = <<WriteBuf(c, size)>>
        BY <3>1, <3>4 DEF Iovec
      <4>2. Gathered' = WriteBuf(c, size)
        BY <4>1 DEF Gathered
      <4>3. WriteBuf(c, size) = Part("head", HeadUnits) \o Part("form", FormUnits)
        BY <2>1, <3>4, Written
      <4>4. Response' = WriteBuf(c, size)
        BY <2>2, <3>4, <4>3 DEF Response
      <4> QED
        BY <3>1, <3>2, <4>2, <4>4 DEF m_write_idx
    <3> QED
      BY <3>3, <3>4
  <2> QED
    BY <2>2, <2>4 DEF SentInv
<1>2. CASE WriteBegin
  BY <1>2 DEF WriteBegin, SentInv, Gathered, Response, m_write_idx
<1>3. ASSUME NEW n \in 1 .. MaxUnits, Writev(n) PROVE SentInv'
  <2>1. n = Len(Gathered) /\ phase = "write" /\ UNCHANGED Response
    BY <1>3 DEF Writev, Response
  <2>2. /\ wire = << >> /\ Gathered = Response /\ Response \in Seq(Units)
        /\ m_write_idx <= Len(Response) /\ bytes_to_send = m_write_idx /\ bytes_have_sent = 0
    BY <2>1 DEF SentInv
  <2>3. m_write_idx \in Nat
    BY DEF WriteInv, MappingReleased, TypeOK
  <2>4. Finished(n)
    BY <2>1, <2>2, <2>3 DEF Finished
  <2>5. wire' = Response
    <3>1. wire' = << >> \o SubSeq(Response, 1, Len(Response))
      BY <1>3, <2>1, <2>2 DEF Writev
    <3>2. SubSeq(Response, 1, Len(Response)) = Response
      BY <2>2
    <3> QED
      BY <2>2, <3>1, <3>2
  <2>6. phase' \in {"idle", "closed"}
    BY <1>3, <2>4 DEF Writev
  <2> QED
    BY <2>1, <2>5, <2>6 DEF SentInv
<1>4. CASE WritevAgain
  BY <1>4 DEF WritevAgain, SentInv, Gathered, Response, m_write_idx
<1>5. CASE WritevFails
  BY <1>5 DEF WritevFails, SentInv
<1>6. CASE UNCHANGED vars
  BY <1>6 DEF vars, SentInv, Gathered, Response, m_write_idx
<1> QED
  BY <1>1, <1>2, <1>3, <1>4, <1>5, <1>6 DEF Next

(* If writev takes all that it is given, a response write() calls sent is  *)
(* on the wire whole and alone.  Without that it need not be: write()      *)
(* neither advances the iovec's bases nor counts the file in bytes_to_send.*)
THEOREM WriteSentIsWhole == ~PartialWrites /\ Spec => []SentIsWhole
<1> SUFFICES ASSUME ~PartialWrites PROVE Spec => []SentIsWhole
  OBVIOUS
<1>1. Init => SentInv
  BY DEF Init, SentInv
<1>2. WriteInv /\ SentInv /\ [Next]_vars => SentInv'
  BY SentStep
<1>3. SentInv => SentIsWhole
  BY DEF SentInv, SentIsWhole
<1> QED
  BY <1>1, <1>2, <1>3, WriteInvariant, PTL DEF Spec

-------------------------------------------------------------------------------
(* The chat room.  An entry of fds[] stands for each connection once, and  *)
(* nobody is told what he said himself.                                    *)
FdsApart == \A i, j \in 1 .. user_counter : fds[i].fd = fds[j].fd => i = j

RoomInv ==
  /\ RoomTypeOK /\ FdsApart
  /\ user_counter <= USER_LIMIT /\ InRoom = open
  /\ \A fd \in RoomFds : fd \notin buf[fd]
  /\ \A j \in 1 .. user_counter :
       fds[j].all /\ write_buf[fds[j].fd] # NoUser =>
         fds[j].fd \in buf[write_buf[fds[j].fd]] \cup orphaned

Entry == [fd : RoomFds, all : BOOLEAN, revents : Branches]

(* As many users as entries, so that a full room is one with no descriptor *)
(* left and LowestFree exists in any other.                                *)
LEMMA Headcount ==
  ASSUME fds \in Seq(Entry), FdsApart
  PROVE  IsFiniteSet(InRoom) /\ Cardinality(InRoom) = user_counter
<1> DEFINE n == user_counter
           g == [j \in 1 .. n |-> fds[j].fd]
<1>1. n \in Nat
  BY DEF user_counter
<1>2. IsFiniteSet(1 .. n) /\ Cardinality(1 .. n) = n
  BY <1>1, FS_Interval
<1>3. g \in Bijection(1 .. n, InRoom)
  BY DEF Bijection, Injection, Surjection, IsInjective, InRoom, FdsApart
<1> QED
  BY <1>2, <1>3, FS_Bijection DEF ExistsBijection

LEMMA FreeOne ==
  ASSUME fds \in Seq(Entry), FdsApart, user_counter < USER_LIMIT
  PROVE  LowestFree \in RoomFds \ InRoom
<1>1. RoomFds \ InRoom # {}
  <2>1. ASSUME RoomFds \subseteq InRoom PROVE FALSE
    <3>1. InRoom \subseteq RoomFds
      <4>1. \A j \in 1 .. user_counter : fds[j] \in Entry
        BY DEF user_counter
      <4> QED
        BY <4>1 DEF InRoom, Entry
    <3>2. Cardinality(RoomFds) = USER_LIMIT
      BY ChatroomAssumption, FS_Interval DEF RoomFds
    <3>3. InRoom = RoomFds
      BY <2>1, <3>1
    <3>4. Cardinality(InRoom) = user_counter
      BY Headcount
    <3> QED
      BY <3>2, <3>3, <3>4, ChatroomAssumption DEF user_counter
  <2> QED
    BY <2>1
<1>2. \A S \in SUBSET Nat : S # {} => \E m \in S : \A k \in S : m <= k
  <2> SUFFICES ASSUME NEW S \in SUBSET Nat, S # {} PROVE \E m \in S : \A k \in S : m <= k
    OBVIOUS
  <2> DEFINE Less == {ss \in Nat \X Nat : ss[1] < ss[2]}
  <2>1. IsWellFoundedOn(Less, Nat)
    BY NatLessThanWellFounded, Zenon DEF OpToRel
  <2> HIDE DEF Less
  <2>2. PICK m \in S : \A y \in S : ~ (<<y, m>> \in Less)
    BY <2>1, WFMin
  <2>3. ASSUME NEW k \in S PROVE m <= k
    <3>1. k \in Nat /\ m \in Nat
      OBVIOUS
    <3>2. k < m => <<k, m>> \in Less
      BY <3>1 DEF Less
    <3> QED
      BY <2>2, <3>1, <3>2
  <2> QED
    BY <2>3
<1>3. RoomFds \ InRoom \in SUBSET Nat
  BY DEF RoomFds
<1>4. \E fd \in RoomFds \ InRoom : \A k \in RoomFds \ InRoom : fd <= k
  BY <1>1, <1>2, <1>3
<1> QED
  BY <1>4 DEF LowestFree

LEMMA RoomInvInit == RoomInit => RoomInv
<1> SUFFICES ASSUME RoomInit PROVE RoomInv
  OBVIOUS
<1>1. user_counter = 0 /\ << >> \in Seq(Entry)
  BY DEF RoomInit, user_counter
<1>2. InRoom = {} /\ FdsApart
  BY <1>1 DEF InRoom, FdsApart
<1>3. RoomTypeOK
  <2>1. fds \in Seq(Entry) /\ at \in 0 .. user_counter + 1 /\ listening \in BOOLEAN
    <3>1. 1 \in 0 .. user_counter + 1
      BY <1>1
    <3> QED
      BY <1>1, <3>1 DEF RoomInit
  <2>2. /\ write_buf \in [RoomFds -> RoomFds \cup {NoUser}]
        /\ buf \in [RoomFds -> SUBSET RoomFds]
        /\ open \subseteq RoomFds /\ broken \subseteq open /\ orphaned \subseteq open
    BY DEF RoomInit
  <2> QED
    BY <2>1, <2>2 DEF RoomTypeOK, Entry
<1> QED
  BY <1>1, <1>2, <1>3, ChatroomAssumption DEF RoomInit, RoomInv

(* A step that moves no entry and asks nobody to wait.                     *)
LEMMA EntriesStay ==
  ASSUME RoomInv, fds' \in Seq(Entry), Len(fds') = Len(fds),
         \A j \in 1 .. user_counter : fds'[j].fd = fds[j].fd
  PROVE  user_counter' = user_counter /\ InRoom' = InRoom /\ FdsApart'
  BY DEF RoomInv, FdsApart, InRoom, user_counter


LEMMA RoomStep == RoomInv /\ [RoomNext]_roomVars => RoomInv'
<1> SUFFICES ASSUME RoomInv, [RoomNext]_roomVars PROVE RoomInv'
  OBVIOUS
<1>t. /\ fds \in Seq(Entry) /\ user_counter \in Nat /\ user_counter = Len(fds)
      /\ \A j \in 1 .. user_counter : fds[j] \in Entry /\ fds[j].fd \in RoomFds
      /\ at \in 0 .. user_counter + 1
  <2>1. fds \in Seq(Entry) /\ at \in 0 .. user_counter + 1
    BY DEF RoomInv, RoomTypeOK, Entry
  <2>2. user_counter \in Nat /\ \A j \in 1 .. user_counter : fds[j] \in Entry
    BY <2>1 DEF user_counter
  <2>3. \A j \in 1 .. user_counter : fds[j].fd \in RoomFds
    BY <2>2 DEF Entry
  <2> QED
    BY <2>1, <2>2, <2>3 DEF user_counter
<1>u. /\ write_buf \in [RoomFds -> RoomFds \cup {NoUser}] /\ buf \in [RoomFds -> SUBSET RoomFds]
      /\ open \subseteq RoomFds /\ broken \subseteq open /\ orphaned \subseteq open
      /\ listening \in BOOLEAN
  BY DEF RoomInv, RoomTypeOK
<1>d. ASSUME at \in 1 .. user_counter
      PROVE  /\ Done \in Seq(Entry) /\ Len(Done) = user_counter
             /\ \A j \in 1 .. user_counter : /\ Done[j].fd = fds[j].fd /\ Done[j].all = fds[j].all
                                             /\ Done[j] \in Entry
  <2>1. [fds[at] EXCEPT !.revents = "none"] \in Entry
    BY <1>t, <1>d DEF Entry, Branches
  <2>2. Done = [fds EXCEPT ![at] = [fds[at] EXCEPT !.revents = "none"]]
    BY DEF Done
  <2>3. Done \in Seq(Entry) /\ Len(Done) = user_counter
    BY <1>t, <1>d, <2>1, <2>2
  <2>4. \A j \in 1 .. user_counter : Done[j] = IF j = at THEN [fds[at] EXCEPT !.revents = "none"] ELSE fds[j]
    BY <1>t, <1>d, <2>2
  <2>5. [fds[at] EXCEPT !.revents = "none"].fd = fds[at].fd
    BY <1>t, <1>d DEF Entry
  <2>6. [fds[at] EXCEPT !.revents = "none"].all = fds[at].all
    BY <1>t, <1>d DEF Entry
  <2> QED
    BY <1>t, <1>d, <2>1, <2>3, <2>4, <2>5, <2>6
<1>s. ASSUME fds' \in Seq(Entry), Len(fds') = user_counter,
             \A j \in 1 .. user_counter : fds'[j].fd = fds[j].fd,
             at' \in 0 .. user_counter + 1, listening' \in BOOLEAN, open' = open
      PROVE  /\ user_counter' = user_counter /\ InRoom' = open' /\ FdsApart'
             /\ user_counter' <= USER_LIMIT /\ at' \in 0 .. user_counter' + 1
  BY <1>s, <1>t, EntriesStay DEF RoomInv, user_counter
<1>1. CASE Poll
  <2>1. PICK revents \in [1 .. user_counter -> Branches], new \in BOOLEAN :
          /\ fds' = [j \in 1 .. user_counter |-> [fds[j] EXCEPT !.revents = revents[j]]]
          /\ listening' = new
    BY <1>1 DEF Poll
  <2>2. \A j \in 1 .. user_counter : [fds[j] EXCEPT !.revents = revents[j]] \in Entry
    BY <1>t, <2>1 DEF Entry
  <2>3. \A j \in 1 .. user_counter :
          /\ [fds[j] EXCEPT !.revents = revents[j]].fd = fds[j].fd
          /\ [fds[j] EXCEPT !.revents = revents[j]].all = fds[j].all
    BY <1>t DEF Entry
  <2>4. fds' \in Seq(Entry) /\ Len(fds') = user_counter
    BY <1>t, <2>1, <2>2
  <2>5. \A j \in 1 .. user_counter : fds'[j].fd = fds[j].fd /\ fds'[j].all = fds[j].all
    BY <2>1, <2>3
  <2>6. UNCHANGED <<write_buf, buf, open, broken, orphaned>> /\ at' = 0 /\ 0 \in 0 .. user_counter + 1
    BY <1>1, <1>t DEF Poll
  <2>7. /\ user_counter' = user_counter /\ InRoom' = open' /\ FdsApart'
        /\ user_counter' <= USER_LIMIT /\ at' \in 0 .. user_counter' + 1
    BY <1>s, <2>1, <2>4, <2>5, <2>6
  <2>8. RoomTypeOK'
    BY <1>u, <2>1, <2>4, <2>6, <2>7 DEF RoomTypeOK, Entry
  <2> QED
    BY <2>5, <2>6, <2>7, <2>8 DEF RoomInv
<1>2. CASE AcceptUser
  <2>1. UNCHANGED <<write_buf, buf, broken, orphaned>> /\ at' = 1 /\ listening' = FALSE
    BY <1>2 DEF AcceptUser
  <2>2. CASE UNCHANGED <<fds, open>>
    <3>1. 1 \in 0 .. user_counter + 1
      BY <1>t
    <3>2. /\ user_counter' = user_counter /\ InRoom' = open' /\ FdsApart'
          /\ user_counter' <= USER_LIMIT /\ at' \in 0 .. user_counter' + 1
      BY <1>s, <1>t, <2>1, <2>2, <3>1
    <3>3. RoomTypeOK'
      BY <1>t, <1>u, <2>1, <2>2, <3>2 DEF RoomTypeOK, Entry
    <3> QED
      BY <2>1, <2>2, <3>2, <3>3 DEF RoomInv
  <2>3. CASE user_counter < USER_LIMIT /\ fds' = Append(fds, [fd |-> LowestFree, all |-> FALSE, revents |-> "none"])
             /\ open' = open \cup {LowestFree}
    <3> DEFINE e == [fd |-> LowestFree, all |-> FALSE, revents |-> "none"]
    <3>1. LowestFree \in RoomFds \ InRoom
      BY <1>t, <2>3, FreeOne DEF RoomInv
    <3>2. e \in Entry /\ e.fd = LowestFree /\ e.all = FALSE
      BY <3>1 DEF Entry, Branches
    <3> HIDE DEF e
    <3>3. fds' = Append(fds, e)
      BY <2>3 DEF e
    <3>4. /\ fds' \in Seq(Entry) /\ Len(fds') = user_counter + 1
          /\ fds'[user_counter + 1] = e
          /\ \A j \in 1 .. user_counter : fds'[j] = fds[j]
      BY <1>t, <3>2, <3>3
    <3>5. user_counter' = user_counter + 1
      BY <3>4 DEF user_counter
    <3>6. 1 .. user_counter' = (1 .. user_counter) \cup {user_counter + 1}
      BY <1>t, <3>5
    <3>7. \A j \in 1 .. user_counter : fds[j].fd # LowestFree
      BY <3>1 DEF InRoom
    <3>8. InRoom' = InRoom \cup {LowestFree}
      BY <3>2, <3>4, <3>6 DEF InRoom
    <3>9. FdsApart'
      BY <3>2, <3>4, <3>6, <3>7 DEF FdsApart, RoomInv
    <3>10. user_counter' <= USER_LIMIT /\ 1 \in 0 .. user_counter' + 1
      BY <1>t, <2>3, <3>5, ChatroomAssumption
    <3>11. RoomTypeOK'
      BY <1>u, <2>1, <2>3, <3>1, <3>4, <3>10 DEF RoomTypeOK, Entry
    <3>12. \A j \in 1 .. user_counter' :
             fds'[j].all /\ write_buf'[fds'[j].fd] # NoUser =>
               fds'[j].fd \in buf'[write_buf'[fds'[j].fd]] \cup orphaned'
      BY <2>1, <3>2, <3>4, <3>6 DEF RoomInv
    <3> QED
      BY <2>1, <2>3, <3>8, <3>9, <3>10, <3>11, <3>12 DEF RoomInv
  <2> QED
    BY <1>2, <2>2, <2>3 DEF AcceptUser
<1>3. CASE NothingToAccept \/ EntryQuiet
  <2>1. UNCHANGED <<fds, listening, write_buf, buf, open, broken, orphaned>> /\ at' \in 0 .. user_counter + 1
    BY <1>3, <1>t DEF NothingToAccept, EntryQuiet, At
  <2>2. /\ user_counter' = user_counter /\ InRoom' = open' /\ FdsApart'
        /\ user_counter' <= USER_LIMIT /\ at' \in 0 .. user_counter' + 1
    BY <1>s, <1>t, <1>u, <2>1
  <2>3. RoomTypeOK'
    BY <1>t, <1>u, <2>1, <2>2 DEF RoomTypeOK, Entry
  <2> QED
    BY <2>1, <2>2, <2>3 DEF RoomInv
<1>4. CASE EntryError
  <2>1. /\ at \in 1 .. user_counter /\ fds' = Done /\ at' = at + 1
        /\ broken' = broken \cup {fds[at].fd}
        /\ UNCHANGED <<listening, write_buf, buf, open, orphaned>>
    BY <1>4 DEF EntryError, At
  <2>2. /\ user_counter' = user_counter /\ InRoom' = open' /\ FdsApart'
        /\ user_counter' <= USER_LIMIT /\ at' \in 0 .. user_counter' + 1
    BY <1>d, <1>s, <1>t, <1>u, <2>1
  <2>3. fds[at].fd \in open
    BY <2>1 DEF RoomInv, InRoom
  <2>4. RoomTypeOK'
    BY <1>d, <1>u, <2>1, <2>2, <2>3 DEF RoomTypeOK, Entry
  <2> QED
    BY <1>d, <2>1, <2>2, <2>4 DEF RoomInv
<1>5. CASE EntryWrites
  <2> DEFINE fd == fds[at].fd
  <2>1. /\ at \in 1 .. user_counter /\ fds' = Done /\ at' = at + 1
        /\ write_buf' = [write_buf EXCEPT ![fd] = NoUser] /\ orphaned' = orphaned \ {fd}
        /\ UNCHANGED <<listening, buf, open, broken>>
    BY <1>5 DEF EntryWrites, At
  <2>2. /\ user_counter' = user_counter /\ InRoom' = open' /\ FdsApart'
        /\ user_counter' <= USER_LIMIT /\ at' \in 0 .. user_counter' + 1
    BY <1>d, <1>s, <1>t, <1>u, <2>1
  <2>3. fd \in RoomFds
    BY <1>t, <2>1
  <2> HIDE DEF fd
  <2>4. RoomTypeOK'
    BY <1>d, <1>u, <2>1, <2>2, <2>3 DEF RoomTypeOK, Entry
  <2>5. \A g \in RoomFds : write_buf'[g] = IF g = fd THEN NoUser ELSE write_buf[g]
    BY <1>u, <2>1
  <2>6. ASSUME NEW j \in 1 .. user_counter, fds'[j].all, write_buf'[fds'[j].fd] # NoUser
        PROVE  fds'[j].fd \in buf'[write_buf'[fds'[j].fd]] \cup orphaned'
    <3>1. fds'[j].fd = fds[j].fd /\ fds[j].all /\ fds[j].fd \in RoomFds
      BY <1>d, <1>t, <2>1, <2>6
    <3>2. fds[j].fd # fd /\ write_buf'[fds[j].fd] = write_buf[fds[j].fd]
      BY <2>5, <2>6, <3>1
    <3> QED
      BY <2>1, <2>6, <3>1, <3>2 DEF RoomInv
  <2> QED
    BY <2>1, <2>2, <2>4, <2>6 DEF RoomInv
<1>6. CASE Recv
  <2> DEFINE fd == fds[at].fd
             to == InRoom \ {fd}
             new(j) == [Done[j] EXCEPT !.all = @ \/ fds[j].fd \in to]
  <2>1. /\ at \in 1 .. user_counter /\ at' = at + 1
        /\ buf' = [buf EXCEPT ![fd] = to]
        /\ write_buf' = [g \in RoomFds |-> IF g \in to THEN fd ELSE write_buf[g]]
        /\ fds' = [j \in 1 .. user_counter |-> new(j)]
        /\ orphaned' = orphaned \ to
        /\ UNCHANGED <<listening, open, broken>>
    BY <1>6 DEF Recv, At, Notified
  <2>2. \A j \in 1 .. user_counter : /\ new(j) \in Entry /\ new(j).fd = fds[j].fd
                                     /\ new(j).all => fds[j].all \/ fds[j].fd \in to
    BY <1>d, <2>1 DEF Entry
  <2>3. fd \in RoomFds /\ to \subseteq RoomFds
    BY <1>t, <2>1 DEF InRoom
  <2> HIDE DEF new, fd
  <2>4. fds' \in Seq(Entry) /\ Len(fds') = user_counter
    BY <1>t, <2>1, <2>2
  <2>5. \A j \in 1 .. user_counter : fds'[j] = new(j)
    BY <2>1
  <2>6. /\ user_counter' = user_counter /\ InRoom' = open' /\ FdsApart'
        /\ user_counter' <= USER_LIMIT /\ at' \in 0 .. user_counter' + 1
    BY <1>s, <1>t, <1>u, <2>1, <2>2, <2>4, <2>5
  <2>7. RoomTypeOK'
    BY <1>u, <2>1, <2>3, <2>4, <2>6 DEF RoomTypeOK, Entry
  <2>8. \A g \in RoomFds : /\ buf'[g] = IF g = fd THEN to ELSE buf[g]
                           /\ write_buf'[g] = IF g \in to THEN fd ELSE write_buf[g]
    BY <1>u, <2>1
  <2>9. \A g \in RoomFds : g \notin buf'[g]
    BY <2>8 DEF RoomInv
  <2>10. ASSUME NEW j \in 1 .. user_counter, fds'[j].all, write_buf'[fds'[j].fd] # NoUser
         PROVE  fds'[j].fd \in buf'[write_buf'[fds'[j].fd]] \cup orphaned'
    <3> DEFINE g == fds[j].fd
    <3>1. g \in RoomFds /\ fds'[j].fd = g /\ (fds[j].all \/ g \in to)
      BY <1>t, <2>2, <2>5, <2>10
    <3>2. CASE g \in to
      BY <2>3, <2>8, <3>1, <3>2
    <3>3. CASE g \notin to
      <4>1. write_buf'[g] = write_buf[g] /\ write_buf[g] # NoUser /\ fds[j].all
        BY <2>8, <2>10, <3>1, <3>3
      <4>2. g \in buf[write_buf[g]] \cup orphaned
        BY <4>1 DEF RoomInv
      <4>3. g = fd
        BY <3>3 DEF InRoom
      <4>4. write_buf[g] \in RoomFds
        BY <1>u, <3>1, <4>1
      <4>5. g \in buf[write_buf[g]] => write_buf[g] # g
        BY <3>1, <4>4 DEF RoomInv
      <4> HIDE DEF g
      <4> QED
        BY <2>1, <2>8, <3>1, <3>3, <4>1, <4>2, <4>3, <4>4, <4>5
    <3> QED
      BY <3>2, <3>3
  <2> QED
    BY <2>6, <2>7, <2>9, <2>10 DEF RoomInv
<1>7. CASE EntryLeaves \/ RecvFails
  <2> DEFINE n == user_counter
             fd == fds[at].fd
             last == fds[n].fd
             listeners == {g \in InRoom : write_buf[g] = fd}
             moved == [fds EXCEPT ![at] = fds[n]]
  <2>1. /\ at \in 1 .. n
        /\ write_buf' = [write_buf EXCEPT ![fd] = write_buf[last]]
        /\ buf' = [g \in RoomFds |-> (IF g = fd THEN buf[last] ELSE buf[g]) \ {fd}]
        /\ orphaned' = (orphaned \cup listeners) \ {fd}
        /\ fds' = SubSeq(moved, 1, n - 1)
        /\ open' = open \ {fd} /\ broken' = broken \ {fd}
        /\ UNCHANGED <<at, listening>>
    BY <1>7 DEF EntryLeaves, RecvFails, Leaves, LastMoves, At
  <2>2. /\ n \in Nat \ {0} /\ n = Len(fds) /\ n \in 1 .. n
        /\ fd \in RoomFds /\ last \in RoomFds /\ listeners \subseteq InRoom
    BY <1>t, <2>1
  <2>3. /\ moved \in Seq(Entry) /\ Len(moved) = n
        /\ \A j \in 1 .. n : moved[j] = IF j = at THEN fds[n] ELSE fds[j]
    BY <1>t, <2>1, <2>2
  <2> HIDE DEF moved, n
  <2>4. /\ fds' \in Seq(Entry) /\ Len(fds') = n - 1
        /\ \A j \in 1 .. n - 1 : j \in 1 .. n /\ j # n /\ fds'[j] = moved[j]
    BY <2>1, <2>2, <2>3
  <2>5. user_counter' = n - 1
    BY <2>4 DEF user_counter
  <2>6. \A j \in 1 .. n - 1 : fds'[j] = IF j = at THEN fds[n] ELSE fds[j]
    BY <2>3, <2>4
  <2>7. 1 .. n = (1 .. n - 1) \cup {n}
    BY <2>2
  <2>8. \A i, j \in 1 .. n : fds[i].fd = fds[j].fd => i = j
    BY DEF RoomInv, FdsApart, n
  <2>9. InRoom' = InRoom \ {fd}
    <3>1. InRoom = {fds[j].fd : j \in 1 .. n} /\ InRoom' = {fds'[j].fd : j \in 1 .. n - 1}
      BY <2>5 DEF InRoom, n
    <3>2. ASSUME NEW j \in 1 .. n - 1 PROVE fds'[j].fd \in InRoom \ {fd}
      BY <2>1, <2>2, <2>4, <2>6, <2>8, <3>1
    <3>3. ASSUME NEW j \in 1 .. n, j # at PROVE fds[j].fd \in InRoom'
      <4>1. CASE j = n
        <5>1. at \in 1 .. n - 1
          BY <2>1, <2>7, <3>3, <4>1
        <5> QED
          BY <2>6, <3>1, <4>1, <5>1
      <4>2. CASE j \in 1 .. n - 1
        BY <2>6, <3>1, <3>3, <4>2
      <4> QED
        BY <2>7, <4>1, <4>2
    <3> QED
      BY <3>1, <3>2, <3>3
  <2>10. FdsApart'
    <3>1. ASSUME NEW i \in 1 .. n - 1, NEW j \in 1 .. n - 1, fds'[i].fd = fds'[j].fd
          PROVE  i = j
      <4>1. /\ i \in 1 .. n /\ j \in 1 .. n /\ i # n /\ j # n /\ n \in 1 .. n
            /\ fds'[i] = IF i = at THEN fds[n] ELSE fds[i]
            /\ fds'[j] = IF j = at THEN fds[n] ELSE fds[j]
        BY <2>2, <2>4, <2>6
      <4>2. CASE i = at
        BY <2>8, <3>1, <4>1, <4>2
      <4>3. CASE i # at
        BY <2>8, <3>1, <4>1, <4>3
      <4> QED
        BY <4>2, <4>3
    <3> QED
      BY <2>5, <3>1 DEF FdsApart
  <2>11. user_counter' <= USER_LIMIT /\ at' \in 0 .. user_counter' + 1
    <3>1. n <= USER_LIMIT
      BY DEF RoomInv, n
    <3> QED
      BY <2>1, <2>2, <2>5, <3>1, ChatroomAssumption
  <2>12. InRoom = open
    BY DEF RoomInv
  <2> HIDE DEF fd, last
  <2>13. RoomTypeOK'
    <3>1. /\ write_buf' \in [RoomFds -> RoomFds \cup {NoUser}]
          /\ buf' \in [RoomFds -> SUBSET RoomFds]
      BY <1>u, <2>1, <2>2
    <3>2. open' \subseteq RoomFds /\ broken' \subseteq open' /\ orphaned' \subseteq open'
      BY <1>u, <2>1, <2>2, <2>12
    <3> QED
      BY <1>u, <2>1, <2>4, <2>11, <3>1, <3>2 DEF RoomTypeOK, Entry
  <2>14. \A g \in RoomFds : /\ g # fd => write_buf'[g] = write_buf[g] /\ buf'[g] = buf[g] \ {fd}
                            /\ fd \notin buf'[fd]
    BY <1>u, <2>1, <2>2
  <2>15. \A g \in RoomFds : g \notin buf'[g]
    BY <2>14 DEF RoomInv
  <2>16. ASSUME NEW j \in 1 .. n - 1, fds'[j].all, write_buf'[fds'[j].fd] # NoUser
         PROVE  fds'[j].fd \in buf'[write_buf'[fds'[j].fd]] \cup orphaned'
    <3>1. PICK i \in 1 .. n : fds'[j] = fds[i]
      BY <2>2, <2>4, <2>6
    <3> DEFINE g == fds[i].fd
    <3>2. g \in InRoom'
      BY <2>5, <3>1 DEF InRoom
    <3>3. g \in InRoom /\ g # fd /\ g \in RoomFds
      BY <1>u, <2>9, <2>12, <3>2
    <3>4. fds[i].all /\ write_buf[g] # NoUser /\ write_buf'[g] = write_buf[g]
      BY <2>14, <2>16, <3>1, <3>3
    <3>5. g \in buf[write_buf[g]] \cup orphaned
      BY <3>4 DEF RoomInv, n
    <3>6. write_buf[g] \in RoomFds
      BY <1>u, <3>3, <3>4
    <3> HIDE DEF g
    <3>7. CASE write_buf[g] = fd
      BY <2>1, <3>1, <3>3, <3>7 DEF g
    <3>8. CASE write_buf[g] # fd
      <4>1. buf'[write_buf[g]] = buf[write_buf[g]] \ {fd}
        BY <2>14, <3>6, <3>8
      <4>2. g \in buf'[write_buf[g]] \cup orphaned'
        BY <2>1, <3>3, <3>5, <4>1
      <4> QED
        BY <3>1, <3>4, <4>2 DEF g
    <3> QED
      BY <3>7, <3>8
  <2> QED
    BY <2>5, <2>9, <2>10, <2>11, <2>12, <2>1, <2>13, <2>15, <2>16 DEF RoomInv
<1>8. CASE UNCHANGED roomVars
  <2>1. UNCHANGED <<user_counter, InRoom, FdsApart>>
    BY <1>8 DEF roomVars, user_counter, InRoom, FdsApart
  <2> QED
    BY <1>8, <2>1 DEF roomVars, RoomInv, RoomTypeOK
<1> QED
  BY <1>1, <1>2, <1>3, <1>4, <1>5, <1>6, <1>7, <1>8 DEF RoomNext

(* However the loop moves the entries of fds[] while it walks them, each   *)
(* open connection has one; and though users[] is not indexed like fds[],  *)
(* so that a leaver's record is overwritten with another's and old         *)
(* pointers point to whoever has the descriptor now, what a user is about  *)
(* to be sent was said to that user, unless its speaker has left.          *)
THEOREM RoomIsSound == RoomSpec => []RoomSound
<1>1. RoomInv => RoomSound
  <2> SUFFICES ASSUME RoomInv PROVE RoomSound
    OBVIOUS
  <2>1. fds \in Seq(Entry) /\ FdsApart
    BY DEF RoomInv, RoomTypeOK, Entry
  <2>2. Cardinality(InRoom) = user_counter
    BY <2>1, Headcount
  <2> QED
    BY <2>2 DEF RoomInv, RoomSound
<1> QED
  BY <1>1, RoomInvInit, RoomStep, PTL DEF RoomSpec

-------------------------------------------------------------------------------
(* The one-shot server *)

(* Each report of listenfd that is due or under way has its connection.    *)
Reports == (IF edge THEN 1 ELSE 0) + (IF "listen" \in events THEN 1 ELSE 0)
AcceptSucceeds == Reports <= waiting

(* OneReaderUnlessMisread without counting: the four kinds of holders      *)
(* exclude each other, and a connection has one exactly while it is open.  *)
Started == {fd \in ConnFds : \E th \in Threads : startedFor[th] = fd}

OneHolder ==
  /\ connected = armed \cup (events \cap ConnFds) \cup abandoned \cup Started
  /\ armed \cap events = {} /\ armed \cap abandoned = {} /\ armed \cap Started = {}
  /\ events \cap abandoned = {} /\ events \cap Started = {} /\ abandoned \cap Started = {}
  /\ \A th, u \in Threads : startedFor[th] = startedFor[u] => th = u \/ startedFor[th] = NoFd
  /\ \A th \in Threads : sockfd[th] \in {NoFd, startedFor[th]}

ReaderInv == OneShotTypeOK /\ AcceptSucceeds /\ (misread \/ OneHolder)

-------------------------------------------------------------------------------
LEMMA OneShotInitInv == OneShotInit => ReaderInv
<1> SUFFICES ASSUME OneShotInit PROVE ReaderInv
  OBVIOUS
<1> USE OneShotAssumption DEF OneShotInit
<1>1. Cardinality(ConnFds) \in Nat
  BY FS_CardinalityType
<1>2. OneShotTypeOK
  <2>1. startedFor \in [Threads -> ConnFds \cup {NoFd}]
    OBVIOUS
  <2>2. sockfd \in [Threads -> ConnFds \cup {NoFd, Junk}]
    OBVIOUS
  <2>3. waiting \in 0 .. Cardinality(ConnFds)
    BY <1>1
  <2> QED
    BY <2>1, <2>2, <2>3 DEF OneShotTypeOK
<1>3. AcceptSucceeds
  BY DEF AcceptSucceeds, Reports
<1>4. Started = {}
  BY DEF Started
<1>5. OneHolder
  BY <1>4 DEF OneHolder
<1> QED
  BY <1>2, <1>3, <1>5 DEF ReaderInv

LEMMA OneShotTypeStep ==
  OneShotTypeOK /\ AcceptSucceeds /\ [OneShotNext]_oneShotVars => OneShotTypeOK' /\ AcceptSucceeds'
<1> SUFFICES ASSUME OneShotTypeOK, AcceptSucceeds, [OneShotNext]_oneShotVars
             PROVE  OneShotTypeOK' /\ AcceptSucceeds'
  OBVIOUS
<1> USE OneShotAssumption DEF OneShotTypeOK, AcceptSucceeds, Reports
<1>a. Cardinality(ConnFds) \in Nat
  BY FS_CardinalityType
<1>b. Cardinality(connected) \in Nat
  BY FS_CardinalityType, FS_Subset
<1>1. CASE UNCHANGED oneShotVars
  BY <1>1 DEF oneShotVars
<1>2. CASE WaitForEvents
  <2> USE <1>2 DEF WaitForEvents, Reported, Spent
  <2>1. OneShotTypeOK'
    OBVIOUS
  <2>2. "listen" \in events' <=> edge
    OBVIOUS
  <2>3. "listen" \notin events
    OBVIOUS
  <2>4. edge' = FALSE /\ waiting' = waiting
    OBVIOUS
  <2>5. Reports <= waiting
    OBVIOUS
  <2>6. Reports' <= waiting'
    BY <2>2, <2>3, <2>4, <2>5
  <2> QED
    BY <2>1, <2>6
<1>3. CASE AcceptConnection
  BY <1>3, <1>a DEF AcceptConnection
<1>4. ASSUME NEW fd \in ConnFds, StartWorker(fd) PROVE OneShotTypeOK' /\ AcceptSucceeds'
  BY <1>4 DEF StartWorker
<1>5. ASSUME NEW fd \in ConnFds, ClientSends(fd) \/ ClientEnds(fd)
      PROVE  OneShotTypeOK' /\ AcceptSucceeds'
  BY <1>5 DEF ClientSends, ClientEnds
<1>6. ASSUME NEW th \in Threads, ReadArgument(th) PROVE OneShotTypeOK' /\ AcceptSucceeds'
  BY <1>6 DEF ReadArgument
<1>7. ASSUME NEW th \in Threads, WorkerReceives(th) PROVE OneShotTypeOK' /\ AcceptSucceeds'
  BY <1>7 DEF WorkerReceives
<1>8. ASSUME NEW th \in Threads, WorkerCloses(th) PROVE OneShotTypeOK' /\ AcceptSucceeds'
  BY <1>8 DEF WorkerCloses, ThreadEnds
<1>9. ASSUME NEW th \in Threads, WorkerRearms(th) PROVE OneShotTypeOK' /\ AcceptSucceeds'
  BY <1>9 DEF WorkerRearms, ThreadEnds
<1>10. CASE ClientConnects
  BY <1>10, <1>a, <1>b DEF ClientConnects
<1> QED
  BY <1>1, <1>2, <1>3, <1>4, <1>5, <1>6, <1>7, <1>8, <1>9, <1>10 DEF OneShotNext

LEMMA OneHolderStep ==
  OneShotTypeOK /\ (misread \/ OneHolder) /\ [OneShotNext]_oneShotVars => (misread \/ OneHolder)'
<1> SUFFICES ASSUME OneShotTypeOK, ~misread', OneHolder, [OneShotNext]_oneShotVars
             PROVE  OneHolder'
  <2>1. misread => ~[OneShotNext]_oneShotVars \/ misread'
    BY DEF OneShotNext, oneShotVars, WaitForEvents, AcceptConnection, StartWorker, ReadArgument,
           WorkerReceives, WorkerCloses, WorkerRearms, ClientConnects, ClientSends, ClientEnds
  <2> QED
    BY <2>1
<1> USE OneShotAssumption DEF OneShotTypeOK, OneHolder, Started
<1>1. CASE UNCHANGED oneShotVars
  BY <1>1 DEF oneShotVars
<1>2. CASE WaitForEvents
  <2>1. events = {} /\ events' \cap ConnFds = Reported /\ armed' = armed \ Reported
    BY <1>2 DEF WaitForEvents, Spent, Reported
  <2>2. Reported \subseteq armed /\ UNCHANGED <<connected, abandoned, startedFor, sockfd>>
    BY <1>2 DEF WaitForEvents, Reported
  <2>3. events' \subseteq Reported \cup {"listen"}
    BY <1>2 DEF WaitForEvents
  <2>4. Started' = Started
    BY <2>2
  <2>5. connected' = armed' \cup (events' \cap ConnFds) \cup abandoned' \cup Started'
    BY <2>1, <2>2, <2>4
  <2>6. armed' \cap events' = {} /\ events' \cap abandoned' = {} /\ events' \cap Started' = {}
    BY <2>1, <2>2, <2>3, <2>4
  <2>7. armed' \cap abandoned' = {} /\ armed' \cap Started' = {} /\ abandoned' \cap Started' = {}
    BY <2>1, <2>2, <2>4
  <2> QED
    BY <2>2, <2>5, <2>6, <2>7
<1>3. CASE AcceptConnection
  BY <1>3 DEF AcceptConnection
<1>4. ASSUME NEW fd \in ConnFds, StartWorker(fd) PROVE OneHolder'
  BY <1>4 DEF StartWorker
<1>5. ASSUME NEW fd \in ConnFds, ClientSends(fd) \/ ClientEnds(fd) PROVE OneHolder'
  BY <1>5 DEF ClientSends, ClientEnds
<1>6. ASSUME NEW th \in Threads, ReadArgument(th) PROVE OneHolder'
  <2>1. arg = startedFor[th] /\ sockfd' = [sockfd EXCEPT ![th] = arg]
    BY <1>6 DEF ReadArgument
  <2>2. UNCHANGED <<armed, events, startedFor, connected, abandoned>>
    BY <1>6 DEF ReadArgument
  <2>3. \A u \in Threads : sockfd'[u] \in {NoFd, startedFor'[u]}
    BY <2>1, <2>2
  <2> QED
    BY <2>2, <2>3
<1>7. ASSUME NEW th \in Threads, WorkerReceives(th) PROVE OneHolder'
  BY <1>7 DEF WorkerReceives
<1>8. ASSUME NEW th \in Threads, WorkerCloses(th) PROVE OneHolder'
  <2>1. PICK fd \in ended \ input :
          /\ Reading(th, fd) /\ ThreadEnds(th)
          /\ connected' = connected \ {fd} /\ armed' = armed \ {fd}
          /\ abandoned' = abandoned \ {fd} /\ events' = events
    BY <1>8 DEF WorkerCloses
  <2> USE DEF Reading, ThreadEnds
  <2>2. fd \in ConnFds /\ startedFor[th] = fd
    BY <2>1
  <2>3. Started' = Started \ {fd}
    BY <2>1, <2>2
  <2>4. fd \notin armed /\ fd \notin events /\ fd \notin abandoned
    BY <2>2
  <2>5. connected' = armed' \cup (events' \cap ConnFds) \cup abandoned' \cup Started'
    BY <2>1, <2>3, <2>4
  <2>6. armed' \cap events' = {} /\ events' \cap abandoned' = {} /\ events' \cap Started' = {}
    BY <2>1, <2>3
  <2>7. armed' \cap abandoned' = {} /\ armed' \cap Started' = {} /\ abandoned' \cap Started' = {}
    BY <2>1, <2>3
  <2>8. \A u, v \in Threads :
          startedFor'[u] = startedFor'[v] => u = v \/ startedFor'[u] = NoFd
    BY <2>1
  <2>9. \A u \in Threads : sockfd'[u] \in {NoFd, startedFor'[u]}
    BY <2>1
  <2> QED
    BY <2>5, <2>6, <2>7, <2>8, <2>9
<1>9. ASSUME NEW th \in Threads, WorkerRearms(th) PROVE OneHolder'
  <2>1. PICK fd \in ConnFds :
          /\ Reading(th, fd) /\ ThreadEnds(th)
          /\ armed' = armed \cup {fd}
          /\ UNCHANGED <<connected, abandoned, events>>
    BY <1>9 DEF WorkerRearms
  <2> USE DEF Reading, ThreadEnds
  <2>2. startedFor[th] = fd /\ fd \in Started
    BY <2>1
  <2>3. Started' = Started \ {fd}
    BY <2>1, <2>2
  <2>4. fd \notin events /\ fd \notin abandoned
    BY <2>2
  <2>5. connected' = armed' \cup (events' \cap ConnFds) \cup abandoned' \cup Started'
    BY <2>1, <2>2, <2>3
  <2>6. armed' \cap events' = {} /\ events' \cap abandoned' = {} /\ events' \cap Started' = {}
    BY <2>1, <2>3, <2>4
  <2>7. armed' \cap abandoned' = {} /\ armed' \cap Started' = {} /\ abandoned' \cap Started' = {}
    BY <2>1, <2>3, <2>4
  <2>8. \A u, v \in Threads :
          startedFor'[u] = startedFor'[v] => u = v \/ startedFor'[u] = NoFd
    BY <2>1
  <2>9. \A u \in Threads : sockfd'[u] \in {NoFd, startedFor'[u]}
    BY <2>1
  <2> QED
    BY <2>5, <2>6, <2>7, <2>8, <2>9
<1>10. CASE ClientConnects
  BY <1>10 DEF ClientConnects
<1> QED
  BY <1>1, <1>2, <1>3, <1>4, <1>5, <1>6, <1>7, <1>8, <1>9, <1>10 DEF OneShotNext

(* Counting the holders gives what OneHolder says.                         *)
LEMMA HoldersCounted ==
  ASSUME OneShotTypeOK, OneHolder, NEW fd \in ConnFds
  PROVE  Holders(fd) = IF fd \in connected THEN 1 ELSE 0
<1> DEFINE Mine == {th \in Threads : startedFor[th] = fd}
<1> USE FS_EmptySet, FS_Singleton, OneShotAssumption
<1>1. Cardinality(armed \cap {fd}) = IF fd \in armed THEN 1 ELSE 0
  <2>1. armed \cap {fd} = IF fd \in armed THEN {fd} ELSE {}
    OBVIOUS
  <2> QED BY <2>1
<1>2. Cardinality(events \cap {fd}) = IF fd \in events THEN 1 ELSE 0
  <2>1. events \cap {fd} = IF fd \in events THEN {fd} ELSE {}
    OBVIOUS
  <2> QED BY <2>1
<1>3. Cardinality(abandoned \cap {fd}) = IF fd \in abandoned THEN 1 ELSE 0
  <2>1. abandoned \cap {fd} = IF fd \in abandoned THEN {fd} ELSE {}
    OBVIOUS
  <2> QED BY <2>1
<1>4. Cardinality(Mine) = IF fd \in Started THEN 1 ELSE 0
  <2>1. CASE fd \in Started
    <3>1. PICK th \in Threads : startedFor[th] = fd
      BY <2>1 DEF Started
    <3>2. Mine = {th}
      BY <3>1 DEF OneHolder
    <3> QED BY <2>1, <3>2
  <2>2. CASE fd \notin Started
    <3>1. Mine = {}
      BY <2>2 DEF Started
    <3> QED BY <2>2, <3>1
  <2> QED BY <2>1, <2>2
<1> QED
  BY <1>1, <1>2, <1>3, <1>4 DEF Holders, OneHolder

(* Until a worker finds another's argument, each open connection has one   *)
(* holder of the right to read it, and worker() reads no other: whatever   *)
(* the numbers of connections and threads.                                 *)
THEOREM OneShotOneReader == OneShotSpec => []OneReaderUnlessMisread
<1>1. ReaderInv /\ [OneShotNext]_oneShotVars => ReaderInv'
  BY OneShotTypeStep, OneHolderStep DEF ReaderInv
<1>2. ReaderInv => OneReaderUnlessMisread
  BY HoldersCounted DEF ReaderInv, OneReaderUnlessMisread, OneHolder
<1> QED
  BY OneShotInitInv, <1>1, <1>2, PTL DEF OneShotSpec
===============================================================================
