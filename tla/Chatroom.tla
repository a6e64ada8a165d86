-------------------------------- MODULE Chatroom --------------------------------
(***************************************************************************)
(* HTTP_server_learning/chatroom_server.cpp: one thread, poll() on a dense *)
(* array fds[], and users[], indexed by descriptor, whose write_buf points *)
(* into the buf of whoever spoke.  A step is the handling of one entry of  *)
(* fds[].  What clients do is seen by poll(), or by a recv that fails, so  *)
(* it is chosen there.                                                     *)
(***************************************************************************)
EXTENDS Integers, Sequences, FiniteSets

CONSTANT USER_LIMIT   \* 5 in the code

ASSUME ChatroomAssumption == USER_LIMIT \in Nat \ {0}

RoomFds == 1 .. USER_LIMIT  \* accept takes the lowest descriptor that is free
NoUser == 0                 \* a null write_buf

VARIABLES
  fds,            \* fds[1] to fds[user_counter]; revents is the branch the
                  \* entry takes, "none" when it has been taken; all:
                  \* `events |= ~POLLIN' has set every bit
  at,             \* the loop's i; poll() comes after the last entry
  listening,      \* fds[0].revents & POLLIN, until entry 0 is handled
  write_buf,      \* write_buf[fd]: in whose buf the text is that fd waits for
  buf,            \* buf[fd]: which of those now here its text was said to
  open,           \* the descriptors in use
  broken,         \* the connections whose error has been taken
  orphaned        \* history: those who wait for a text whose speaker left

roomVars == <<fds, at, listening, write_buf, buf, open, broken, orphaned>>

user_counter == Len(fds)
InRoom == {fds[j].fd : j \in 1 .. user_counter}
Branches == {"none", "err", "rdhup", "in", "out"}

RoomTypeOK ==
  /\ fds \in Seq([fd : RoomFds, all : BOOLEAN, revents : Branches])
  /\ at \in 0 .. user_counter + 1
  /\ listening \in BOOLEAN
  /\ write_buf \in [RoomFds -> RoomFds \cup {NoUser}]
  /\ buf \in [RoomFds -> SUBSET RoomFds]
  /\ open \subseteq RoomFds /\ broken \subseteq open /\ orphaned \subseteq open

RoomInit ==
  /\ fds = << >>
  /\ at = 1
  /\ listening = FALSE
  /\ write_buf = [fd \in RoomFds |-> NoUser]
  /\ buf = [fd \in RoomFds |-> {}]
  /\ open = {} /\ broken = {} /\ orphaned = {}

-------------------------------------------------------------------------------
(* The first branch that poll()'s answer for entry e leads to: POLLERR,    *)
(* POLLRDHUP and POLLIN come before POLLOUT.                               *)
MayReport(e) ==
  IF e.fd \in broken THEN {"rdhup"}
  ELSE {"none", "err", "rdhup", "in"} \cup (IF e.all THEN {"out"} ELSE {})

Poll ==
  /\ at = user_counter + 1
  /\ \E revents \in [1 .. user_counter -> Branches], new \in BOOLEAN :
       /\ \A j \in 1 .. user_counter : revents[j] \in MayReport(fds[j])
       /\ new \/ \E j \in 1 .. user_counter : revents[j] # "none"
       /\ fds' = [j \in 1 .. user_counter |-> [fds[j] EXCEPT !.revents = revents[j]]]
       /\ listening' = new
  /\ at' = 0
  /\ UNCHANGED <<write_buf, buf, open, broken, orphaned>>

LowestFree == CHOOSE fd \in RoomFds \ InRoom : \A g \in RoomFds \ InRoom : fd <= g

(* Entry 0: with the room full the newcomer is told so and closed.         *)
AcceptUser ==
  /\ at = 0 /\ listening
  /\ \/ /\ user_counter >= USER_LIMIT
        /\ UNCHANGED <<fds, open>>
     \/ /\ user_counter < USER_LIMIT
        /\ fds' = Append(fds, [fd |-> LowestFree, all |-> FALSE, revents |-> "none"])
        /\ open' = open \cup {LowestFree}
  /\ listening' = FALSE
  /\ at' = 1
  /\ UNCHANGED <<write_buf, buf, broken, orphaned>>

NothingToAccept ==
  /\ at = 0 /\ ~listening
  /\ at' = 1
  /\ UNCHANGED <<fds, listening, write_buf, buf, open, broken, orphaned>>

-------------------------------------------------------------------------------
(* Entry i.                                                                *)
At(branch) == at \in 1 .. user_counter /\ fds[at].revents = branch

Done == [fds EXCEPT ![at].revents = "none"]

(* getsockopt takes the error, and nothing else is done.                   *)
EntryError ==
  /\ At("err")
  /\ broken' = broken \cup {fds[at].fd}
  /\ fds' = Done
  /\ at' = at + 1
  /\ UNCHANGED <<listening, write_buf, buf, open, orphaned>>

LastStays == SubSeq(fds, 1, user_counter - 1)                   \* mutant

(* fds[i] = fds[user_counter], and one fewer.                              *)
LastMoves == SubSeq([fds EXCEPT ![at] = fds[user_counter]], 1, user_counter - 1)

(* The last user's record is copied over the leaver's, although users[] is *)
(* not indexed like fds[].  The entry that moves is looked at next.        *)
Leaves ==
  LET fd == fds[at].fd
      last == fds[user_counter].fd
      waiting == {g \in InRoom : write_buf[g] = fd}
  IN  /\ write_buf' = [write_buf EXCEPT ![fd] = write_buf[last]]
      /\ buf' = [g \in RoomFds |-> (IF g = fd THEN buf[last] ELSE buf[g]) \ {fd}]
      /\ orphaned' = (orphaned \cup waiting) \ {fd}
      /\ fds' = LastMoves
      /\ open' = open \ {fd}
      /\ broken' = broken \ {fd}
      /\ UNCHANGED <<at, listening>>

EntryLeaves == At("rdhup") /\ Leaves

(* recv fails: something happened to the connection after poll().          *)
RecvFails == At("in") /\ Leaves

NotifiedAll == InRoom                                           \* mutant

(* Those who are notified of what the user at entry i says.                *)
Notified == InRoom \ {fds[at].fd}

(* The text overwrites what was in buf; what does not fit waits for the    *)
(* next poll().                                                            *)
Recv ==
  LET fd == fds[at].fd
      to == InRoom \ {fd}
  IN  /\ At("in")
      /\ buf' = [buf EXCEPT ![fd] = to]
      /\ write_buf' = [g \in RoomFds |-> IF g \in Notified THEN fd ELSE write_buf[g]]
      /\ fds' = [j \in 1 .. user_counter |->
                   [Done[j] EXCEPT !.all = @ \/ fds[j].fd \in Notified]]
      /\ orphaned' = orphaned \ to
      /\ at' = at + 1
      /\ UNCHANGED <<listening, open, broken>>

(* One send, whatever comes of it, or none if there is nothing to send;    *)
(* POLLOUT stays asked for.                                                *)
EntryWrites ==
  /\ At("out")
  /\ write_buf' = [write_buf EXCEPT ![fds[at].fd] = NoUser]
  /\ orphaned' = orphaned \ {fds[at].fd}
  /\ fds' = Done
  /\ at' = at + 1
  /\ UNCHANGED <<listening, buf, open, broken>>

EntryQuiet ==
  /\ At("none")
  /\ at' = at + 1
  /\ UNCHANGED <<fds, listening, write_buf, buf, open, broken, orphaned>>

RoomNext ==
  \/ Poll \/ AcceptUser \/ NothingToAccept
  \/ EntryError \/ EntryLeaves \/ RecvFails \/ Recv \/ EntryWrites \/ EntryQuiet

RoomSpec == RoomInit /\ [][RoomNext]_roomVars

-------------------------------------------------------------------------------
(* fds[] holds every open connection once, however entries are moved while *)
(* the loop walks it; and the text a user is about to be sent was said to  *)
(* that user, by somebody else and after the user had come, unless its     *)
(* speaker has left since: what old pointers and old texts reused records  *)
(* of users[] hold is never sent.                                          *)
RoomSound ==
  /\ RoomTypeOK
  /\ Cardinality(InRoom) = user_counter /\ user_counter <= USER_LIMIT
  /\ InRoom = open
  /\ \A e \in {fds[j] : j \in 1 .. user_counter} :
       e.all /\ write_buf[e.fd] # NoUser =>
         e.fd \in buf[write_buf[e.fd]] \cup orphaned
===============================================================================
