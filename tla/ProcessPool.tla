------------------------------ MODULE ProcessPool ------------------------------
(***************************************************************************)
(* processpool<T> (HTTP_server_learning/processpool.cpp) with the T of     *)
(* CGI_concurrent_pool.cpp.  Process 0 is the parent, the others are its   *)
(* children.  The parent turns each edge of the listening socket into one  *)
(* notice to one child, which accepts; every process turns signals into    *)
(* bytes of a pipe of its own and reads that in its event loop.  A step is *)
(* the handling of one event of a batch, up to where the outside world or  *)
(* another process can see it.                                             *)
(***************************************************************************)
EXTENDS Integers, Sequences, FiniteSets

CONSTANTS
  N,              \* m_process_number
  Conns,          \* the connections clients make
  Talkers,        \* those of them on which input arrives
  Crashing,       \* the children that may crash
  PipeSize        \* PipeSize[p]: how many bytes p's signal pipe holds

Kids == 1 .. N
Procs == 0 .. N
Outcomes == {"missing", "nofork", "run"}    \* of a request that is a whole line

ASSUME ProcessPoolAssumption ==
  /\ N \in 1 .. 16
  /\ IsFiniteSet(Conns)
  /\ Talkers \subseteq Conns
  /\ Crashing \subseteq Kids
  /\ PipeSize \in [Procs -> Nat \ {0}]

VARIABLES
  life,           \* "none", "starting", "running", "zombie", "gone"
  m_stop,
  sigpipe,        \* the bytes in its signal pipe
  doomed,         \* the kids killed before their handlers were set
  edge,           \* epoll has yet to report listenfd (0), a kid's pipe
  batch,          \* what of "sig" and "in" is left of the reported events
  counter,        \* sub_process_counter, counting from 1
  notices,        \* unread notices in a kid's pipe
  conn, owner,    \* a connection's state and the kid that accepted it
  unread,         \* what of a connection's input is unread
  connEdge,       \* the connections epoll has yet to report
  connBatch,      \* the reported connections not yet handled
  running,        \* the connections whose CGI program runs
  merged,         \* history: an edge stood for two, or a notice was not read
  dropped         \* history: a signal met a full pipe, or no handler

procVars == <<life, m_stop>>
sigVars == <<sigpipe, doomed, dropped>>
noticeVars == <<edge, batch, counter, notices, merged>>
connVars == <<conn, owner, unread, connEdge, connBatch, running>>
vars == <<procVars, sigVars, noticeVars, connVars>>

Alive(p) == life[p] \in {"starting", "running"}

(* m_pid is not -1 from the fork to the waitpid that reaps the kid.        *)
Unreaped == {i \in Kids : life[i] \in {"starting", "running", "zombie"}}
Backlog == {c \in Conns : conn[c] = "backlog"}
OpenIn(i) == {c \in Conns : conn[c] = "open" /\ owner[c] = i}

TypeOK ==
  /\ life \in [Procs -> {"none", "starting", "running", "zombie", "gone"}]
  /\ m_stop \in [Procs -> BOOLEAN]
  /\ doomed \subseteq Kids
  /\ sigpipe \in [Procs -> Seq({"CHLD", "TERM"})]
  /\ \A p \in Procs : Len(sigpipe[p]) <= PipeSize[p]
  /\ edge \in [Procs -> BOOLEAN]
  /\ batch \in [Procs -> SUBSET {"sig", "in"}]
  /\ counter \in Kids
  /\ notices \in [Kids -> 0 .. Cardinality(Conns)]
  /\ conn \in [Conns -> {"none", "backlog", "open", "closed"}]
  /\ owner \in [Conns -> Procs]
  /\ unread \in [Conns -> SUBSET {"part", "line", "fin"}]
  /\ connEdge \cup connBatch \subseteq {c \in Conns : conn[c] = "open"}
  /\ running \subseteq Conns
  /\ {merged, dropped} \subseteq BOOLEAN

Init ==
  /\ life = [p \in Procs |-> IF p = 0 THEN "starting" ELSE "none"]
  /\ m_stop = [p \in Procs |-> FALSE]
  /\ doomed = {}
  /\ sigpipe = [p \in Procs |-> << >>]
  /\ edge = [p \in Procs |-> FALSE]
  /\ batch = [p \in Procs |-> {}]
  /\ counter = 1
  /\ notices = [i \in Kids |-> 0]
  /\ conn = [c \in Conns |-> "none"]
  /\ owner = [c \in Conns |-> 0]
  /\ unread = [c \in Conns |-> {}]
  /\ connEdge = {} /\ connBatch = {}
  /\ running = {}
  /\ merged = FALSE /\ dropped = FALSE

-------------------------------------------------------------------------------
(* Start *)

(* The constructor's loop: a socketpair and a fork for each kid.           *)
Fork(i) ==
  /\ life[0] = "starting" /\ life[i] = "none"
  /\ \A j \in 1 .. i - 1 : life[j] # "none"
  /\ life' = [life EXCEPT ![i] = "starting"]
  /\ UNCHANGED <<m_stop, sigVars, noticeVars, connVars>>

WatchMissesReady(p) == UNCHANGED <<edge, merged>>               \* mutant

(* addfd of a descriptor that is ready already is reported once.           *)
AddFd(p) ==
  LET waiting == IF p = 0 THEN Cardinality(Backlog) ELSE notices[p]
  IN  /\ edge' = [edge EXCEPT ![p] = waiting > 0]
      /\ merged' = (merged \/ waiting > 1)

(* setup_sig_pipe and the first addfd of run_child and run_parent.         *)
Setup(p) ==
  /\ life[p] = "starting" /\ p \notin doomed
  /\ p = 0 => \A i \in Kids : life[i] # "none"
  /\ life' = [life EXCEPT ![p] = "running"]
  /\ AddFd(p)
  /\ UNCHANGED <<m_stop, sigVars, batch, counter, notices, connVars>>

-------------------------------------------------------------------------------
(* Ends and signals *)

(* A signal reaches the processes in P: each one's sig_handler puts a byte *)
(* into its non-blocking pipe, if there is room.                           *)
Signalled(pipes, P, sig) ==
  [p \in Procs |-> IF p \in P /\ Len(pipes[p]) < PipeSize[p]
                   THEN Append(pipes[p], sig) ELSE pipes[p]]
SomeFull(pipes, P) == \E p \in P : Len(pipes[p]) = PipeSize[p]

(* A kid ends: its connections close, the notices it had not read are      *)
(* lost, and the parent gets SIGCHLD, which it ignores before its handler  *)
(* is set.                                                                 *)
Ends(i) ==
  /\ life' = [life EXCEPT ![i] = "zombie"]
  /\ m_stop' = [m_stop EXCEPT ![i] = FALSE]
  /\ doomed' = doomed \ {i}
  /\ LET pipes == [sigpipe EXCEPT ![i] = << >>]
     IN  IF life[0] = "running"
         THEN /\ sigpipe' = Signalled(pipes, {0}, "CHLD")
              /\ dropped' = (dropped \/ SomeFull(pipes, {0}))
         ELSE /\ sigpipe' = pipes
              /\ dropped' = (dropped \/ life[0] = "starting")
  /\ edge' = [edge EXCEPT ![i] = FALSE]
  /\ batch' = [batch EXCEPT ![i] = {}]
  /\ notices' = [notices EXCEPT ![i] = 0]
  /\ merged' = (merged \/ notices[i] > 0)
  /\ conn' = [c \in Conns |-> IF c \in OpenIn(i) THEN "closed" ELSE conn[c]]
  /\ connEdge' = connEdge \ OpenIn(i)
  /\ connBatch' = connBatch \ OpenIn(i)
  /\ unread' = [c \in Conns |-> IF c \in OpenIn(i) THEN {} ELSE unread[c]]
  /\ UNCHANGED <<counter, owner, running>>

Crash(i) ==
  /\ i \in Crashing /\ Alive(i)
  /\ Ends(i)

(* Before its handlers are set SIGTERM kills a kid.                        *)
KilledEarly(i) ==
  /\ i \in doomed
  /\ Ends(i)

(* A kid leaves its loop when the batch is done and m_stop is set.         *)
KidExits(i) ==
  /\ life[i] = "running" /\ m_stop[i]
  /\ batch[i] = {} /\ connBatch \cap OpenIn(i) = {}
  /\ Ends(i)

ParentExits ==
  /\ life[0] = "running" /\ m_stop[0]
  /\ batch[0] = {}
  /\ life' = [life EXCEPT ![0] = "gone"]
  /\ UNCHANGED <<m_stop, sigVars, noticeVars, connVars>>

(* The operator ends the server, once it runs.                             *)
Terminate ==
  /\ life[0] = "running"
  /\ sigpipe' = Signalled(sigpipe, {0}, "TERM")
  /\ dropped' = (dropped \/ SomeFull(sigpipe, {0}))
  /\ UNCHANGED <<procVars, doomed, noticeVars, connVars>>

-------------------------------------------------------------------------------
(* The event loops.  The signal pipe is drained whenever it is reported.   *)

EpollWait(p) ==
  /\ life[p] = "running" /\ ~m_stop[p]
  /\ batch[p] = {} /\ connBatch \cap OpenIn(p) = {}
  /\ edge[p] \/ sigpipe[p] # << >> \/ connEdge \cap OpenIn(p) # {}
  /\ batch' = [batch EXCEPT ![p] = (IF edge[p] THEN {"in"} ELSE {})
                             \cup (IF sigpipe[p] # << >> THEN {"sig"} ELSE {})]
  /\ edge' = [edge EXCEPT ![p] = FALSE]
  /\ connBatch' = connBatch \cup (connEdge \cap OpenIn(p))
  /\ connEdge' = connEdge \ OpenIn(p)
  /\ UNCHANGED <<procVars, sigVars, counter, notices, merged,
                 conn, owner, unread, running>>

Handled(p, what) == batch' = [batch EXCEPT ![p] = @ \ {what}]

(* Round robin from sub_process_counter over the kids whose m_pid is set.  *)
Chosen ==
  LET At(k) == ((counter - 1 + k) % N) + 1
      first == CHOOSE k \in 0 .. N - 1 : /\ At(k) \in Unreaped
                                         /\ \A j \in 0 .. k - 1 : At(j) \notin Unreaped
  IN  At(first)

ParentNotices ==
  /\ "in" \in batch[0] /\ Unreaped # {}
  /\ Handled(0, "in")
  /\ counter' = (Chosen % N) + 1
  /\ \/ /\ Alive(Chosen)
        /\ notices' = [notices EXCEPT ![Chosen] = @ + 1]
        /\ edge' = [edge EXCEPT ![Chosen] = (life[Chosen] = "running")]
        /\ merged' = (merged \/ edge[Chosen])
     \/ /\ ~Alive(Chosen)
        /\ merged' = TRUE
        /\ UNCHANGED <<notices, edge>>
  /\ UNCHANGED <<procVars, sigVars, connVars>>

(* With nobody left the parent stops and drops the rest of the batch.      *)
ParentFindsNobody ==
  /\ "in" \in batch[0] /\ Unreaped = {}
  /\ batch' = [batch EXCEPT ![0] = {}]
  /\ m_stop' = [m_stop EXCEPT ![0] = TRUE]
  /\ UNCHANGED <<life, sigVars, edge, counter, notices, merged, connVars>>

StopsAtFirst(left) == left # Kids                               \* mutant

(* After a SIGCHLD the parent stops if no kid is left.                     *)
NobodyLeft(left) == left = {}

KillsFirst ==                                                   \* mutant
  {i \in Unreaped : Alive(i) /\ \A j \in 1 .. i - 1 : j \notin Unreaped}

(* Those that kill(pid, SIGTERM) reaches: to a zombie it does nothing.     *)
Killed == {i \in Unreaped : Alive(i)}

ParentSignals ==
  LET bytes == {sigpipe[0][k] : k \in 1 .. Len(sigpipe[0])}
      reaped == IF "CHLD" \in bytes THEN {i \in Kids : life[i] = "zombie"} ELSE {}
      killed == IF "TERM" \in bytes THEN Killed ELSE {}
      heard == {i \in killed : life[i] = "running"}
      pipes == [sigpipe EXCEPT ![0] = << >>]
  IN  /\ "sig" \in batch[0]
      /\ Handled(0, "sig")
      /\ sigpipe' = Signalled(pipes, heard, "TERM")
      /\ dropped' = (dropped \/ SomeFull(pipes, heard))
      /\ doomed' = doomed \cup (killed \ heard)
      /\ life' = [p \in Procs |-> IF p \in reaped THEN "gone" ELSE life[p]]
      /\ m_stop' = IF "CHLD" \in bytes
                    THEN [m_stop EXCEPT ![0] = NobodyLeft(Unreaped \ reaped)]
                    ELSE m_stop
      /\ UNCHANGED <<edge, counter, notices, merged, connVars>>

(* A kid reaps whatever CGI programs have ended, and stops on SIGTERM.     *)
KidSignals(i) ==
  /\ "sig" \in batch[i]
  /\ Handled(i, "sig")
  /\ sigpipe' = [sigpipe EXCEPT ![i] = << >>]
  /\ m_stop' = [m_stop EXCEPT ![i] =
                  @ \/ \E k \in 1 .. Len(sigpipe[i]) : sigpipe[i][k] = "TERM"]
  /\ UNCHANGED <<life, doomed, dropped, edge, counter, notices, merged, connVars>>

(* One notice is read for each report; the accept is tried even when there *)
(* was none to read.  The new connection is watched from here on.          *)
KidAccepts(i) ==
  /\ "in" \in batch[i]
  /\ Handled(i, "in")
  /\ notices' = [notices EXCEPT ![i] = IF @ > 0 THEN @ - 1 ELSE 0]
  /\ \/ /\ Backlog = {}
        /\ UNCHANGED <<conn, owner, connEdge>>
     \/ \E c \in Backlog :
          /\ conn' = [conn EXCEPT ![c] = "open"]
          /\ owner' = [owner EXCEPT ![c] = i]
          /\ connEdge' = IF unread[c] = {} THEN connEdge ELSE connEdge \cup {c}
  /\ UNCHANGED <<procVars, sigVars, edge, counter, merged, unread,
                 connBatch, running>>

-------------------------------------------------------------------------------
(* cgi_conn::process(): read until there is nothing, the input is over, or *)
(* the buffer holds a line; a full buffer looks like the end of the input. *)

CloseOnly(c) == conn' = [conn EXCEPT ![c] = "closed"] /\ UNCHANGED connEdge   \* mutant

(* removefd: no longer watched, although the CGI program holds it open.    *)
RemoveFd(c) ==
  /\ conn' = [conn EXCEPT ![c] = "closed"]
  /\ connEdge' = connEdge \ {c}

ReadOnce(c) == IF "part" \in unread[c] THEN {"part"} ELSE unread[c]   \* mutant

Read(c) == unread[c]

KidProcess(i, c) ==
  /\ c \in connBatch /\ owner[c] = i
  /\ connBatch' = connBatch \ {c}
  /\ unread' = [unread EXCEPT ![c] = @ \ Read(c)]
  /\ \/ /\ "line" \in Read(c)
        /\ \E o \in Outcomes :
             running' = IF o = "run" THEN running \cup {c} ELSE running
        /\ RemoveFd(c)
     \/ /\ "line" \notin Read(c) /\ Read(c) # {}
        /\ RemoveFd(c)
        /\ UNCHANGED running
     \/ /\ Read(c) \subseteq {"part"}
        /\ UNCHANGED <<conn, connEdge, running>>
  /\ UNCHANGED <<procVars, sigVars, noticeVars, owner>>

(* execl, the program's end and the SIGCHLD for the kid.                   *)
ProgramEnds(c) ==
  /\ c \in running
  /\ running' = running \ {c}
  /\ LET parent == IF life[owner[c]] = "running" THEN {owner[c]} ELSE {}
     IN  /\ sigpipe' = Signalled(sigpipe, parent, "CHLD")
         /\ dropped' = (dropped \/ SomeFull(sigpipe, parent))
  /\ UNCHANGED <<procVars, doomed, noticeVars, conn, owner,
                 unread, connEdge, connBatch>>

-------------------------------------------------------------------------------
(* Clients *)

Connect(c) ==
  /\ conn[c] = "none"
  /\ conn' = [conn EXCEPT ![c] = "backlog"]
  /\ edge' = [edge EXCEPT ![0] = (life[0] = "running")]
  /\ merged' = (merged \/ edge[0])
  /\ UNCHANGED <<procVars, sigVars, batch, counter, notices, owner, unread,
                 connEdge, connBatch, running>>

Send(c, what) ==
  /\ conn[c] \in {"backlog", "open"}
  /\ c \in Talkers
  /\ unread[c] \subseteq {"part"} \ {what}
  /\ unread' = [unread EXCEPT ![c] = @ \cup {what}]
  /\ connEdge' = IF conn[c] = "open" THEN connEdge \cup {c} ELSE connEdge
  /\ UNCHANGED <<procVars, sigVars, noticeVars, conn, owner, connBatch, running>>

-------------------------------------------------------------------------------
KidStep(i) ==
  \/ EpollWait(i) \/ KidSignals(i) \/ KidAccepts(i) \/ KidExits(i)
  \/ \E c \in Conns : KidProcess(i, c)

ParentStep ==
  \/ EpollWait(0) \/ ParentNotices \/ ParentFindsNobody \/ ParentSignals
  \/ ParentExits

Next ==
  \/ ParentStep \/ Terminate
  \/ \E p \in Procs : Setup(p)
  \/ \E i \in Kids : Fork(i) \/ KidStep(i) \/ Crash(i) \/ KilledEarly(i)
  \/ \E c \in Conns : Connect(c) \/ ProgramEnds(c)
                     \/ \E what \in {"part", "line", "fin"} : Send(c, what)

Spec == Init /\ [][Next]_vars

(* The processes run.                                                      *)
FairSpec ==
  /\ Spec
  /\ WF_vars(ParentStep)
  /\ \A p \in Procs : WF_vars(Setup(p))
  /\ \A i \in Kids : WF_vars(KidStep(i)) /\ WF_vars(Fork(i)) /\ WF_vars(KilledEarly(i))

-------------------------------------------------------------------------------
(* The parent is done only when every kid has ended and been reaped.       *)
ParentGoesLast == life[0] = "gone" => \A i \in Kids : life[i] = "gone"

(* A connection waits unaccepted with nothing under way to accept it only  *)
(* if at some time one edge or one report stood for two connections or two *)
(* notices, or a kid ended with notices unread.  A notice in the pipe is   *)
(* under way while its kid starts, and then only if epoll has it.          *)
StrandedOnlyByMerging ==
  (Backlog # {} /\ life[0] = "running" /\ ~m_stop[0]) =>
    \/ edge[0] \/ "in" \in batch[0]
    \/ \E i \in Kids :
         edge[i] \/ "in" \in batch[i] \/ (life[i] = "starting" /\ notices[i] > 0)
    \/ merged

(* SIGTERM to the parent ends the parent, and so all, unless a signal was  *)
(* thrown away: by a full pipe, or SIGCHLD before the handler was set.     *)
TermEndsAll ==
  (\E k \in 1 .. Len(sigpipe[0]) : sigpipe[0][k] = "TERM") ~> (life[0] = "gone" \/ dropped)

(* A request line that reached an accepted connection is served.           *)
LineServed ==
  \A c \in Conns : (conn[c] = "open" /\ "line" \in unread[c]) ~> conn[c] = "closed"
===============================================================================
