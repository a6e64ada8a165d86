------------------------------ MODULE ThreadPool ------------------------------
(***************************************************************************)
(* threadpool<T> (HTTP_server_learning/threadpool.h) with the wrappers of  *)
(* locker.h it is built from: a FIFO of request pointers behind a mutex, a *)
(* counting semaphore that says "there is work", and detached workers.     *)
(* A thread's steps are cut where another thread can come between: the     *)
(* calls on the mutex and on the semaphore, and the loop's read of m_stop. *)
(***************************************************************************)
EXTENDS Integers, Sequences, FiniteSets

CONSTANTS
  Workers,        \* the threads the constructor creates
  Producers,      \* the threads that call append and destroy the pool
  Requests,       \* T objects
  NoRequest,      \* NULL, which append accepts and run() drops
  Nobody,         \* the owner of a free mutex
  MaxRequests,    \* m_max_requests
  MaxInterrupts,  \* bound: how often a signal may break a sem_wait
  FreedReads      \* what a read of m_stop in freed memory may give besides
                  \* the value last stored

(* The constructor throws unless both of its arguments are positive.       *)
ASSUME PoolAssumption ==
  /\ MaxRequests \in Nat \ {0}
  /\ MaxInterrupts \in Nat
  /\ IsFiniteSet(Workers) /\ Workers # {}
  /\ IsFiniteSet(Producers)
  /\ Workers \cap Producers = {}
  /\ Nobody \notin Workers \cup Producers
  /\ NoRequest \notin Requests
  /\ FreedReads \subseteq BOOLEAN

VARIABLES
  m_workqueue,    \* the FIFO
  m_queuelocker,  \* the thread that holds the mutex
  m_queuestat,    \* the value of the semaphore
  m_stop,
  lifetime,       \* of the pool object: "constructing", "live", "destroyed"
  wpc, wreq,      \* where each worker is in run(), and its local `request'
  ppc, preq,      \* where each caller is in append(), and its argument
  interrupts      \* sem_waits broken so far

vars == <<m_workqueue, m_queuelocker, m_queuestat, m_stop, lifetime,
          wpc, wreq, ppc, preq, interrupts>>
queueVars == <<m_workqueue, m_queuelocker, m_queuestat>>
lifeVars  == <<m_stop, lifetime>>
workerVars == <<wpc, wreq>>
callerVars == <<ppc, preq>>

Threads == Workers \cup Producers
Request == Requests \cup {NoRequest}

WorkerPCs == {"none", "test", "wait", "lock", "empty", "take", "unlock",
              "process", "exited", "undefined"}
CallerPCs == {"idle", "lock", "check", "push", "unlock", "post"}

TypeOK ==
  /\ m_workqueue \in Seq(Request)
  /\ m_queuelocker \in Threads \cup {Nobody}
  /\ m_queuestat \in Nat
  /\ m_stop \in BOOLEAN
  /\ lifetime \in {"constructing", "live", "destroyed"}
  /\ wpc \in [Workers -> WorkerPCs]
  /\ wreq \in [Workers -> Request]
  /\ ppc \in [Producers -> CallerPCs]
  /\ preq \in [Producers -> Request]
  /\ interrupts \in 0 .. MaxInterrupts

Init ==
  /\ m_workqueue = << >>
  /\ m_queuelocker = Nobody
  /\ m_queuestat = 0
  /\ m_stop = FALSE
  /\ lifetime = "constructing"
  /\ wpc = [w \in Workers |-> "none"]
  /\ wreq = [w \in Workers |-> NoRequest]
  /\ ppc = [p \in Producers |-> "idle"]
  /\ preq = [p \in Producers |-> NoRequest]
  /\ interrupts = 0

GotoW(w, pc) == wpc' = [wpc EXCEPT ![w] = pc]
GotoP(p, pc) == ppc' = [ppc EXCEPT ![p] = pc]

-------------------------------------------------------------------------------
(* locker and sem *)

LockWithoutWaiting(t) == m_queuelocker' = t             \* mutant

Lock(t) ==
  /\ m_queuelocker = Nobody
  /\ m_queuelocker' = t

UnlockForgotten == UNCHANGED m_queuelocker              \* mutant

Unlock == m_queuelocker' = Nobody

SemWaitNeverBlocks == m_queuestat' = m_queuestat - 1    \* mutant

(* sem_wait lets one caller through for every post.                        *)
SemWait ==
  /\ m_queuestat > 0
  /\ m_queuestat' = m_queuestat - 1

SemPostLost == UNCHANGED m_queuestat                    \* mutant

SemPost == m_queuestat' = m_queuestat + 1

-------------------------------------------------------------------------------
(* The constructor: one pthread_create and pthread_detach after another,   *)
(* then the pool is live.  A failed call throws: the members are           *)
(* destroyed, m_stop keeps its value, and the threads already created run  *)
(* on.                                                                     *)
CreateThread(w) ==
  /\ lifetime = "constructing"
  /\ wpc[w] = "none"
  /\ GotoW(w, "test")
  /\ UNCHANGED <<queueVars, lifeVars, wreq, callerVars, interrupts>>

Constructed ==
  /\ lifetime = "constructing"
  /\ \A w \in Workers : wpc[w] # "none"
  /\ lifetime' = "live"
  /\ UNCHANGED <<queueVars, m_stop, workerVars, callerVars, interrupts>>

CreateFails ==
  /\ lifetime = "constructing"
  /\ lifetime' = "destroyed"
  /\ UNCHANGED <<queueVars, m_stop, workerVars, callerVars, interrupts>>

(* The destructor sets m_stop, joins nobody, and the members go.           *)
Destroy ==
  /\ lifetime = "live"
  /\ \A p \in Producers : ppc[p] = "idle"
  /\ m_stop' = TRUE
  /\ lifetime' = "destroyed"
  /\ UNCHANGED <<queueVars, workerVars, callerVars, interrupts>>

-------------------------------------------------------------------------------
(* append(request) *)

AppendCall(p, r) ==
  /\ lifetime = "live"
  /\ ppc[p] = "idle"
  /\ preq' = [preq EXCEPT ![p] = r]
  /\ GotoP(p, "lock")
  /\ UNCHANGED <<queueVars, lifeVars, workerVars, interrupts>>

AppendLock(p) ==
  /\ ppc[p] = "lock"
  /\ Lock(p)
  /\ GotoP(p, "check")
  /\ UNCHANGED <<m_workqueue, m_queuestat, lifeVars, workerVars, preq, interrupts>>

QueueFullOffByOne == Len(m_workqueue) > MaxRequests + 1 \* mutant

QueueFull == Len(m_workqueue) > MaxRequests

AppendCheck(p) ==
  /\ ppc[p] = "check"
  /\ IF QueueFull
     THEN Unlock /\ GotoP(p, "idle")
     ELSE UNCHANGED m_queuelocker /\ GotoP(p, "push")
  /\ UNCHANGED <<m_workqueue, m_queuestat, lifeVars, workerVars, preq, interrupts>>

AppendPush(p) ==
  /\ ppc[p] = "push"
  /\ m_workqueue' = Append(m_workqueue, preq[p])
  /\ GotoP(p, "unlock")
  /\ UNCHANGED <<m_queuelocker, m_queuestat, lifeVars, workerVars, preq, interrupts>>

AppendUnlock(p) ==
  /\ ppc[p] = "unlock"
  /\ Unlock
  /\ GotoP(p, "post")
  /\ UNCHANGED <<m_workqueue, m_queuestat, lifeVars, workerVars, preq, interrupts>>

AppendPost(p) ==
  /\ ppc[p] = "post"
  /\ SemPost
  /\ GotoP(p, "idle")
  /\ UNCHANGED <<m_workqueue, m_queuelocker, lifeVars, workerVars, preq, interrupts>>

-------------------------------------------------------------------------------
(* run() *)

(* while(!m_stop): once the object is destroyed its memory is free, and    *)
(* the read may give something else than the value stored there.           *)
LoopTest(w) ==
  /\ wpc[w] = "test"
  /\ \E stop \in {m_stop} \cup (IF lifetime = "destroyed" THEN FreedReads ELSE {}) :
       GotoW(w, IF stop THEN "exited" ELSE "wait")
  /\ UNCHANGED <<queueVars, lifeVars, wreq, callerVars, interrupts>>

WaitReturns(w) ==
  /\ lifetime # "destroyed"
  /\ wpc[w] = "wait"
  /\ SemWait
  /\ GotoW(w, "lock")
  /\ UNCHANGED <<m_workqueue, m_queuelocker, lifeVars, wreq, callerVars, interrupts>>

(* sem_wait fails with EINTR; run() does not look at the result.           *)
WaitInterrupted(w) ==
  /\ lifetime # "destroyed"
  /\ wpc[w] = "wait"
  /\ interrupts < MaxInterrupts
  /\ interrupts' = interrupts + 1
  /\ GotoW(w, "lock")
  /\ UNCHANGED <<queueVars, lifeVars, wreq, callerVars>>

WorkerLock(w) ==
  /\ lifetime # "destroyed"
  /\ wpc[w] = "lock"
  /\ Lock(w)
  /\ GotoW(w, "empty")
  /\ UNCHANGED <<m_workqueue, m_queuestat, lifeVars, wreq, callerVars, interrupts>>

QueueEmptyNeverTested == FALSE                          \* mutant

QueueEmpty == m_workqueue = << >>

EmptyCheck(w) ==
  /\ lifetime # "destroyed"
  /\ wpc[w] = "empty"
  /\ IF QueueEmpty
     THEN Unlock /\ GotoW(w, "test")
     ELSE UNCHANGED m_queuelocker /\ GotoW(w, "take")
  /\ UNCHANGED <<m_workqueue, m_queuestat, lifeVars, wreq, callerVars, interrupts>>

PopNewest(q) == SubSeq(q, 1, Len(q) - 1)                \* mutant

PopFront(q) == Tail(q)

Take(w) ==
  /\ lifetime # "destroyed"
  /\ wpc[w] = "take"
  /\ wreq' = [wreq EXCEPT ![w] = Head(m_workqueue)]
  /\ m_workqueue' = PopFront(m_workqueue)
  /\ GotoW(w, "unlock")
  /\ UNCHANGED <<m_queuelocker, m_queuestat, lifeVars, callerVars, interrupts>>

WorkerUnlock(w) ==
  /\ lifetime # "destroyed"
  /\ wpc[w] = "unlock"
  /\ Unlock
  /\ GotoW(w, IF wreq[w] = NoRequest THEN "test" ELSE "process")
  /\ UNCHANGED <<m_workqueue, m_queuestat, lifeVars, wreq, callerVars, interrupts>>

ProcessReturns(w) ==
  /\ wpc[w] = "process"
  /\ wreq' = [wreq EXCEPT ![w] = NoRequest]
  /\ GotoW(w, "test")
  /\ UNCHANGED <<queueVars, lifeVars, callerVars, interrupts>>

(* A worker uses a member of the destroyed object: whatever happens to it  *)
(* afterwards is no longer the program's doing.  A worker asleep in        *)
(* sem_wait stays asleep.                                                  *)
UseDestroyed(w) ==
  /\ lifetime = "destroyed"
  /\ \/ wpc[w] \in {"lock", "empty", "take", "unlock"}
     \/ wpc[w] = "wait" /\ m_queuestat > 0
  /\ GotoW(w, "undefined")
  /\ UNCHANGED <<queueVars, lifeVars, wreq, callerVars, interrupts>>

-------------------------------------------------------------------------------
CallerNext(p) ==
  \/ \E r \in Request : AppendCall(p, r)
  \/ AppendLock(p) \/ AppendCheck(p) \/ AppendPush(p)
  \/ AppendUnlock(p) \/ AppendPost(p)

WorkerNext(w) ==
  \/ CreateThread(w)
  \/ LoopTest(w) \/ WaitReturns(w) \/ WaitInterrupted(w) \/ WorkerLock(w)
  \/ EmptyCheck(w) \/ Take(w) \/ WorkerUnlock(w) \/ ProcessReturns(w)
  \/ UseDestroyed(w)

Next ==
  \/ Constructed \/ CreateFails \/ Destroy
  \/ \E p \in Producers : CallerNext(p)
  \/ \E w \in Workers : WorkerNext(w)

Spec == Init /\ [][Next]_vars

(* Every thread that can run does run, process() returns, and a thread     *)
(* that keeps asking for the mutex or the semaphore gets it in the end.    *)
(* Nobody is obliged to call append, to destroy the pool or to interrupt.  *)
Fairness ==
  /\ WF_vars(Constructed)
  /\ \A w \in Workers :
       /\ WF_vars(CreateThread(w))
       /\ WF_vars(LoopTest(w)) /\ WF_vars(EmptyCheck(w)) /\ WF_vars(Take(w))
       /\ WF_vars(WorkerUnlock(w)) /\ WF_vars(ProcessReturns(w))
       /\ WF_vars(UseDestroyed(w))
       /\ SF_vars(WaitReturns(w)) /\ SF_vars(WorkerLock(w))
  /\ \A p \in Producers :
       /\ SF_vars(AppendLock(p)) /\ WF_vars(AppendCheck(p))
       /\ WF_vars(AppendPush(p)) /\ WF_vars(AppendUnlock(p))
       /\ WF_vars(AppendPost(p))

FairSpec == Spec /\ Fairness
-------------------------------------------------------------------------------
(* Properties *)

(* The mutex serves its purpose: a thread between its lock() and unlock()  *)
(* calls is the owner, so no two threads are on m_workqueue at once.       *)
LockInv ==
  /\ \A w \in Workers : wpc[w] \in {"empty", "take", "unlock"} => m_queuelocker = w
  /\ \A p \in Producers : ppc[p] \in {"check", "push", "unlock"} => m_queuelocker = p

(* front() and pop_front() are never called on an empty list, however      *)
(* many waits were interrupted: the emptiness tested under the lock is     *)
(* still the truth when the worker takes.                                  *)
TakeSafe == \A w \in Workers : wpc[w] = "take" => m_workqueue # << >>

(* The list is bounded; the test is `size() > m_max_requests', so by one   *)
(* more than m_max_requests.                                               *)
Capacity == Len(m_workqueue) =< MaxRequests + 1

Woken   == {w \in Workers : wpc[w] \in {"lock", "empty", "take"}}
Posting == {p \in Producers : ppc[p] \in {"unlock", "post"}}
Wakeups == m_queuestat + Cardinality(Woken) + Cardinality(Posting)

(* No wakeup is lost and none is invented: for every queued request there  *)
(* is a semaphore unit, a worker already let through or a caller about to  *)
(* post, and the surplus is at most the number of interrupted waits.       *)
NoLostWakeup ==
  lifetime # "destroyed" =>
    /\ Len(m_workqueue) =< Wakeups
    /\ Wakeups =< Len(m_workqueue) + interrupts

(* The pool keeps the promise of WorkPool: FIFO, each accepted request     *)
(* started once, by one worker.                                            *)
Pool == INSTANCE WorkPool WITH
          queue <- m_workqueue,
          serving <- wreq,
          stopped <- lifetime = "destroyed"

ImplementsPool == Pool!PoolSpec

(* While the pool lives and a worker is free, a waiting request is started.*)
ImplementsLivePool == Pool!PoolLiveness

(* An accepted request reaches a worker unless the pool is destroyed.      *)
EveryRequestServed ==
  \A r \in Requests :
    (\E i \in 1 .. Len(m_workqueue) : m_workqueue[i] = r)
      ~> (lifetime = "destroyed" \/ \E w \in Workers : wreq[w] = r)
===============================================================================
