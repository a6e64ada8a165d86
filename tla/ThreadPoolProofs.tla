--------------------------- MODULE ThreadPoolProofs ---------------------------
(***************************************************************************)
(* Theorems about ThreadPool, for any numbers of workers, callers,         *)
(* requests and interrupted waits, and any m_max_requests.                 *)
(***************************************************************************)
EXTENDS ThreadPool, FiniteSetTheorems, TLAPS

USE DEF Threads, Request, WorkerPCs, CallerPCs

(* The inductive invariant.  TakeSafe and Capacity are kept only because   *)
(* the mutex keeps the tested length true until it is acted upon, which    *)
(* for a caller takes the fact that it pushes into a list with room.       *)
PushRoom == \A p \in Producers : ppc[p] = "push" => ~ QueueFull

PoolInv == TypeOK /\ LockInv /\ TakeSafe /\ PushRoom /\ Capacity

-------------------------------------------------------------------------------
(* The pool's variables stay in their types whatever step is taken         *)
(* (all of threadpool.h's operations).                                     *)
LEMMA TypeStep == TypeOK /\ TakeSafe /\ [Next]_vars => TypeOK'
<1> SUFFICES ASSUME TypeOK, TakeSafe, [Next]_vars PROVE TypeOK'
  OBVIOUS
<1> USE PoolAssumption DEF TypeOK
<1>1. CASE UNCHANGED vars
  BY <1>1 DEF vars, queueVars, lifeVars, workerVars, callerVars
<1>2. CASE Constructed \/ CreateFails \/ Destroy
  BY <1>2 DEF Constructed, CreateFails, Destroy, queueVars, workerVars, callerVars
<1>3. ASSUME NEW p \in Producers, CallerNext(p) PROVE TypeOK'
  <2>1. CASE \E r \in Request : AppendCall(p, r)
    BY <2>1 DEF AppendCall, GotoP, queueVars, lifeVars, workerVars
  <2>2. CASE AppendLock(p)
    BY <2>2 DEF AppendLock, Lock, GotoP, lifeVars, workerVars
  <2>3. CASE AppendCheck(p)
    BY <2>3 DEF AppendCheck, Unlock, GotoP, lifeVars, workerVars
  <2>4. CASE AppendPush(p)
    BY <2>4 DEF AppendPush, GotoP, lifeVars, workerVars
  <2>5. CASE AppendUnlock(p)
    BY <2>5 DEF AppendUnlock, Unlock, GotoP, lifeVars, workerVars
  <2>6. CASE AppendPost(p)
    BY <2>6 DEF AppendPost, SemPost, GotoP, lifeVars, workerVars
  <2> QED
    BY <1>3, <2>1, <2>2, <2>3, <2>4, <2>5, <2>6 DEF CallerNext
<1>4. ASSUME NEW w \in Workers, WorkerNext(w) PROVE TypeOK'
  <2> USE DEF GotoW, queueVars, lifeVars, callerVars
  <2>1. CASE CreateThread(w)
    BY <2>1 DEF CreateThread
  <2>2. CASE LoopTest(w)
    BY <2>2 DEF LoopTest
  <2>3. CASE WaitReturns(w)
    BY <2>3 DEF WaitReturns, SemWait
  <2>4. CASE WaitInterrupted(w)
    BY <2>4 DEF WaitInterrupted
  <2>5. CASE WorkerLock(w)
    BY <2>5 DEF WorkerLock, Lock
  <2>6. CASE EmptyCheck(w)
    BY <2>6 DEF EmptyCheck, Unlock
  <2>7. CASE Take(w)
    BY <2>7 DEF Take, PopFront, TakeSafe
  <2>8. CASE WorkerUnlock(w)
    BY <2>8 DEF WorkerUnlock, Unlock
  <2>9. CASE ProcessReturns(w)
    BY <2>9 DEF ProcessReturns
  <2>10. CASE UseDestroyed(w)
    BY <2>10 DEF UseDestroyed
  <2> QED
    BY <1>4, <2>1, <2>2, <2>3, <2>4, <2>5, <2>6, <2>7, <2>8, <2>9, <2>10
       DEF WorkerNext
<1> QED
  BY <1>1, <1>2, <1>3, <1>4 DEF Next

(* lock() and unlock() keep every thread in a critical section the owner.  *)
LEMMA LockStep == TypeOK /\ LockInv /\ [Next]_vars => LockInv'
<1> SUFFICES ASSUME TypeOK, LockInv, [Next]_vars PROVE LockInv'
  OBVIOUS
<1> USE PoolAssumption DEF TypeOK, LockInv
<1>1. CASE UNCHANGED vars
  BY <1>1 DEF vars
<1>2. CASE Constructed \/ CreateFails \/ Destroy
  BY <1>2 DEF Constructed, CreateFails, Destroy, queueVars, workerVars, callerVars
<1>3. ASSUME NEW p \in Producers, CallerNext(p) PROVE LockInv'
  <2> USE DEF GotoP, queueVars, workerVars
  <2>1. CASE \E r \in Request : AppendCall(p, r)
    BY <2>1 DEF AppendCall
  <2>2. CASE AppendLock(p)
    BY <2>2 DEF AppendLock, Lock
  <2>3. CASE AppendCheck(p)
    BY <2>3 DEF AppendCheck, Unlock
  <2>4. CASE AppendPush(p)
    BY <2>4 DEF AppendPush
  <2>5. CASE AppendUnlock(p)
    BY <2>5 DEF AppendUnlock, Unlock
  <2>6. CASE AppendPost(p)
    BY <2>6 DEF AppendPost
  <2> QED
    BY <1>3, <2>1, <2>2, <2>3, <2>4, <2>5, <2>6 DEF CallerNext
<1>4. ASSUME NEW w \in Workers, WorkerNext(w) PROVE LockInv'
  <2> USE DEF GotoW, queueVars, lifeVars, callerVars
  <2>1. CASE CreateThread(w)
    BY <2>1 DEF CreateThread
  <2>2. CASE LoopTest(w)
    BY <2>2 DEF LoopTest
  <2>3. CASE WaitReturns(w)
    BY <2>3 DEF WaitReturns
  <2>4. CASE WaitInterrupted(w)
    BY <2>4 DEF WaitInterrupted
  <2>5. CASE WorkerLock(w)
    BY <2>5 DEF WorkerLock, Lock
  <2>6. CASE EmptyCheck(w)
    BY <2>6 DEF EmptyCheck, Unlock
  <2>7. CASE Take(w)
    BY <2>7 DEF Take
  <2>8. CASE WorkerUnlock(w)
    BY <2>8 DEF WorkerUnlock, Unlock
  <2>9. CASE ProcessReturns(w)
    BY <2>9 DEF ProcessReturns
  <2>10. CASE UseDestroyed(w)
    BY <2>10 DEF UseDestroyed
  <2> QED
    BY <1>4, <2>1, <2>2, <2>3, <2>4, <2>5, <2>6, <2>7, <2>8, <2>9, <2>10
       DEF WorkerNext
<1> QED
  BY <1>1, <1>2, <1>3, <1>4 DEF Next

(* What a thread saw of the list's length under the lock is still true     *)
(* when it acts on it.                                                     *)
LEMMA LengthStep ==
  PoolInv /\ [Next]_vars => TakeSafe' /\ PushRoom' /\ Capacity'
<1> SUFFICES ASSUME PoolInv, [Next]_vars
             PROVE  TakeSafe' /\ PushRoom' /\ Capacity'
  OBVIOUS
<1> USE PoolAssumption
    DEF PoolInv, TypeOK, LockInv, TakeSafe, PushRoom, Capacity, QueueFull
<1>1. CASE UNCHANGED vars
  BY <1>1 DEF vars
<1>2. CASE Constructed \/ CreateFails \/ Destroy
  BY <1>2 DEF Constructed, CreateFails, Destroy, queueVars, workerVars, callerVars
<1>3. ASSUME NEW p \in Producers, CallerNext(p)
      PROVE  TakeSafe' /\ PushRoom' /\ Capacity'
  <2> USE DEF GotoP, queueVars, workerVars
  <2>1. CASE \E r \in Request : AppendCall(p, r)
    BY <2>1 DEF AppendCall
  <2>2. CASE AppendLock(p)
    BY <2>2 DEF AppendLock
  <2>3. CASE AppendCheck(p)
    BY <2>3 DEF AppendCheck
  <2>4. CASE AppendPush(p)
    <3>1. Len(m_workqueue') = Len(m_workqueue) + 1 /\ m_workqueue' # << >>
      BY <2>4 DEF AppendPush
    <3>2. ASSUME NEW q \in Producers, ppc'[q] = "push" PROVE FALSE
      BY <2>4, <3>2 DEF AppendPush
    <3> QED
      BY <2>4, <3>1, <3>2 DEF AppendPush
  <2>5. CASE AppendUnlock(p)
    BY <2>5 DEF AppendUnlock
  <2>6. CASE AppendPost(p)
    BY <2>6 DEF AppendPost
  <2> QED
    BY <1>3, <2>1, <2>2, <2>3, <2>4, <2>5, <2>6 DEF CallerNext
<1>4. ASSUME NEW w \in Workers, WorkerNext(w)
      PROVE  TakeSafe' /\ PushRoom' /\ Capacity'
  <2> USE DEF GotoW, queueVars, lifeVars, callerVars
  <2>1. CASE CreateThread(w)
    BY <2>1 DEF CreateThread
  <2>2. CASE LoopTest(w)
    BY <2>2 DEF LoopTest
  <2>3. CASE WaitReturns(w)
    BY <2>3 DEF WaitReturns
  <2>4. CASE WaitInterrupted(w)
    BY <2>4 DEF WaitInterrupted
  <2>5. CASE WorkerLock(w)
    BY <2>5 DEF WorkerLock
  <2>6. CASE EmptyCheck(w)
    BY <2>6 DEF EmptyCheck, QueueEmpty
  <2>7. CASE Take(w)
    <3>1. Len(m_workqueue') = Len(m_workqueue) - 1
      BY <2>7 DEF Take, PopFront
    <3>2. ASSUME NEW v \in Workers, wpc'[v] = "take" PROVE FALSE
      BY <2>7, <3>2 DEF Take
    <3> QED
      BY <2>7, <3>1, <3>2 DEF Take
  <2>8. CASE WorkerUnlock(w)
    BY <2>8 DEF WorkerUnlock
  <2>9. CASE ProcessReturns(w)
    BY <2>9 DEF ProcessReturns
  <2>10. CASE UseDestroyed(w)
    BY <2>10 DEF UseDestroyed
  <2> QED
    BY <1>4, <2>1, <2>2, <2>3, <2>4, <2>5, <2>6, <2>7, <2>8, <2>9, <2>10
       DEF WorkerNext
<1> QED
  BY <1>1, <1>2, <1>3, <1>4 DEF Next

(* The strengthening is an invariant of every pool.                        *)
THEOREM PoolInvariant == Spec => []PoolInv
<1>1. Init => PoolInv
  <2> SUFFICES ASSUME Init PROVE PoolInv
    OBVIOUS
  <2> USE PoolAssumption DEF Init
  <2>1. TypeOK
    <3>1. << >> \in Seq(Request)
      OBVIOUS
    <3>2. m_workqueue \in Seq(Request) /\ m_queuestat \in Nat
      BY <3>1
    <3>3. interrupts \in 0 .. MaxInterrupts
      OBVIOUS
    <3>4. wpc \in [Workers -> WorkerPCs] /\ ppc \in [Producers -> CallerPCs]
      OBVIOUS
    <3>5. wreq \in [Workers -> Request] /\ preq \in [Producers -> Request]
      OBVIOUS
    <3> QED
      BY <3>2, <3>3, <3>4, <3>5 DEF TypeOK
  <2>2. LockInv /\ TakeSafe /\ PushRoom
    BY DEF LockInv, TakeSafe, PushRoom
  <2>3. Capacity
    <3>1. Len(m_workqueue) = 0
      OBVIOUS
    <3> QED
      BY <3>1 DEF Capacity
  <2> QED
    BY <2>1, <2>2, <2>3 DEF PoolInv
<1>2. PoolInv /\ [Next]_vars => PoolInv'
  BY TypeStep, LockStep, LengthStep DEF PoolInv
<1> QED
  BY <1>1, <1>2, PTL DEF Spec

(* Type correctness of the pool, constructor to destructor.                *)
THEOREM PoolTypeCorrect == Spec => []TypeOK
BY PoolInvariant, PTL DEF PoolInv

(* threadpool.h's m_queuelocker excludes: a thread inside a critical       *)
(* section of append or run owns the mutex.                                *)
THEOREM PoolMutualExclusion == Spec => []LockInv
BY PoolInvariant, PTL DEF PoolInv

(* run() never calls front() or pop_front() on an empty list, even if any  *)
(* number of its waits were interrupted.                                   *)
THEOREM PoolTakeSafe == Spec => []TakeSafe
BY PoolInvariant, PTL DEF PoolInv

(* append's test bounds the list by m_max_requests + 1.                    *)
THEOREM PoolCapacity == Spec => []Capacity
BY PoolInvariant, PTL DEF PoolInv

-------------------------------------------------------------------------------
(* No lost wakeup: a count over the threads' positions. *)

(* A thread that enters a finite set of threads adds one to its size, and  *)
(* one that leaves it takes one away.                                      *)
LEMMA Counting ==
  ASSUME NEW S, IsFiniteSet(S), NEW x
  PROVE  /\ x \notin S => Cardinality(S \cup {x}) = Cardinality(S) + 1
         /\ x \in S => Cardinality(S \ {x}) = Cardinality(S) - 1
BY FS_AddElement, FS_RemoveElement

(* The sets counted are finite, so their sizes are numbers.                *)
LEMMA CountersFinite ==
  /\ IsFiniteSet(Woken) /\ Cardinality(Woken) \in Nat
  /\ IsFiniteSet(Posting) /\ Cardinality(Posting) \in Nat
<1>1. IsFiniteSet(Woken) /\ IsFiniteSet(Posting)
  <2>1. Woken \subseteq Workers /\ Posting \subseteq Producers
    BY DEF Woken, Posting
  <2> QED
    BY <2>1, FS_Subset, PoolAssumption
<1> QED
  BY <1>1, FS_CardinalityType

(* A step that moves no thread into or out of the two sets, and leaves the *)
(* list, the semaphore and the interrupts alone, keeps the balance.        *)
LEMMA Quiet ==
  ASSUME NoLostWakeup, lifetime # "destroyed",
         UNCHANGED <<m_workqueue, m_queuestat, interrupts>>,
         Woken' = Woken, Posting' = Posting
  PROVE  NoLostWakeup'
BY DEF NoLostWakeup, Wakeups

LEMMA WakeupStep ==
  PoolInv /\ NoLostWakeup /\ [Next]_vars => NoLostWakeup'
<1> SUFFICES ASSUME PoolInv, NoLostWakeup, [Next]_vars,
                    lifetime # "destroyed", lifetime' # "destroyed"
             PROVE  NoLostWakeup'
  <2>1. ASSUME [Next]_vars, lifetime = "destroyed" PROVE lifetime' = "destroyed"
    BY <2>1 DEF Next, vars, Constructed, CreateFails, Destroy, CallerNext, AppendCall,
         AppendLock, AppendCheck, AppendPush, AppendUnlock, AppendPost,
         WorkerNext, CreateThread, LoopTest, WaitReturns, WaitInterrupted,
         WorkerLock, EmptyCheck, Take, WorkerUnlock, ProcessReturns,
         UseDestroyed, lifeVars
  <2> QED
    BY <2>1 DEF NoLostWakeup
<1>1. /\ Len(m_workqueue) \in Nat /\ m_queuestat \in Nat /\ interrupts \in Nat
      /\ Cardinality(Woken) \in Nat /\ Cardinality(Posting) \in Nat
  BY PoolAssumption, CountersFinite DEF PoolInv, TypeOK
<1>2. /\ Len(m_workqueue) =< m_queuestat + Cardinality(Woken) + Cardinality(Posting)
      /\ m_queuestat + Cardinality(Woken) + Cardinality(Posting)
           =< Len(m_workqueue) + interrupts
  BY DEF NoLostWakeup, Wakeups
<1>3. /\ wpc \in [Workers -> WorkerPCs] /\ ppc \in [Producers -> CallerPCs]
      /\ m_workqueue \in Seq(Request) /\ preq \in [Producers -> Request]
  BY DEF PoolInv, TypeOK
<1>4. CASE UNCHANGED vars
  BY <1>4, Quiet DEF vars, Woken, Posting
<1>5. CASE Constructed \/ CreateFails \/ Destroy
  BY <1>5, Quiet DEF Constructed, CreateFails, Destroy, Woken, Posting,
     queueVars, workerVars, callerVars
<1>6. ASSUME NEW p \in Producers, CallerNext(p) PROVE NoLostWakeup'
  <2> USE <1>3 DEF GotoP, queueVars, workerVars
  <2>1. CASE \E r \in Request : AppendCall(p, r)
    BY <2>1, Quiet DEF AppendCall, Woken, Posting
  <2>2. CASE AppendLock(p)
    BY <2>2, Quiet DEF AppendLock, Woken, Posting
  <2>3. CASE AppendCheck(p)
    BY <2>3, Quiet DEF AppendCheck, Woken, Posting
  <2>4. CASE AppendPush(p)
    <3>1. Len(m_workqueue') = Len(m_workqueue) + 1
      BY <2>4 DEF AppendPush
    <3>2. Woken' = Woken /\ m_queuestat' = m_queuestat /\ interrupts' = interrupts
      BY <2>4 DEF AppendPush, Woken
    <3>3. p \notin Posting /\ Posting' = Posting \cup {p}
      BY <2>4 DEF AppendPush, Posting
    <3>4. Cardinality(Posting') = Cardinality(Posting) + 1
      BY <3>3, Counting, CountersFinite
    <3> QED
      BY <1>1, <1>2, <3>1, <3>2, <3>4 DEF NoLostWakeup, Wakeups
  <2>5. CASE AppendUnlock(p)
    BY <2>5, Quiet DEF AppendUnlock, Woken, Posting
  <2>6. CASE AppendPost(p)
    <3>1. /\ Woken' = Woken /\ m_queuestat' = m_queuestat + 1
          /\ interrupts' = interrupts /\ m_workqueue' = m_workqueue
      BY <2>6 DEF AppendPost, SemPost, Woken
    <3>2. p \in Posting /\ Posting' = Posting \ {p}
      BY <2>6 DEF AppendPost, Posting
    <3>3. Cardinality(Posting') = Cardinality(Posting) - 1
      BY <3>2, Counting, CountersFinite
    <3> QED
      BY <1>1, <1>2, <3>1, <3>3 DEF NoLostWakeup, Wakeups
  <2> QED
    BY <1>6, <2>1, <2>2, <2>3, <2>4, <2>5, <2>6 DEF CallerNext
<1>7. ASSUME NEW w \in Workers, WorkerNext(w) PROVE NoLostWakeup'
  <2> USE <1>3 DEF GotoW, queueVars, callerVars
  <2>1. CASE CreateThread(w)
    BY <2>1, Quiet DEF CreateThread, Woken, Posting
  <2>2. CASE LoopTest(w)
    BY <2>2, Quiet DEF LoopTest, Woken, Posting
  <2>3. CASE WaitReturns(w)
    <3>1. /\ Posting' = Posting /\ m_queuestat' = m_queuestat - 1
          /\ interrupts' = interrupts /\ m_workqueue' = m_workqueue
      BY <2>3 DEF WaitReturns, SemWait, Posting
    <3>2. w \notin Woken /\ Woken' = Woken \cup {w}
      BY <2>3 DEF WaitReturns, Woken
    <3>3. Cardinality(Woken') = Cardinality(Woken) + 1
      BY <3>2, Counting, CountersFinite
    <3> QED
      BY <1>1, <1>2, <3>1, <3>3 DEF NoLostWakeup, Wakeups
  <2>4. CASE WaitInterrupted(w)
    <3>1. /\ Posting' = Posting /\ m_queuestat' = m_queuestat
          /\ interrupts' = interrupts + 1 /\ m_workqueue' = m_workqueue
      BY <2>4 DEF WaitInterrupted, Posting
    <3>2. w \notin Woken /\ Woken' = Woken \cup {w}
      BY <2>4 DEF WaitInterrupted, Woken
    <3>3. Cardinality(Woken') = Cardinality(Woken) + 1
      BY <3>2, Counting, CountersFinite
    <3> QED
      BY <1>1, <1>2, <3>1, <3>3 DEF NoLostWakeup, Wakeups
  <2>5. CASE WorkerLock(w)
    BY <2>5, Quiet DEF WorkerLock, Woken, Posting
  <2>6. CASE EmptyCheck(w)
    <3>1. /\ Posting' = Posting /\ m_queuestat' = m_queuestat
          /\ interrupts' = interrupts /\ m_workqueue' = m_workqueue
      BY <2>6 DEF EmptyCheck, Posting
    <3>2. CASE ~ QueueEmpty
      BY <2>6, <3>1, <3>2, Quiet DEF EmptyCheck, Woken
    <3>3. CASE QueueEmpty
      <4>1. w \in Woken /\ Woken' = Woken \ {w}
        BY <2>6, <3>3 DEF EmptyCheck, Woken
      <4>2. Cardinality(Woken') = Cardinality(Woken) - 1
        BY <4>1, Counting, CountersFinite
      <4>3. Cardinality(Woken) >= 1
        BY <4>1, <1>1, CountersFinite, FS_EmptySet
      <4>4. Len(m_workqueue) = 0
        BY <3>3 DEF QueueEmpty
      <4> QED
        BY <1>1, <1>2, <3>1, <4>2, <4>3, <4>4 DEF NoLostWakeup, Wakeups
    <3> QED
      BY <3>2, <3>3
  <2>7. CASE Take(w)
    <3>1. m_workqueue # << >>
      BY <2>7 DEF Take, PoolInv, TakeSafe
    <3>2. Len(m_workqueue') = Len(m_workqueue) - 1
      BY <2>7, <3>1 DEF Take, PopFront
    <3>3. /\ Posting' = Posting /\ m_queuestat' = m_queuestat
          /\ interrupts' = interrupts
      BY <2>7 DEF Take, Posting
    <3>4. w \in Woken /\ Woken' = Woken \ {w}
      BY <2>7 DEF Take, Woken
    <3>5. Cardinality(Woken') = Cardinality(Woken) - 1
      BY <3>4, Counting, CountersFinite
    <3> QED
      BY <1>1, <1>2, <3>2, <3>3, <3>5 DEF NoLostWakeup, Wakeups
  <2>8. CASE WorkerUnlock(w)
    BY <2>8, Quiet DEF WorkerUnlock, Woken, Posting
  <2>9. CASE ProcessReturns(w)
    BY <2>9, Quiet DEF ProcessReturns, Woken, Posting
  <2>10. CASE UseDestroyed(w)
    BY <2>10 DEF UseDestroyed
  <2> QED
    BY <1>7, <2>1, <2>2, <2>3, <2>4, <2>5, <2>6, <2>7, <2>8, <2>9, <2>10
       DEF WorkerNext
<1> QED
  BY <1>4, <1>5, <1>6, <1>7 DEF Next

(* The semaphore never forgets a queued request: however many threads      *)
(* append and take, and however many waits are interrupted, there are at   *)
(* least as many wakeups under way as requests in the list.                *)
THEOREM PoolNoLostWakeup == Spec => []NoLostWakeup
<1>1. Init => NoLostWakeup
  <2> SUFFICES ASSUME Init PROVE NoLostWakeup
    OBVIOUS
  <2>1. Woken = {} /\ Posting = {}
    BY DEF Init, Woken, Posting
  <2>2. Len(m_workqueue) = 0 /\ m_queuestat = 0 /\ interrupts = 0
    BY DEF Init
  <2> QED
    BY <2>1, <2>2, FS_EmptySet DEF NoLostWakeup, Wakeups
<1> QED
  BY <1>1, WakeupStep, PoolInvariant, PTL DEF Spec

-------------------------------------------------------------------------------
(* The refinement of WorkPool. *)

(* A worker that has taken nothing holds no request, and append runs only  *)
(* while the object lives.                                                 *)
HoldsNothing ==
  \A w \in Workers :
    wpc[w] \notin {"unlock", "process", "undefined"} => wreq[w] = NoRequest
CallersLive == \A p \in Producers : ppc[p] # "idle" => lifetime = "live"

LEMMA IdleStep ==
  TypeOK /\ HoldsNothing /\ CallersLive /\ [Next]_vars
    => HoldsNothing' /\ CallersLive'
<1> SUFFICES ASSUME TypeOK, HoldsNothing, CallersLive, [Next]_vars
             PROVE  HoldsNothing' /\ CallersLive'
  OBVIOUS
<1> USE PoolAssumption DEF TypeOK, HoldsNothing, CallersLive
<1>1. CASE UNCHANGED vars
  BY <1>1 DEF vars
<1>2. CASE Constructed \/ CreateFails \/ Destroy
  BY <1>2 DEF Constructed, CreateFails, Destroy, workerVars, callerVars
<1>3. ASSUME NEW p \in Producers, CallerNext(p)
      PROVE  HoldsNothing' /\ CallersLive'
  BY <1>3 DEF CallerNext, AppendCall, AppendLock, AppendCheck, AppendPush,
       AppendUnlock, AppendPost, GotoP, lifeVars, workerVars
<1>4. ASSUME NEW w \in Workers, WorkerNext(w)
      PROVE  HoldsNothing' /\ CallersLive'
  <2> USE DEF GotoW, lifeVars, callerVars
  <2>1. CASE CreateThread(w)
    BY <2>1 DEF CreateThread
  <2>2. CASE LoopTest(w) \/ WaitReturns(w) \/ WaitInterrupted(w) \/ WorkerLock(w)
    BY <2>2 DEF LoopTest, WaitReturns, WaitInterrupted, WorkerLock
  <2>3. CASE EmptyCheck(w) \/ Take(w) \/ WorkerUnlock(w)
    BY <2>3 DEF EmptyCheck, Take, WorkerUnlock
  <2>4. CASE ProcessReturns(w) \/ UseDestroyed(w)
    BY <2>4 DEF ProcessReturns, UseDestroyed
  <2> QED
    BY <1>4, <2>1, <2>2, <2>3, <2>4 DEF WorkerNext
<1> QED
  BY <1>1, <1>2, <1>3, <1>4 DEF Next

(* Every step is a step of WorkPool or leaves what WorkPool sees alone.    *)
LEMMA RefinementStep ==
  PoolInv /\ HoldsNothing /\ CallersLive /\ [Next]_vars
    => [Pool!PoolNext]_(Pool!poolVars)
<1> SUFFICES ASSUME PoolInv, HoldsNothing, CallersLive, [Next]_vars
             PROVE  Pool!PoolNext \/ UNCHANGED Pool!poolVars
  OBVIOUS
<1> USE DEF Pool!poolVars, PoolInv, TypeOK
<1>1. CASE UNCHANGED vars
  BY <1>1 DEF vars
<1>2. CASE CreateFails \/ Destroy
  <2>1. Pool!Stop
    BY <1>2 DEF CreateFails, Destroy, Pool!Stop, queueVars, workerVars
  <2> QED
    BY <2>1 DEF Pool!PoolNext
<1>5. CASE Constructed
  BY <1>5 DEF Constructed, queueVars, workerVars
<1>3. ASSUME NEW p \in Producers, CallerNext(p)
      PROVE  Pool!PoolNext \/ UNCHANGED Pool!poolVars
  <2>1. CASE AppendPush(p)
    <3>1. Pool!Accept(preq[p]) /\ lifetime # "destroyed" /\ UNCHANGED lifetime
      BY <2>1 DEF AppendPush, CallersLive, PushRoom, QueueFull, Pool!Accept,
           Pool!Full, workerVars, lifeVars
    <3> QED
      BY <3>1 DEF Pool!PoolNext, Pool!Request
  <2>2. CASE ~ AppendPush(p)
    BY <1>3, <2>2 DEF CallerNext, AppendCall, AppendLock, AppendCheck,
         AppendUnlock, AppendPost, queueVars, lifeVars, workerVars
  <2> QED
    BY <2>1, <2>2
<1>4. ASSUME NEW w \in Workers, WorkerNext(w)
      PROVE  Pool!PoolNext \/ UNCHANGED Pool!poolVars
  <2>1. CASE Take(w)
    <3>1. Pool!Start(w) /\ lifetime # "destroyed" /\ UNCHANGED lifetime
      BY <2>1 DEF Take, PopFront, TakeSafe, HoldsNothing, Pool!Start, lifeVars
    <3> QED
      BY <3>1 DEF Pool!PoolNext
  <2>2. CASE ProcessReturns(w) /\ wreq[w] # NoRequest
    <3>1. Pool!Finish(w) /\ UNCHANGED lifetime
      BY <2>2 DEF ProcessReturns, Pool!Finish, queueVars, lifeVars
    <3> QED
      BY <3>1 DEF Pool!PoolNext
  <2>3. CASE ProcessReturns(w) /\ wreq[w] = NoRequest
    <3>1. wreq' = wreq
      BY <2>3 DEF ProcessReturns
    <3> QED
      BY <2>3, <3>1 DEF ProcessReturns, queueVars, lifeVars
  <2>4. CASE CreateThread(w)
    BY <2>4 DEF CreateThread, GotoW, queueVars, lifeVars
  <2>5. CASE \/ LoopTest(w) \/ WaitReturns(w) \/ WaitInterrupted(w)
             \/ WorkerLock(w) \/ EmptyCheck(w) \/ WorkerUnlock(w)
             \/ UseDestroyed(w)
    BY <2>5 DEF LoopTest, WaitReturns, WaitInterrupted, WorkerLock, EmptyCheck,
         WorkerUnlock, UseDestroyed, queueVars, lifeVars
  <2> QED
    BY <1>4, <2>1, <2>2, <2>3, <2>4, <2>5 DEF WorkerNext
<1> QED
  BY <1>1, <1>2, <1>3, <1>4, <1>5 DEF Next

(* The lock and semaphore steps of threadpool.h keep the promise of a      *)
(* bounded FIFO from which each accepted request is started once.          *)
THEOREM PoolRefinement == Spec => ImplementsPool
<1>1. Init => Pool!PoolInit /\ HoldsNothing /\ CallersLive
  BY DEF Init, Pool!PoolInit, HoldsNothing, CallersLive
<1>2. TypeOK /\ HoldsNothing /\ CallersLive /\ [Next]_vars
        => HoldsNothing' /\ CallersLive'
  BY IdleStep
<1>3. PoolInv => TypeOK
  BY DEF PoolInv
<1> QED
  BY <1>1, <1>2, <1>3, RefinementStep, PoolInvariant, PTL
     DEF Spec, ImplementsPool, Pool!PoolSpec
===============================================================================
