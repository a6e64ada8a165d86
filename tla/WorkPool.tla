------------------------------- MODULE WorkPool -------------------------------
(***************************************************************************)
(* What threadpool<T> promises to its caller, with its lock and its        *)
(* semaphore left out: a bounded FIFO of accepted requests, and a set of   *)
(* worker threads each of which serves one request at a time.  A request   *)
(* leaves the FIFO exactly when one worker starts to serve it.             *)
(*                                                                         *)
(* ThreadPool is shown to implement this module; HttpServer is built on    *)
(* it, so that the server is checked against the promise and not against   *)
(* the lock steps.                                                         *)
(***************************************************************************)
EXTENDS Naturals, Sequences

CONSTANTS
  Workers,        \* the threads created by the constructor
  Requests,       \* the objects whose process() the workers call
  NoRequest,      \* the null pointer: no request at hand
  MaxRequests     \* m_max_requests

VARIABLES
  queue,          \* accepted requests not yet given to a worker
  serving,        \* serving[w]: the request worker w is serving, or NoRequest
  stopped         \* the pool has been destroyed

poolVars == <<queue, serving, stopped>>

Request == Requests \cup {NoRequest}

PoolTypeOK ==
  /\ queue \in Seq(Request)
  /\ serving \in [Workers -> Request]
  /\ stopped \in BOOLEAN

PoolInit ==
  /\ queue = << >>
  /\ serving = [w \in Workers |-> NoRequest]
  /\ stopped = FALSE

(* The test that append makes: the queue already holds more than            *)
(* MaxRequests requests.                                                    *)
Full(q) == Len(q) > MaxRequests

(* append returned true.                                                    *)
Accept(r) ==
  /\ ~ Full(queue)
  /\ queue' = Append(queue, r)
  /\ UNCHANGED serving

(* append returned false: nothing changes.                                  *)
Reject ==
  /\ Full(queue)
  /\ UNCHANGED <<queue, serving>>

(* Worker w takes the oldest request.  A null request is dropped.           *)
Start(w) ==
  /\ serving[w] = NoRequest
  /\ queue # << >>
  /\ serving' = [serving EXCEPT ![w] = Head(queue)]
  /\ queue' = Tail(queue)

(* process() returned.                                                      *)
Finish(w) ==
  /\ serving[w] # NoRequest
  /\ serving' = [serving EXCEPT ![w] = NoRequest]
  /\ UNCHANGED queue

(* The destructor.  A worker that is in process() comes back from it.       *)
Stop ==
  /\ ~ stopped
  /\ stopped' = TRUE
  /\ UNCHANGED <<queue, serving>>

PoolNext ==
  \/ /\ ~ stopped /\ UNCHANGED stopped
     /\ \/ \E r \in Request : Accept(r)
        \/ \E w \in Workers : Start(w)
  \/ /\ UNCHANGED stopped
     /\ \E w \in Workers : Finish(w)
  \/ Stop

PoolSpec == PoolInit /\ [][PoolNext]_poolVars

(* Until the pool is destroyed, a waiting request is taken by some worker,  *)
(* and every worker comes back from process().                              *)
PoolLiveness ==
  /\ WF_poolVars(~ stopped /\ UNCHANGED stopped /\ \E w \in Workers : Start(w))
  /\ \A w \in Workers :
       WF_poolVars(~ stopped /\ UNCHANGED stopped /\ Finish(w))

PoolLiveSpec == PoolSpec /\ PoolLiveness
===============================================================================
