--------------------------- MODULE GcRequestProofs ---------------------------
(***************************************************************************)
(* Proofs about GcRequest for any requesters, reasons and bound.           *)
(*                                                                         *)
(* finishedGcIndex may stand for "my request has been served" because the  *)
(* numbers of the finished, the executed and the queued tasks ascend, and  *)
(* because a request that no collection has yet begun for has a number     *)
(* above all of those: a new number, or that of an equal task that still   *)
(* waits in the queue.  All this holds in a life of the GC thread that     *)
(* began with an empty queue; that the queue is served at all, and nobody  *)
(* misses a notification, holds in every life.                             *)
(***************************************************************************)
EXTENDS GcRequest, WellFoundedInduction, SequenceTheorems, TLAPS

-----------------------------------------------------------------------------
(* The inductive invariant.                                                *)

Serving == gpc \notin Starting \cup {"ended"}
Orderly == Serving /\ ~inherited
Executing == gpc \in {"execute", "gc"} /\ cur.index # kAsyncIndex
Asking == {"store", "check", "wait"}

\* finishedGcIndex is kIndexExit from the exit of the GC thread to its next
\* start, and then at least the start value.  Who waits for an answer before
\* the GC thread serves has a task in the queue.
PhaseInv ==
    /\ gpc \in {"off", "begin", "ended"} => finished = kIndexExit
    /\ gpc \notin {"off", "begin", "ended"} => finished >= 1
    /\ gpc = "init" => finished = kSyncIndexStartValue
    /\ Executing => cur.index >= 1
    /\ gpc \in {"begin", "init"} /\ (\E r \in Requesters : rpc[r] \in {"check", "wait"}) =>
          syncQ # <<>>

\* One requester at a time is between reading and writing queueSyncIndex, and
\* nothing but taskQueue.Init comes between.
StoreInv ==
    \A r \in Requesters : rpc[r] = "store" =>
          /\ idx[r] >= 1
          /\ idx[r] = qIndex + 1 \/ inherited
          /\ \A s \in Requesters : rpc[s] = "store" => s = r

\* The numbers ascend.
QueueInv ==
    /\ syncQ \in Seq(Tasks)
    /\ Orderly =>
          /\ \A i, j \in 1 .. Len(syncQ) : i < j => syncQ[i].index < syncQ[j].index
          /\ finished <= qIndex
          /\ \A i \in 1 .. Len(syncQ) :
                finished < syncQ[i].index /\ syncQ[i].index <= qIndex
          /\ Executing =>
                /\ finished < cur.index /\ cur.index <= qIndex
                /\ \A i \in 1 .. Len(syncQ) : cur.index < syncQ[i].index

\* A request that no collection has finished for is above finishedGcIndex; one
\* that no collection has begun for is above the task that is executed, too.
RequestInv ==
    /\ \A r \in Requesters : seen[r] = "begun" => gpc = "gc"
    /\ \A r \in Requesters :
          rpc[r] \in Asking /\ Orderly /\ seen[r] # "done" =>
             /\ idx[r] > finished
             /\ seen[r] = "none" /\ gpc = "gc" => idx[r] > cur.index

IInv == TypeOK /\ PhaseInv /\ StoreInv /\ QueueInv /\ RequestInv

-----------------------------------------------------------------------------
(* The search for an equal task.                                           *)

\* A set of natural numbers that is not empty has a least element.
LEMMA LeastNatural ==
    ASSUME NEW T, T \subseteq Nat, T # {}
    PROVE  \E x \in T : \A y \in T : x <= y
<1>1. \E x \in T : \A y \in T : ~(<<y, x>> \in OpToRel(<, Nat))
  BY NatLessThanWellFounded, WFMin, Zenon
<1>2. PICK x \in T : \A y \in T : ~(<<y, x>> \in OpToRel(<, Nat))
  BY <1>1
<1>3. \A y \in T : ~(y < x)
  BY <1>2 DEF OpToRel
<1>4. QED
  BY <1>3

\* Last picks the last of the positions it is given.
LEMMA LastIsOne ==
    ASSUME NEW n \in Nat, NEW I, I \subseteq 1 .. n, I # {}
    PROVE  Last(I) \in I
<1> DEFINE T == {n - i : i \in I}
<1>1. PICK k \in I : TRUE
  OBVIOUS
<1>2. T \subseteq Nat
  OBVIOUS
<1>3. n - k \in T
  BY <1>1
<1>4. PICK x \in T : \A y \in T : x <= y
  <2>1. T # {}
    BY <1>3
  <2>2. QED
    BY <1>2, <2>1, LeastNatural
<1>5. PICK i \in I : x = n - i
  BY <1>4
<1>6. ASSUME NEW j \in I PROVE j <= i
  <2>1. n - j \in T
    BY <1>6
  <2>2. n - i <= n - j
    BY <1>4, <1>5, <2>1
  <2>3. i \in Int /\ j \in Int
    OBVIOUS
  <2>4. QED
    BY <2>2, <2>3
<1>7. \E l \in I : \A j \in I : j <= l
  BY <1>6
<1>8. QED
  BY <1>7 DEF Last
\* An equal queued task's number is that of a task in the queue.
LEMMA SameTask ==
    ASSUME QueueInv, NEW reason, Same(reason) # {}
    PROVE  /\ Last(Same(reason)) \in 1 .. Len(syncQ)
           /\ syncQ[Last(Same(reason))].reason = reason
<1>1. Len(syncQ) \in Nat
  BY DEF QueueInv
<1>2. Same(reason) \subseteq 1 .. Len(syncQ)
  BY DEF Same
<1>3. Last(Same(reason)) \in Same(reason)
  BY <1>1, <1>2, LastIsOne
<1>4. QED
  BY <1>3 DEF Same

-----------------------------------------------------------------------------
(* Types.                                                                  *)

Indices == {kAsyncIndex} \cup 0 .. MaxIndex + 1

\* The constructors build tasks.
LEMMA TaskTypes ==
    /\ \A reason \in Reasons, i \in Indices : InvokeGC(reason, i) \in Tasks
    /\ \A i \in Indices : Terminate(i) \in Tasks
    /\ Timeout \in Tasks
    /\ \A p : p = kPrioTimeout \/ p - kPrioInvokeGC \in NonBlocking => FromPrio(p) \in Tasks
<1>1. kAsyncIndex \in Indices
  BY DEF Indices
<1>2. \A reason \in Reasons, i \in Indices : InvokeGC(reason, i) \in Tasks
  BY DEF InvokeGC, Tasks, Indices
<1>3. \A i \in Indices : Terminate(i) \in Tasks
  BY DEF Terminate, Tasks, Indices
<1>4. Timeout \in Tasks
  BY <1>1 DEF Timeout, Tasks, Indices
<1>5. \A p : p = kPrioTimeout \/ p - kPrioInvokeGC \in NonBlocking => FromPrio(p) \in Tasks
  BY <1>1, <1>2, <1>4 DEF FromPrio, Reasons
<1>6. QED
  BY <1>2, <1>3, <1>4, <1>5

GcPCs == Starting \cup Exiting \cup {"dequeue", "pop", "sleep", "wait", "execute", "gc"}
ReqPCs == {"idle", "store", "check", "wait", "lite", "notify", "stopped", "join"}

\* The steps of the GC thread keep the types.
LEMMA TypeGc ==
    ASSUME TypeOK, QueueInv, GcStep
    PROVE  TypeOK'
<1> USE BoundAssumption DEF GcGoto, Starting, Exiting, gcVars, queueVars, doneVars, reqVars,
                            history
<1>1. CASE RunTaskLoop
  BY <1>1 DEF RunTaskLoop, TypeOK, kSyncIndexStartValue
<1>2. CASE TaskQueueInit
  BY <1>2 DEF TaskQueueInit, TypeOK, kSyncIndexStartValue
<1>3. CASE Dequeue
  <2>1. CASE syncQ # <<>>
    <3>1. Len(syncQ) \in Nat /\ Len(syncQ) # 0
      BY <2>1 DEF QueueInv
    <3>2. cur' = syncQ[1] /\ syncQ' = Tail(syncQ) /\ tq' = tq /\ gpc' = "execute"
      BY <1>3, <2>1 DEF Dequeue
    <3>3. cur' \in Tasks
      BY <3>1, <3>2 DEF TypeOK
    <3>4. /\ Len(syncQ') = Len(syncQ) - 1
          /\ \A i \in 1 .. Len(syncQ') : syncQ'[i] = syncQ[i + 1]
      BY <2>1, <3>1, <3>2 DEF QueueInv
    <3>5. \A i \in 1 .. Len(syncQ') : syncQ'[i] \in Tasks /\ syncQ'[i].index > 0
      <4>1. \A i \in 1 .. Len(syncQ') : i + 1 \in 1 .. Len(syncQ)
        BY <3>1, <3>4
      <4>2. \A i \in 1 .. Len(syncQ) : syncQ[i] \in Tasks /\ syncQ[i].index > 0
        BY DEF TypeOK
      <4>3. QED
        BY <3>4, <4>1, <4>2
    <3>6. QED
      BY <1>3, <3>2, <3>3, <3>5 DEF Dequeue, TypeOK
  <2>2. CASE syncQ = <<>>
    <3>1. \A p \in tq' : p = kPrioTimeout \/ p - kPrioInvokeGC \in NonBlocking
      BY <1>3, <2>2 DEF Dequeue, Push, TypeOK
    <3>2. UNCHANGED <<cur, syncQ>> /\ gpc' = "pop"
      BY <1>3, <2>2 DEF Dequeue
    <3>3. QED
      BY <1>3, <3>1, <3>2 DEF Dequeue, TypeOK
  <2>3. QED
    BY <2>1, <2>2
<1>4. CASE Pop
  <2>1. cur' \in Tasks
    BY <1>4, TaskTypes DEF Pop, TypeOK
  <2>2. QED
    BY <1>4, <2>1 DEF Pop, TypeOK
<1>5. CASE DequeueSleep \/ DequeueWoken \/ DequeueTimeout
  BY <1>5 DEF DequeueSleep, DequeueWoken, DequeueTimeout, TypeOK
<1>6. CASE Execute
  BY <1>6 DEF Execute, Collect, TypeOK
<1>7. CASE NotifyGCFinished
  <2>1. cur.index \in Indices
    BY DEF TypeOK, Tasks, Indices
  <2>2. finished' \in 0 .. MaxIndex + 1
    BY <1>7, <2>1 DEF NotifyGCFinished, TypeOK, Indices
  <2>3. seen' \in [Requesters -> {"none", "begun", "done"}]
    BY <1>7 DEF NotifyGCFinished, TypeOK
  <2>4. QED
    BY <1>7, <2>2, <2>3 DEF NotifyGCFinished, TypeOK
<1>8. CASE DeInit
  <2>1. Len(syncQ') = 0 /\ tq' = {}
    BY <1>8 DEF DeInit
  <2>2. QED
    BY <1>8, <2>1 DEF DeInit, TypeOK
<1>9. CASE NotifyExit
  <2>1. finished' \in 0 .. MaxIndex + 1
    BY <1>9 DEF NotifyExit, kIndexExit
  <2>2. QED
    BY <1>9, <2>1 DEF NotifyExit, TypeOK
<1>10. QED
  BY <1>1, <1>2, <1>3, <1>4, <1>5, <1>6, <1>7, <1>8, <1>9 DEF GcStep

\* So do the requesters.
LEMMA TypeRequester ==
    ASSUME TypeOK, QueueInv, StoreInv, NEW r \in Requesters,
           RequesterStep(r) \/ Request(r)
    PROVE  TypeOK'
<1> USE BoundAssumption DEF GcGoto, gcVars, queueVars, doneVars, reqVars, history
<1>0. \A reason : AfterEnqueue(reason) \in ReqPCs
  BY DEF AfterEnqueue, ReqPCs
<1>1. CASE StoreIndex(r)
  <2>1. idx[r] \in 0 .. MaxIndex + 1 /\ idx[r] > 0 /\ req[r] \in Reasons \cup {kInvalidGCReason}
    BY <1>1 DEF StoreIndex, StoreInv, TypeOK
  <2>2. PICK e \in Tasks : e.index = idx[r] /\ syncQ' = Append(syncQ, e)
    <3>1. idx[r] \in Indices
      BY <2>1 DEF Indices
    <3>2. CASE req[r] = kInvalidGCReason
      <4>1. Terminate(idx[r]) \in Tasks /\ Terminate(idx[r]).index = idx[r]
        BY <3>1, TaskTypes DEF Terminate
      <4>2. QED
        BY <1>1, <3>2, <4>1 DEF StoreIndex
    <3>3. CASE req[r] # kInvalidGCReason
      <4>1. InvokeGC(req[r], idx[r]) \in Tasks /\ InvokeGC(req[r], idx[r]).index = idx[r]
        BY <2>1, <3>1, <3>3, TaskTypes DEF InvokeGC
      <4>2. QED
        BY <1>1, <3>3, <4>1 DEF StoreIndex
    <3>4. QED
      BY <3>2, <3>3
  <2>3. \A i \in 1 .. Len(syncQ') : syncQ'[i] \in Tasks /\ syncQ'[i].index > 0
    BY <2>1, <2>2 DEF QueueInv, TypeOK
  <2>4. rpc' \in [Requesters -> ReqPCs]
    BY <1>0, <1>1 DEF StoreIndex, Goto, TypeOK, ReqPCs
  <2>5. QED
    BY <1>1, <2>1, <2>3, <2>4 DEF StoreIndex, TypeOK, ReqPCs
<1>2. CASE NotifyAsync(r) \/ WaitGCFinished(r) \/ WaitGCStoppedLite(r) \/ GCStoppedWoken(r)
  BY <1>2 DEF NotifyAsync, WaitGCFinished, WaitGCStoppedLite, GCStoppedWoken, Goto, TypeOK
<1>3. CASE JoinThread(r)
  BY <1>3 DEF JoinThread, Goto, TypeOK, Starting
<1>4. ASSUME NEW reason \in Blocking \cup LiteBlocking, EnqueueSync(r, reason) PROVE TypeOK'
  <2>1. rpc' \in [Requesters -> ReqPCs]
    BY <1>0, <1>4 DEF EnqueueSync, Goto, TypeOK, ReqPCs
  <2>2. idx' \in [Requesters -> 0 .. MaxIndex + 1]
    <3>1. CASE Same(reason) # {}
      <4>1. syncQ[Last(Same(reason))].index \in 0 .. MaxIndex + 1
        BY <3>1, SameTask DEF TypeOK, Tasks, kAsyncIndex
      <4>2. QED
        BY <1>4, <3>1, <4>1 DEF EnqueueSync, TypeOK
    <3>2. CASE Same(reason) = {}
      <4>1. qIndex + 1 \in 0 .. MaxIndex + 1
        BY <1>4 DEF EnqueueSync, TypeOK
      <4>2. QED
        BY <1>4, <3>2, <4>1 DEF EnqueueSync, TypeOK
    <3>3. QED
      BY <3>1, <3>2
  <2>3. req' \in [Requesters -> Reasons \cup {kInvalidGCReason}]
    BY <1>4 DEF EnqueueSync, TypeOK, Reasons
  <2>4. seen' \in [Requesters -> {"none", "begun", "done"}]
    BY <1>4 DEF EnqueueSync, TypeOK
  <2>5. QED
    BY <1>4, <2>1, <2>2, <2>3, <2>4 DEF EnqueueSync, TypeOK, ReqPCs
<1>5. ASSUME NEW reason \in NonBlocking, EnqueueAsync(r, reason) PROVE TypeOK'
  <2>1. (kPrioInvokeGC + reason) - kPrioInvokeGC = reason
    BY ReasonsAssumption DEF kPrioInvokeGC
  <2>2. tq' \subseteq tq \cup {kPrioInvokeGC + reason}
    BY <1>5 DEF EnqueueAsync, Push
  <2>3. \A p \in tq' : p = kPrioTimeout \/ p - kPrioInvokeGC \in NonBlocking
    BY <2>1, <2>2 DEF TypeOK
  <2>4. QED
    BY <1>5, <2>3 DEF EnqueueAsync, Goto, TypeOK
<1>6. CASE WaitGCStopped(r)
  BY <1>6 DEF WaitGCStopped, Goto, TypeOK
<1>7. CASE StopThread(r)
  <2>1. qIndex + 1 \in 0 .. MaxIndex + 1
    BY <1>7 DEF StopThread, StoreInv, TypeOK
  <2>2. req' \in [Requesters -> Reasons \cup {kInvalidGCReason}]
    BY <1>7 DEF StopThread, TypeOK
  <2>3. QED
    BY <1>7, <2>1, <2>2 DEF StopThread, Goto, TypeOK
<1>8. QED
  BY <1>1, <1>2, <1>3, <1>4, <1>5, <1>6, <1>7 DEF RequesterStep, Request

LEMMA TypeNext ==
    ASSUME TypeOK, QueueInv, StoreInv, [Next]_vars
    PROVE  TypeOK'
<1>1. CASE UNCHANGED vars
  BY <1>1 DEF vars, gcVars, queueVars, doneVars, reqVars, history, TypeOK
<1>2. CASE StartThread
  BY <1>2 DEF StartThread, GcGoto, queueVars, doneVars, reqVars, history, TypeOK, Starting
<1>3. QED
  BY <1>1, <1>2, TypeGc, TypeRequester DEF Next
-----------------------------------------------------------------------------
(* Control.                                                                *)

\* finishedGcIndex is set and reset by the GC thread only; requests made before
\* it serves stay in the queue.
LEMMA PhaseNext ==
    ASSUME TypeOK, PhaseInv, QueueInv, [Next]_vars
    PROVE  PhaseInv'
<1> USE DEF PhaseInv, Executing, GcGoto, kSyncIndexStartValue, kIndexExit
<1>1. CASE UNCHANGED vars
  BY <1>1 DEF vars, gcVars, queueVars, doneVars, reqVars
<1>2. CASE GcStep
  <2>1. CASE RunTaskLoop
    BY <2>1 DEF RunTaskLoop, queueVars, reqVars
  <2>2. CASE TaskQueueInit
    BY <2>2 DEF TaskQueueInit, doneVars, reqVars
  <2>3. CASE Dequeue
    <3>1. gpc = "dequeue" /\ gpc' \in {"execute", "pop"} /\ finished' = finished
      BY <2>3 DEF Dequeue, doneVars
    <3>2. gpc' = "execute" => cur'.index >= 1
      <4>1. CASE syncQ # <<>>
        <5>1. Len(syncQ) \in Nat /\ Len(syncQ) # 0 /\ cur' = syncQ[1]
          BY <2>3, <4>1 DEF Dequeue, QueueInv
        <5>2. syncQ[1] \in Tasks /\ syncQ[1].index > 0
          BY <5>1 DEF TypeOK
        <5>3. QED
          BY <5>1, <5>2, BoundAssumption DEF Tasks, kAsyncIndex
      <4>2. CASE syncQ = <<>>
        BY <2>3, <4>2 DEF Dequeue
      <4>3. QED
        BY <4>1, <4>2
    <3>3. QED
      BY <3>1, <3>2
  <2>4. CASE Pop
    <3>1. gpc' = "execute" => cur'.index = kAsyncIndex
      BY <2>4 DEF Pop, FromPrio, Timeout, InvokeGC
    <3>2. gpc = "pop" /\ gpc' \in {"execute", "sleep"} /\ finished' = finished
      BY <2>4 DEF Pop, doneVars
    <3>3. QED
      BY <3>1, <3>2
  <2>5. CASE DequeueSleep \/ DequeueWoken \/ DequeueTimeout
    BY <2>5 DEF DequeueSleep, DequeueWoken, DequeueTimeout, queueVars, doneVars, reqVars
  <2>6. CASE Execute
    BY <2>6 DEF Execute, Collect, queueVars, reqVars
  <2>7. CASE NotifyGCFinished
    BY <2>7 DEF NotifyGCFinished, queueVars, reqVars
  <2>8. CASE DeInit
    BY <2>8 DEF DeInit, doneVars, reqVars
  <2>9. CASE NotifyExit
    BY <2>9 DEF NotifyExit, queueVars, reqVars
  <2>10. QED
    BY <1>2, <2>1, <2>2, <2>3, <2>4, <2>5, <2>6, <2>7, <2>8, <2>9 DEF GcStep
<1>3. CASE StartThread
  BY <1>3 DEF StartThread, queueVars, doneVars, reqVars
<1>4. ASSUME NEW r \in Requesters, RequesterStep(r) \/ Request(r) PROVE PhaseInv'
  <2>1. CASE StoreIndex(r)
    <3>1. syncQ' # <<>>
      BY <2>1 DEF StoreIndex, QueueInv
    <3>2. QED
      BY <2>1, <3>1 DEF StoreIndex, gcVars, doneVars
  <2>2. CASE NotifyAsync(r) \/ WaitGCFinished(r) \/ WaitGCStoppedLite(r) \/ GCStoppedWoken(r)
    <3>1. /\ UNCHANGED <<gpc, cur, syncQ, finished>>
          /\ \A s \in Requesters :
                rpc'[s] \in {"check", "wait"} => rpc[s] \in {"check", "wait"}
      BY <2>2 DEF NotifyAsync, WaitGCFinished, WaitGCStoppedLite, GCStoppedWoken, Goto,
                  TypeOK, gcVars, queueVars, doneVars
    <3>2. QED
      BY <3>1
  <2>3. CASE JoinThread(r)
    BY <2>3 DEF JoinThread, Goto, TypeOK, queueVars, doneVars
  <2>4. ASSUME NEW reason \in Blocking \cup LiteBlocking, EnqueueSync(r, reason)
        PROVE  PhaseInv'
    <3>1. UNCHANGED <<gpc, cur, syncQ, finished>>
      BY <2>4 DEF EnqueueSync, gcVars, queueVars, doneVars
    <3>2. CASE Same(reason) # {}
      <4>1. syncQ # <<>>
        BY <3>2 DEF Same
      <4>2. QED
        BY <3>1, <4>1
    <3>3. CASE Same(reason) = {}
      <4>1. \A s \in Requesters : rpc'[s] \in {"check", "wait"} => rpc[s] = rpc'[s]
        BY <2>4, <3>3 DEF EnqueueSync, Goto, TypeOK
      <4>2. QED
        BY <3>1, <4>1
    <3>4. QED
      BY <3>2, <3>3
  <2>5. ASSUME NEW reason \in NonBlocking, EnqueueAsync(r, reason) PROVE PhaseInv'
    <3>1. /\ UNCHANGED <<gpc, cur, syncQ, finished>>
          /\ \A s \in Requesters : rpc'[s] \in {"check", "wait"} => rpc[s] = rpc'[s]
      BY <2>5 DEF EnqueueAsync, Goto, TypeOK, gcVars, doneVars
    <3>2. QED
      BY <3>1
  <2>6. CASE WaitGCStopped(r) \/ StopThread(r)
    <3>1. /\ UNCHANGED <<gpc, cur, syncQ, finished>>
          /\ \A s \in Requesters : rpc'[s] \in {"check", "wait"} => rpc[s] = rpc'[s]
      BY <2>6 DEF WaitGCStopped, StopThread, Goto, TypeOK, gcVars, queueVars, doneVars
    <3>2. QED
      BY <3>1
  <2>7. QED
    BY <1>4, <2>1, <2>2, <2>3, <2>4, <2>5, <2>6 DEF RequesterStep, Request
<1>5. QED
  BY <1>1, <1>2, <1>3, <1>4 DEF Next

\* The two accesses to queueSyncIndex are not interrupted by another one, but
\* for taskQueue.Init.
LEMMA StoreNext ==
    ASSUME TypeOK, StoreInv, [Next]_vars
    PROVE  StoreInv'
<1>0. qIndex \in Nat
  BY BoundAssumption DEF TypeOK
<1>1. CASE UNCHANGED vars
  BY <1>1 DEF vars, queueVars, reqVars, history, StoreInv
<1>2. CASE GcStep
  <2>1. UNCHANGED reqVars
    BY <1>2 DEF GcStep, RunTaskLoop, TaskQueueInit, Dequeue, Pop, DequeueSleep, DequeueWoken,
                DequeueTimeout, Execute, Collect, NotifyGCFinished, DeInit, NotifyExit
  <2>2. CASE TaskQueueInit
    BY <2>1, <2>2 DEF TaskQueueInit, StoreInv, reqVars
  <2>3. CASE ~TaskQueueInit
    <3>1. qIndex' = qIndex /\ inherited' = inherited
      BY <1>2, <2>3 DEF GcStep, RunTaskLoop, Dequeue, Pop, DequeueSleep, DequeueWoken,
         DequeueTimeout, Execute, Collect, NotifyGCFinished, DeInit, NotifyExit, queueVars,
         history
    <3>2. QED
      BY <2>1, <3>1 DEF StoreInv, reqVars
  <2>4. QED
    BY <2>2, <2>3
<1>3. CASE StartThread
  BY <1>3 DEF StartThread, StoreInv, queueVars, reqVars, history
<1>4. ASSUME NEW r \in Requesters, RequesterStep(r) \/ Request(r) PROVE StoreInv'
  <2>1. CASE StoreIndex(r)
    <3>1. \A s \in Requesters : rpc'[s] # "store"
      BY <2>1 DEF StoreIndex, StoreInv, Goto, AfterEnqueue, TypeOK
    <3>2. QED
      BY <3>1 DEF StoreInv
  <2>2. CASE NotifyAsync(r) \/ WaitGCFinished(r) \/ WaitGCStoppedLite(r) \/ GCStoppedWoken(r)
             \/ WaitGCStopped(r) \/ JoinThread(r)
    <3>1. /\ UNCHANGED <<qIndex, inherited>>
          /\ \A s \in Requesters : rpc'[s] = "store" => rpc[s] = "store" /\ idx'[s] = idx[s]
      BY <2>2 DEF NotifyAsync, WaitGCFinished, WaitGCStoppedLite, GCStoppedWoken, Goto,
                  WaitGCStopped, JoinThread, TypeOK, queueVars, history
    <3>2. QED
      BY <3>1 DEF StoreInv
  <2>3. ASSUME NEW reason \in Blocking \cup LiteBlocking, EnqueueSync(r, reason)
        PROVE  StoreInv'
    <3>1. UNCHANGED qIndex /\ \A s \in Requesters : rpc[s] # "store"
      BY <2>3 DEF EnqueueSync, QueueLocked, queueVars
    <3>2. \A s \in Requesters \ {r} : rpc'[s] = rpc[s]
      BY <2>3 DEF EnqueueSync, Goto, TypeOK
    <3>3. rpc'[r] = "store" => idx'[r] = qIndex + 1
      BY <2>3 DEF EnqueueSync, Goto, TypeOK, AfterEnqueue
    <3>4. QED
      BY <1>0, <3>1, <3>2, <3>3 DEF StoreInv
  <2>4. ASSUME NEW reason \in NonBlocking, EnqueueAsync(r, reason) PROVE StoreInv'
    <3>1. /\ UNCHANGED <<qIndex, idx, inherited>>
          /\ \A s \in Requesters : rpc'[s] = "store" => rpc[s] = "store"
      BY <2>4 DEF EnqueueAsync, Goto, TypeOK, history
    <3>2. QED
      BY <3>1 DEF StoreInv
  <2>5. CASE StopThread(r)
    <3>1. UNCHANGED qIndex /\ \A s \in Requesters : rpc[s] # "store"
      BY <2>5 DEF StopThread, QueueLocked, queueVars
    <3>2. \A s \in Requesters \ {r} : rpc'[s] = rpc[s]
      BY <2>5 DEF StopThread, Goto, TypeOK
    <3>3. idx'[r] = qIndex + 1
      BY <2>5 DEF StopThread, TypeOK
    <3>4. QED
      BY <1>0, <3>1, <3>2, <3>3 DEF StoreInv
  <2>6. QED
    BY <1>4, <2>1, <2>2, <2>3, <2>4, <2>5 DEF RequesterStep, Request
<1>5. QED
  BY <1>1, <1>2, <1>3, <1>4 DEF Next
-----------------------------------------------------------------------------
(* The order of the numbers.                                               *)

\* Numbers are integers.
LEMMA IndexTypes ==
    ASSUME TypeOK
    PROVE  /\ finished \in Nat /\ qIndex \in Nat /\ cur.index \in Int
           /\ cur.index = kAsyncIndex \/ cur.index >= 0
           /\ \A i \in 1 .. Len(syncQ) : syncQ[i].index \in Int
           /\ \A r \in Requesters : idx[r] \in Nat
<1>1. MaxIndex \in Nat
  BY BoundAssumption
<1>2. \A e \in Tasks : e.index \in Int /\ (e.index = kAsyncIndex \/ e.index >= 0)
  BY <1>1 DEF Tasks, kAsyncIndex
<1>3. QED
  BY <1>1, <1>2 DEF TypeOK

\* A task is appended with the number after all others, and executed in turn.
LEMMA QueueNext ==
    ASSUME TypeOK, PhaseInv, StoreInv, QueueInv, [Next]_vars
    PROVE  QueueInv'
<1> USE DEF Serving, Orderly, Executing, Starting, GcGoto
<1>0. /\ finished \in Nat /\ qIndex \in Nat /\ cur.index \in Int
      /\ \A i \in 1 .. Len(syncQ) : syncQ[i].index \in Int
      /\ \A r \in Requesters : idx[r] \in Nat
      /\ Len(syncQ) \in Nat
  BY IndexTypes DEF QueueInv
<1>1. CASE UNCHANGED <<gpc, cur, syncQ, qIndex, finished, inherited>>
  BY <1>1 DEF QueueInv
<1>2. CASE GcStep
  <2>1. CASE RunTaskLoop
    BY <2>1 DEF RunTaskLoop, QueueInv, queueVars
  <2>2. CASE TaskQueueInit
    <3>1. /\ syncQ' = syncQ /\ finished' = 1 /\ qIndex' = 1 /\ gpc' = "dequeue"
          /\ syncQ # <<>> => inherited'
      BY <2>2 DEF TaskQueueInit, PhaseInv, doneVars, kSyncIndexStartValue
    <3>2. QED
      BY <3>1 DEF QueueInv
  <2>3. CASE Dequeue
    <3>1. CASE syncQ # <<>>
      <4>1. Len(syncQ) # 0
        BY <3>1 DEF QueueInv
      <4>2. /\ cur' = syncQ[1] /\ syncQ' = Tail(syncQ) /\ gpc = "dequeue"
            /\ gpc' = "execute" /\ UNCHANGED <<qIndex, finished, inherited>>
        BY <2>3, <3>1 DEF Dequeue, doneVars, history
      <4>3. /\ Len(syncQ') = Len(syncQ) - 1 /\ syncQ' \in Seq(Tasks)
            /\ \A i \in 1 .. Len(syncQ') : syncQ'[i] = syncQ[i + 1]
        BY <1>0, <3>1, <4>1, <4>2 DEF QueueInv
      <4>0. SUFFICES ASSUME ~inherited PROVE QueueInv'
        BY <4>2, <4>3 DEF QueueInv
      <4>4. /\ finished <= qIndex
            /\ \A i \in 1 .. Len(syncQ) :
                  finished < syncQ[i].index /\ syncQ[i].index <= qIndex
        BY <4>0, <4>2 DEF QueueInv
      <4>5. \A i, j \in 1 .. Len(syncQ') : i < j => syncQ'[i].index < syncQ'[j].index
        <5>1. \A i \in 1 .. Len(syncQ') : i \in Int /\ i + 1 \in 1 .. Len(syncQ)
          BY <1>0, <4>3
        <5>2. \A i, j \in 1 .. Len(syncQ') : i < j => i + 1 < j + 1
          BY <5>1
        <5>3. \A i, j \in 1 .. Len(syncQ) : i < j => syncQ[i].index < syncQ[j].index
          BY <4>0, <4>2 DEF QueueInv
        <5>4. QED
          BY <4>3, <5>1, <5>2, <5>3
      <4>6. \A i \in 1 .. Len(syncQ') :
                  finished < syncQ'[i].index /\ syncQ'[i].index <= qIndex
        <5>1. \A i \in 1 .. Len(syncQ') : i + 1 \in 1 .. Len(syncQ)
          BY <1>0, <4>3
        <5>2. QED
          BY <4>3, <4>4, <5>1
      <4>7. \A i \in 1 .. Len(syncQ') : cur'.index < syncQ'[i].index
        <5>1. \A j \in 1 .. Len(syncQ) : 1 < j => syncQ[1].index < syncQ[j].index
          BY <1>0, <4>0, <4>1, <4>2 DEF QueueInv
        <5>2. \A i \in 1 .. Len(syncQ') : i + 1 \in 1 .. Len(syncQ) /\ 1 < i + 1
          BY <1>0, <4>3
        <5>3. QED
          BY <4>2, <4>3, <5>1, <5>2
      <4>8. finished < cur'.index /\ cur'.index <= qIndex
        BY <1>0, <4>1, <4>2, <4>4
      <4>9. QED
        BY <4>2, <4>3, <4>4, <4>5, <4>6, <4>7, <4>8 DEF QueueInv
    <3>2. CASE syncQ = <<>>
      BY <2>3, <3>2 DEF Dequeue, QueueInv, doneVars, history
    <3>3. QED
      BY <3>1, <3>2
  <2>4. CASE Pop
    <3>1. gpc' = "sleep" \/ cur'.index = kAsyncIndex
      BY <2>4 DEF Pop, FromPrio, Timeout, InvokeGC
    <3>2. Serving /\ UNCHANGED <<syncQ, qIndex, finished, inherited>>
      BY <2>4 DEF Pop, doneVars, history
    <3>3. QED
      BY <3>1, <3>2 DEF QueueInv
  <2>5. CASE DequeueSleep \/ DequeueWoken \/ DequeueTimeout
    BY <2>5 DEF DequeueSleep, DequeueWoken, DequeueTimeout, QueueInv, queueVars, doneVars,
                history
  <2>6. CASE Execute
    <3>1. gpc = "execute" /\ gpc' \in {"deinit", "dequeue", "gc"}
          /\ UNCHANGED <<cur, syncQ, qIndex, finished, inherited>>
      BY <2>6 DEF Execute, Collect, queueVars
    <3>2. QED
      BY <3>1 DEF QueueInv
  <2>7. CASE NotifyGCFinished
    <3>1. /\ gpc = "gc" /\ gpc' = "dequeue" /\ UNCHANGED <<cur, syncQ, qIndex, inherited>>
          /\ finished' = IF cur.index # kAsyncIndex THEN cur.index ELSE finished
      BY <2>7 DEF NotifyGCFinished, queueVars
    <3>2. QED
      BY <3>1 DEF QueueInv
  <2>8. CASE DeInit
    <3>1. /\ syncQ' = <<>> /\ gpc = "deinit" /\ gpc' = "exit"
          /\ UNCHANGED <<qIndex, finished, inherited>>
      BY <2>8 DEF DeInit, doneVars, history
    <3>2. QED
      BY <3>1 DEF QueueInv
  <2>9. CASE NotifyExit
    BY <2>9 DEF NotifyExit, QueueInv, queueVars
  <2>10. QED
    BY <1>2, <2>1, <2>2, <2>3, <2>4, <2>5, <2>6, <2>7, <2>8, <2>9 DEF GcStep
<1>3. CASE StartThread
  BY <1>3 DEF StartThread, QueueInv, queueVars, doneVars
<1>4. ASSUME NEW r \in Requesters, StoreIndex(r) PROVE QueueInv'
  <2>1. UNCHANGED <<gpc, cur, finished, inherited>> /\ qIndex' = idx[r]
    BY <1>4 DEF StoreIndex, gcVars, doneVars, history
  <2>2. PICK e \in Tasks : e.index = idx[r] /\ syncQ' = Append(syncQ, e)
    <3>1. idx[r] \in Indices
      BY <1>4 DEF TypeOK, Indices
    <3>2. CASE req[r] = kInvalidGCReason
      <4>1. Terminate(idx[r]) \in Tasks /\ Terminate(idx[r]).index = idx[r]
        BY <3>1, TaskTypes DEF Terminate
      <4>2. QED
        BY <1>4, <3>1, <3>2, <4>1 DEF StoreIndex
    <3>3. CASE req[r] # kInvalidGCReason
      <4>1. InvokeGC(req[r], idx[r]) \in Tasks /\ InvokeGC(req[r], idx[r]).index = idx[r]
        BY <3>1, <3>3, TaskTypes DEF InvokeGC, TypeOK
      <4>2. QED
        BY <1>4, <3>1, <3>3, <4>1 DEF StoreIndex
    <3>4. QED
      BY <3>2, <3>3
  <2>3. SUFFICES ASSUME Orderly PROVE QueueInv'
    BY <2>1, <2>2 DEF QueueInv
  <2>4. idx[r] = qIndex + 1
    BY <1>4, <2>3 DEF StoreIndex, StoreInv
  <2>5. /\ syncQ' \in Seq(Tasks) /\ Len(syncQ') = Len(syncQ) + 1
        /\ \A i \in 1 .. Len(syncQ) : syncQ'[i] = syncQ[i]
        /\ syncQ'[Len(syncQ) + 1].index = qIndex + 1
    BY <2>4, <2>2 DEF QueueInv
  <2>6. ASSUME NEW i \in 1 .. Len(syncQ')
        PROVE  \/ i \in 1 .. Len(syncQ) /\ syncQ'[i].index = syncQ[i].index
               \/ i = Len(syncQ) + 1 /\ syncQ'[i].index = qIndex + 1
    <3>1. i \in 1 .. Len(syncQ) \/ i = Len(syncQ) + 1
      BY <1>0, <2>5, <2>6
    <3>2. QED
      BY <2>5, <3>1
  <2>7. /\ finished <= qIndex
        /\ \A i \in 1 .. Len(syncQ) : finished < syncQ[i].index /\ syncQ[i].index <= qIndex
        /\ Executing => /\ finished < cur.index /\ cur.index <= qIndex
                        /\ \A i \in 1 .. Len(syncQ) : cur.index < syncQ[i].index
    BY <2>3 DEF QueueInv
  <2>8. /\ finished < qIndex + 1
        /\ \A i \in 1 .. Len(syncQ) : /\ syncQ[i].index < qIndex + 1
                                      /\ syncQ[i].index <= qIndex + 1
        /\ Executing => cur.index < qIndex + 1
    BY <1>0, <2>7
  <2>9. \A i, j \in 1 .. Len(syncQ') : i < j => syncQ'[i].index < syncQ'[j].index
    <3>1. \A i, j \in 1 .. Len(syncQ) : i < j => syncQ[i].index < syncQ[j].index
      BY <2>3 DEF QueueInv
    <3>2. SUFFICES ASSUME NEW i \in 1 .. Len(syncQ'), NEW j \in 1 .. Len(syncQ'), i < j
                   PROVE  syncQ'[i].index < syncQ'[j].index
      OBVIOUS
    <3>3. i \in 1 .. Len(syncQ) /\ syncQ'[i].index = syncQ[i].index
      <4>1. i # Len(syncQ) + 1
        BY <1>0, <2>5, <3>2
      <4>2. QED
        BY <2>6, <4>1
    <3>4. CASE j \in 1 .. Len(syncQ) /\ syncQ'[j].index = syncQ[j].index
      BY <3>1, <3>2, <3>3, <3>4
    <3>5. CASE syncQ'[j].index = qIndex + 1
      BY <2>8, <3>3, <3>5
    <3>6. QED
      BY <2>6, <3>4, <3>5
  <2>10. \A i \in 1 .. Len(syncQ') : finished < syncQ'[i].index /\ syncQ'[i].index <= qIndex + 1
    <3>1. qIndex + 1 <= qIndex + 1
      BY <1>0
    <3>2. QED
      BY <2>6, <2>7, <2>8, <3>1
  <2>11. Executing => \A i \in 1 .. Len(syncQ') : cur.index < syncQ'[i].index
    BY <2>6, <2>7, <2>8
  <2>12. QED
    BY <1>0, <2>1, <2>4, <2>5, <2>7, <2>9, <2>10, <2>11 DEF QueueInv
<1>5. ASSUME NEW r \in Requesters, RequesterStep(r) \/ Request(r), ~StoreIndex(r)
      PROVE  QueueInv'
  <2>1. CASE JoinThread(r)
    BY <2>1 DEF JoinThread, QueueInv, queueVars, doneVars
  <2>2. CASE ~JoinThread(r)
    <3>1. UNCHANGED <<gpc, cur, syncQ, qIndex, finished, inherited>>
      BY <1>5, <2>2 DEF RequesterStep, NotifyAsync, WaitGCFinished, WaitGCStoppedLite,
           GCStoppedWoken, Request, EnqueueSync, EnqueueAsync, WaitGCStopped, StopThread,
           gcVars, queueVars, doneVars, history
    <3>2. QED
      BY <1>1, <3>1
  <2>3. QED
    BY <2>1, <2>2
<1>6. UNCHANGED vars => UNCHANGED <<gpc, cur, syncQ, qIndex, finished, inherited>>
  BY DEF vars, gcVars, queueVars, doneVars, history
<1>7. QED
  BY <1>1, <1>2, <1>3, <1>4, <1>5, <1>6 DEF Next

\* A requester's new number is above what is finished and what is executed.
LEMMA NewRequest ==
    ASSUME TypeOK, QueueInv, Orderly, NEW n,
           n = qIndex + 1 \/ \E i \in 1 .. Len(syncQ) : n = syncQ[i].index
    PROVE  n > finished /\ (gpc = "gc" => n > cur.index)
<1>1. n \in Int /\ n > finished
  BY IndexTypes DEF QueueInv
<1>2. CASE gpc = "gc" /\ cur.index # kAsyncIndex
  BY <1>1, <1>2, IndexTypes DEF QueueInv, Executing
<1>3. CASE gpc = "gc" /\ cur.index = kAsyncIndex
  BY <1>1, <1>3, IndexTypes DEF kAsyncIndex
<1>4. QED
  BY <1>1, <1>2, <1>3

\* No collection finishes a request it has not begun for.
LEMMA RequestNext ==
    ASSUME IInv, [Next]_vars
    PROVE  RequestInv'
<1> USE DEF RequestInv, Asking, GcGoto, Orderly, Serving, Starting
<1>0. TypeOK /\ PhaseInv /\ QueueInv /\ StoreInv /\ RequestInv
  BY DEF IInv
<1>00. /\ finished \in Nat /\ qIndex \in Nat /\ cur.index \in Int
       /\ \A r \in Requesters : idx[r] \in Nat
  BY <1>0, IndexTypes
<1>1. CASE UNCHANGED vars
  BY <1>0, <1>1 DEF vars, gcVars, doneVars, reqVars, history
<1>2. CASE GcStep
  <2>1. CASE RunTaskLoop \/ TaskQueueInit
    <3>1. /\ gpc' # "gc" /\ gpc \in {"begin", "init"} /\ UNCHANGED <<rpc, seen>>
          /\ \/ gpc' = "init"
             \/ inherited' = (syncQ # <<>> \/ \E r \in Requesters : rpc[r] = "store")
      BY <2>1 DEF RunTaskLoop, TaskQueueInit, reqVars, history
    <3>2. Orderly' => \A r \in Requesters : rpc[r] \notin Asking
      BY <1>0, <3>1 DEF PhaseInv
    <3>3. QED
      BY <1>0, <3>1, <3>2
  <2>2. CASE Dequeue \/ Pop \/ DequeueSleep \/ DequeueWoken \/ DequeueTimeout \/ DeInit
    <3>1. /\ Serving /\ gpc # "gc" /\ gpc' # "gc"
          /\ UNCHANGED <<rpc, idx, seen, finished, inherited>>
      BY <2>2 DEF Dequeue, Pop, DequeueSleep, DequeueWoken, DequeueTimeout, DeInit, reqVars,
                  doneVars, history
    <3>2. QED
      BY <1>0, <3>1
  <2>3. CASE Execute
    <3>1. gpc = "execute" /\ UNCHANGED <<rpc, idx, finished, inherited>>
      BY <2>3 DEF Execute, Collect, reqVars
    <3>2. \/ gpc' \in {"deinit", "dequeue"} /\ UNCHANGED seen
          \/ gpc' = "gc" /\ \A r \in Requesters :
                              seen'[r] = IF seen[r] = "none" THEN "begun" ELSE seen[r]
      BY <2>3 DEF Execute, Collect
    <3>3. QED
      BY <1>0, <3>1, <3>2 DEF TypeOK
  <2>4. CASE NotifyGCFinished
    <3>1. /\ gpc = "gc" /\ gpc' = "dequeue" /\ UNCHANGED <<rpc, idx, inherited>>
          /\ finished' = IF cur.index # kAsyncIndex THEN cur.index ELSE finished
          /\ \A r \in Requesters : seen'[r] = IF seen[r] = "begun" THEN "done" ELSE seen[r]
      BY <2>4 DEF NotifyGCFinished, reqVars
    <3>2. QED
      BY <1>0, <3>1 DEF TypeOK
  <2>5. CASE NotifyExit
    BY <1>0, <2>5 DEF NotifyExit, reqVars, history
  <2>6. QED
    BY <1>2, <2>1, <2>2, <2>3, <2>4, <2>5 DEF GcStep
<1>3. CASE StartThread
  BY <1>0, <1>3 DEF StartThread, reqVars, history
<1>4. ASSUME NEW r \in Requesters, RequesterStep(r) \/ Request(r) PROVE RequestInv'
  <2>1. CASE StoreIndex(r) \/ NotifyAsync(r) \/ WaitGCFinished(r) \/ WaitGCStoppedLite(r)
             \/ GCStoppedWoken(r)
    <3>1. /\ UNCHANGED <<gpc, cur, finished, idx, history>>
          /\ \A s \in Requesters : rpc'[s] \in Asking => rpc[s] \in Asking
      BY <1>0, <2>1 DEF StoreIndex, NotifyAsync, WaitGCFinished, WaitGCStoppedLite,
           GCStoppedWoken, Goto, TypeOK, gcVars, doneVars
    <3>2. QED
      BY <1>0, <3>1 DEF history
  <2>2. CASE JoinThread(r)
    <3>1. gpc = "ended" /\ gpc' = "off" /\ UNCHANGED seen
      BY <2>2 DEF JoinThread, history
    <3>2. QED
      BY <1>0, <3>1
  <2>3. CASE WaitGCStopped(r)
    <3>1. /\ UNCHANGED <<gpc, cur, finished, seen, inherited>>
          /\ \A s \in Requesters \ {r} : rpc'[s] = rpc[s] /\ idx'[s] = idx[s]
          /\ rpc'[r] = "stopped"
      BY <1>0, <2>3 DEF WaitGCStopped, Goto, TypeOK, gcVars, history
    <3>2. QED
      BY <1>0, <3>1
  <2>4. ASSUME NEW reason \in NonBlocking, EnqueueAsync(r, reason) PROVE RequestInv'
    <3>1. /\ UNCHANGED <<gpc, cur, finished, seen, idx, inherited>>
          /\ \A s \in Requesters : rpc'[s] \in Asking => rpc[s] \in Asking
      BY <1>0, <2>4 DEF EnqueueAsync, Goto, TypeOK, gcVars, doneVars, history
    <3>2. QED
      BY <1>0, <3>1
  <2>5. ASSUME NEW reason \in Blocking \cup LiteBlocking, EnqueueSync(r, reason)
        PROVE  RequestInv'
    <3>1. /\ UNCHANGED <<gpc, cur, finished, inherited>>
          /\ \A s \in Requesters \ {r} :
                rpc'[s] = rpc[s] /\ idx'[s] = idx[s] /\ seen'[s] = seen[s]
          /\ seen'[r] = "none"
      BY <1>0, <2>5 DEF EnqueueSync, Goto, TypeOK, gcVars, doneVars
    <3>2. idx'[r] = qIndex + 1 \/ \E i \in 1 .. Len(syncQ) : idx'[r] = syncQ[i].index
      BY <1>0, <2>5, SameTask DEF EnqueueSync, TypeOK
    <3>3. Orderly => idx'[r] > finished /\ (gpc = "gc" => idx'[r] > cur.index)
      BY <1>0, <3>2, NewRequest
    <3>4. QED
      BY <1>0, <3>1, <3>3
  <2>6. CASE StopThread(r)
    <3>1. /\ UNCHANGED <<gpc, cur, finished, seen, inherited>>
          /\ \A s \in Requesters \ {r} : rpc'[s] = rpc[s] /\ idx'[s] = idx[s]
          /\ idx'[r] = qIndex + 1
      BY <1>0, <2>6 DEF StopThread, Goto, TypeOK, gcVars, doneVars, history
    <3>2. Orderly => idx'[r] > finished /\ (gpc = "gc" => idx'[r] > cur.index)
      BY <1>0, <3>1, NewRequest
    <3>3. QED
      BY <1>0, <3>1, <3>2
  <2>7. QED
    BY <1>4, <2>1, <2>2, <2>3, <2>4, <2>5, <2>6 DEF RequesterStep, Request
<1>5. QED
  BY <1>1, <1>2, <1>3, <1>4 DEF Next

-----------------------------------------------------------------------------
(* Ascending sequences of numbers.                                         *)

Ascending(s) == \A i, j \in 1 .. Len(s) : i < j => s[i] < s[j]
UpTo(s, n) == \A i \in 1 .. Len(s) : s[i] <= n

\* Two ascending sequences, one above the other.
LEMMA AscendingConcat ==
    ASSUME NEW s \in Seq(Int), NEW t \in Seq(Int), NEW n \in Int,
           Ascending(s), Ascending(t), UpTo(s, n), UpTo(t, n),
           \A i \in 1 .. Len(s), j \in 1 .. Len(t) : s[i] < t[j]
    PROVE  /\ s \o t \in Seq(Int) /\ Ascending(s \o t) /\ UpTo(s \o t, n)
           /\ Len(s \o t) = Len(s) + Len(t)
<1> DEFINE u == s \o t
<1>1. /\ u \in Seq(Int) /\ Len(u) = Len(s) + Len(t)
      /\ \A i \in 1 .. Len(s) + Len(t) : u[i] = IF i <= Len(s) THEN s[i] ELSE t[i - Len(s)]
  BY ConcatProperties
<1>2. Len(s) \in Nat /\ Len(t) \in Nat
  OBVIOUS
<1> HIDE DEF u
<1>3. UpTo(u, n)
  <2>1. ASSUME NEW i \in 1 .. Len(u) PROVE u[i] <= n
    <3>1. CASE i <= Len(s)
      <4>1. i \in 1 .. Len(s) /\ u[i] = s[i]
        BY <1>1, <1>2, <3>1
      <4>2. QED
        BY <4>1 DEF UpTo
    <3>2. CASE i > Len(s)
      <4>1. i - Len(s) \in 1 .. Len(t) /\ u[i] = t[i - Len(s)]
        BY <1>1, <1>2, <3>2
      <4>2. QED
        BY <4>1 DEF UpTo
    <3>3. QED
      BY <1>2, <3>1, <3>2
  <2>2. QED
    BY <2>1 DEF UpTo
<1>4. ASSUME NEW i \in 1 .. Len(u), NEW j \in 1 .. Len(u), i < j PROVE u[i] < u[j]
  <2>1. CASE j <= Len(s)
    <3>1. /\ u[i] = s[i] /\ u[j] = s[j]
          /\ i \in 1 .. Len(s) /\ j \in 1 .. Len(s)
      BY <1>1, <1>2, <1>4, <2>1
    <3>2. QED
      BY <1>4, <3>1 DEF Ascending
  <2>2. CASE i <= Len(s) /\ j > Len(s)
    <3>1. u[i] = s[i] /\ u[j] = t[j - Len(s)] /\ j - Len(s) \in 1 .. Len(t)
      BY <1>1, <1>2, <2>2
    <3>2. QED
      BY <1>2, <2>2, <3>1
  <2>3. CASE i > Len(s)
    <3>1. /\ u[i] = t[i - Len(s)] /\ u[j] = t[j - Len(s)]
          /\ i - Len(s) \in 1 .. Len(t) /\ j - Len(s) \in 1 .. Len(t)
          /\ i - Len(s) < j - Len(s)
      BY <1>1, <1>2, <1>4, <2>3
    <3>2. QED
      BY <3>1 DEF Ascending
  <2>4. QED
    BY <1>1, <1>2, <2>1, <2>2, <2>3
<1>5. QED
  BY <1>1, <1>3, <1>4 DEF Ascending, u

-----------------------------------------------------------------------------
(* No wake-up is lost.                                                     *)

\* From looking at the synchronous queue to falling asleep the GC thread holds
\* the lock, and the queue stays empty until it is notified.
IdleInv ==
    /\ gpc \in {"pop", "sleep"} =>
          syncQ = <<>> /\ \A r \in Requesters : rpc[r] # "store"
    /\ qWait => gpc = "wait" /\ syncQ = <<>>

\* Every queued task invokes a collection or terminates the GC thread.
KindInv ==
    /\ \A k \in 1 .. Len(syncQ) : syncQ[k].type =
          IF syncQ[k].reason = kInvalidGCReason THEN "terminate" ELSE "invoke"
    /\ \A r \in Requesters : req[r] \in Blocking \cup LiteBlocking \cup {kInvalidGCReason}
    /\ gpc = "gc" => cur.type # "terminate"
    /\ triggered => gpc = "gc"

\* Whoever sleeps on gcFinishedCondVar found its condition false, and it is
\* false still.
SleepInv ==
    \A r \in finWait :
        \/ rpc[r] = "wait" /\ finished < idx[r] /\ finished # kIndexExit
        \/ rpc[r] = "stopped" /\ triggered /\ idx[r] = finished

\* Asleep or about to look: a request that is not answered is ahead, unless
\* numbers were inherited.
ServeInv ==
    \A r \in Requesters :
        /\ rpc[r] \in {"check", "wait"}
        /\ ~inherited
        /\ gpc = "begin" \/ (finished # kIndexExit /\ finished < idx[r])
        => Ahead("invoke", idx[r])

\* At most one thread stops the GC thread, and its task is ahead.
Stopping(r) == rpc[r] = "join" \/ (rpc[r] = "store" /\ req[r] = kInvalidGCReason)
JoinInv ==
    /\ \A r, s \in Requesters : Stopping(r) /\ Stopping(s) => r = s
    /\ JoinWoken

\* Inductive relative to IInv.
WakeInv == IdleInv /\ KindInv /\ SleepInv /\ ServeInv /\ JoinInv

\* The queue loses its first task in Dequeue, and gets a last one in StoreIndex.
LEMMA QueueEnds ==
    ASSUME QueueInv
    PROVE  /\ Len(syncQ) \in Nat
           /\ syncQ # <<>> =>
                /\ Len(syncQ) >= 1 /\ Head(syncQ) = syncQ[1]
                /\ Len(Tail(syncQ)) = Len(syncQ) - 1
                /\ \A k \in 1 .. Len(syncQ) - 1 : Tail(syncQ)[k] = syncQ[k + 1]
           /\ \A t \in Tasks :
                /\ Len(Append(syncQ, t)) = Len(syncQ) + 1
                /\ Append(syncQ, t)[Len(syncQ) + 1] = t
                /\ \A k \in 1 .. Len(syncQ) : Append(syncQ, t)[k] = syncQ[k]
<1>1. syncQ \in Seq(Tasks) /\ Len(syncQ) \in Nat
  BY DEF QueueInv
<1>2. syncQ # <<>> =>
        /\ Len(syncQ) >= 1 /\ Head(syncQ) = syncQ[1]
        /\ Len(Tail(syncQ)) = Len(syncQ) - 1
        /\ \A k \in 1 .. Len(syncQ) - 1 : Tail(syncQ)[k] = syncQ[k + 1]
  BY <1>1
<1>3. \A t \in Tasks :
        /\ Len(Append(syncQ, t)) = Len(syncQ) + 1
        /\ Append(syncQ, t)[Len(syncQ) + 1] = t
        /\ \A k \in 1 .. Len(syncQ) : Append(syncQ, t)[k] = syncQ[k]
  BY <1>1
<1>4. QED
  BY <1>1, <1>2, <1>3

\* What StoreIndex appends is a task of the kind the requester asked for.
LEMMA StoredTask ==
    ASSUME IInv, NEW r \in Requesters, StoreIndex(r)
    PROVE  \E t \in Tasks :
              /\ syncQ' = Append(syncQ, t)
              /\ t.index = idx[r] /\ t.reason = req[r]
              /\ t.type = IF req[r] = kInvalidGCReason THEN "terminate" ELSE "invoke"
<1> DEFINE t == IF req[r] = kInvalidGCReason THEN Terminate(idx[r])
                ELSE InvokeGC(req[r], idx[r])
<1>1. idx[r] \in Indices /\ req[r] \in Reasons \cup {kInvalidGCReason}
  BY DEF IInv, TypeOK, Indices
<1>2. t \in Tasks
  BY <1>1, TaskTypes
<1>3. /\ t.index = idx[r] /\ t.reason = req[r]
      /\ t.type = IF req[r] = kInvalidGCReason THEN "terminate" ELSE "invoke"
  BY DEF Terminate, InvokeGC
<1>4. syncQ' = Append(syncQ, t)
  BY DEF StoreIndex
<1>5. QED
  BY <1>2, <1>3, <1>4

\* The GC thread falls asleep with an empty queue.
LEMMA IdleNext ==
    ASSUME IInv, WakeInv, [Next]_vars
    PROVE  IdleInv'
<1> USE DEF IdleInv, WakeInv, GcGoto
<1>1. CASE UNCHANGED vars
  BY <1>1 DEF vars, gcVars, queueVars, reqVars
<1>2. CASE GcStep
  <2>1. CASE RunTaskLoop \/ TaskQueueInit
    BY <2>1 DEF RunTaskLoop, TaskQueueInit, queueVars, reqVars
  <2>2. CASE Dequeue
    BY <2>2 DEF Dequeue, QueueLocked, reqVars
  <2>3. CASE Pop
    BY <2>3 DEF Pop, reqVars
  <2>4. CASE DequeueSleep \/ DequeueWoken \/ DequeueTimeout
    BY <2>4 DEF DequeueSleep, DequeueWoken, DequeueTimeout, queueVars, reqVars
  <2>5. CASE Execute \/ NotifyGCFinished
    BY <2>5 DEF Execute, Collect, NotifyGCFinished, queueVars, reqVars
  <2>6. CASE DeInit \/ NotifyExit
    BY <2>6 DEF DeInit, NotifyExit, queueVars, reqVars
  <2>7. QED
    BY <1>2, <2>1, <2>2, <2>3, <2>4, <2>5, <2>6 DEF GcStep
<1>3. CASE StartThread
  BY <1>3 DEF StartThread, queueVars, reqVars
<1>4. ASSUME NEW r \in Requesters, RequesterStep(r) \/ Request(r) PROVE IdleInv'
  <2>0. rpc \in [Requesters -> ReqPCs]
    BY DEF IInv, TypeOK, ReqPCs
  <2>1. CASE StoreIndex(r)
    BY <2>0, <2>1 DEF StoreIndex, gcVars
  <2>2. CASE NotifyAsync(r) \/ WaitGCFinished(r) \/ WaitGCStoppedLite(r) \/ GCStoppedWoken(r)
             \/ WaitGCStopped(r)
    <3>1. /\ UNCHANGED <<gpc, syncQ>> /\ (qWait' => qWait)
          /\ \A s \in Requesters : rpc'[s] = "store" => rpc[s] = "store"
      BY <2>0, <2>2 DEF NotifyAsync, WaitGCFinished, WaitGCStoppedLite, GCStoppedWoken,
           WaitGCStopped, Goto, gcVars, queueVars
    <3>2. QED
      BY <3>1
  <2>3. CASE JoinThread(r)
    BY <2>0, <2>3 DEF JoinThread, Goto, queueVars
  <2>4. ASSUME NEW reason \in Blocking \cup LiteBlocking, EnqueueSync(r, reason)
        PROVE  IdleInv'
    BY <2>4 DEF EnqueueSync, QueueLocked, gcVars, queueVars
  <2>5. ASSUME NEW reason \in NonBlocking, EnqueueAsync(r, reason) PROVE IdleInv'
    BY <2>0, <2>5 DEF EnqueueAsync, Goto, gcVars
  <2>6. CASE StopThread(r)
    BY <2>6 DEF StopThread, QueueLocked, gcVars, queueVars
  <2>7. QED
    BY <1>4, <2>1, <2>2, <2>3, <2>4, <2>5, <2>6 DEF RequesterStep, Request
<1>5. QED
  BY <1>1, <1>2, <1>3, <1>4 DEF Next

\* Tasks keep their kinds in the queue, and a collection is triggered only in
\* RunFullCollection.
LEMMA KindNext ==
    ASSUME IInv, WakeInv, [Next]_vars
    PROVE  KindInv'
<1> USE DEF KindInv, WakeInv, GcGoto
<1>0. /\ QueueInv /\ rpc \in [Requesters -> ReqPCs]
      /\ req \in [Requesters -> Reasons \cup {kInvalidGCReason}]
  BY DEF IInv, TypeOK, ReqPCs
<1>1. CASE UNCHANGED vars
  BY <1>1 DEF vars, gcVars, queueVars, doneVars, reqVars
<1>2. CASE GcStep
  <2>1. CASE RunTaskLoop \/ TaskQueueInit
    BY <2>1 DEF RunTaskLoop, TaskQueueInit, queueVars, doneVars, reqVars
  <2>2. CASE Dequeue
    <3>1. /\ req' = req /\ gpc' # "gc" /\ ~triggered'
      BY <2>2 DEF Dequeue, doneVars, reqVars
    <3>2. \A k \in 1 .. Len(syncQ') : \E j \in 1 .. Len(syncQ) : syncQ'[k] = syncQ[j]
      <4>1. CASE syncQ = <<>>
        BY <2>2, <4>1 DEF Dequeue
      <4>2. CASE syncQ # <<>>
        <5>1. syncQ' = Tail(syncQ)
          BY <2>2, <4>2 DEF Dequeue
        <5>2. ASSUME NEW k \in 1 .. Len(syncQ) - 1
              PROVE  k + 1 \in 1 .. Len(syncQ) /\ Tail(syncQ)[k] = syncQ[k + 1]
          BY <1>0, <4>2, QueueEnds
        <5>3. QED
          BY <1>0, <4>2, <5>1, <5>2, QueueEnds
      <4>3. QED
        BY <4>1, <4>2
    <3>3. QED
      BY <3>1, <3>2
  <2>3. CASE Pop
    BY <2>3 DEF Pop, doneVars, reqVars
  <2>4. CASE DequeueSleep \/ DequeueWoken \/ DequeueTimeout
    BY <2>4 DEF DequeueSleep, DequeueWoken, DequeueTimeout, queueVars, doneVars, reqVars
  <2>5. CASE Execute
    BY <2>5 DEF Execute, Collect, queueVars, reqVars
  <2>6. CASE NotifyGCFinished \/ NotifyExit
    BY <2>6 DEF NotifyGCFinished, NotifyExit, queueVars, reqVars
  <2>7. CASE DeInit
    BY <2>7 DEF DeInit, doneVars, reqVars
  <2>8. QED
    BY <1>2, <2>1, <2>2, <2>3, <2>4, <2>5, <2>6, <2>7 DEF GcStep
<1>3. CASE StartThread
  BY <1>3 DEF StartThread, queueVars, doneVars, reqVars
<1>4. ASSUME NEW r \in Requesters, RequesterStep(r) \/ Request(r) PROVE KindInv'
  <2>1. CASE StoreIndex(r)
    <3>1. PICK t \in Tasks :
              /\ syncQ' = Append(syncQ, t)
              /\ t.index = idx[r] /\ t.reason = req[r]
              /\ t.type = IF req[r] = kInvalidGCReason THEN "terminate" ELSE "invoke"
      BY <2>1, StoredTask
    <3>2. UNCHANGED <<req, gpc, cur, triggered>>
      BY <2>1 DEF StoreIndex, gcVars, doneVars
    <3>3. \A k \in 1 .. Len(syncQ') : syncQ'[k] = t \/
             (k \in 1 .. Len(syncQ) /\ syncQ'[k] = syncQ[k])
      BY <1>0, <3>1, QueueEnds
    <3>4. QED
      BY <3>1, <3>2, <3>3
  <2>2. CASE NotifyAsync(r) \/ WaitGCFinished(r) \/ WaitGCStoppedLite(r) \/ GCStoppedWoken(r)
             \/ WaitGCStopped(r)
    BY <2>2 DEF NotifyAsync, WaitGCFinished, WaitGCStoppedLite, GCStoppedWoken,
         WaitGCStopped, gcVars, queueVars, doneVars
  <2>3. CASE JoinThread(r)
    BY <2>3 DEF JoinThread, queueVars, doneVars
  <2>4. ASSUME NEW reason \in Blocking \cup LiteBlocking, EnqueueSync(r, reason)
        PROVE  KindInv'
    BY <1>0, <2>4 DEF EnqueueSync, gcVars, queueVars, doneVars
  <2>5. ASSUME NEW reason \in NonBlocking, EnqueueAsync(r, reason) PROVE KindInv'
    BY <2>5 DEF EnqueueAsync, gcVars, doneVars
  <2>6. CASE StopThread(r)
    BY <1>0, <2>6 DEF StopThread, gcVars, queueVars, doneVars
  <2>7. QED
    BY <1>4, <2>1, <2>2, <2>3, <2>4, <2>5, <2>6 DEF RequesterStep, Request
<1>5. QED
  BY <1>1, <1>2, <1>3, <1>4 DEF Next

\* Every change of what the sleepers on gcFinishedCondVar wait for wakes them.
LEMMA SleepNext ==
    ASSUME IInv, WakeInv, [Next]_vars
    PROVE  SleepInv'
<1> USE DEF SleepInv, WakeInv, GcGoto
<1>0. /\ rpc \in [Requesters -> ReqPCs] /\ finWait \subseteq Requesters
      /\ idx \in [Requesters -> 0 .. MaxIndex + 1]
      /\ finished \in Nat /\ \A r \in Requesters : idx[r] \in Nat
  BY IndexTypes DEF IInv, TypeOK, ReqPCs
<1>1. CASE UNCHANGED vars
  BY <1>1 DEF vars, doneVars, reqVars
<1>2. CASE GcStep
  <2>1. UNCHANGED reqVars
    BY <1>2 DEF GcStep, RunTaskLoop, TaskQueueInit, Dequeue, Pop, DequeueSleep, DequeueWoken,
                DequeueTimeout, Execute, Collect, NotifyGCFinished, DeInit, NotifyExit
  <2>2. CASE RunTaskLoop
    <3>1. finWait = {}
      BY <1>0, <2>2 DEF RunTaskLoop, IInv, PhaseInv, KindInv
    <3>2. QED
      BY <2>2, <3>1 DEF RunTaskLoop
  <2>3. CASE NotifyGCFinished \/ NotifyExit
    BY <2>3 DEF NotifyGCFinished, NotifyExit
  <2>4. CASE ~RunTaskLoop /\ ~NotifyGCFinished /\ ~NotifyExit
    <3>1. finWait' = finWait /\ finished' = finished /\ (triggered => triggered')
      BY <1>2, <2>4 DEF GcStep, TaskQueueInit, Dequeue, Pop, DequeueSleep, DequeueWoken,
         DequeueTimeout, Execute, Collect, DeInit, doneVars
    <3>2. QED
      BY <2>1, <3>1 DEF reqVars
  <2>5. QED
    BY <2>2, <2>3, <2>4
<1>3. CASE StartThread
  BY <1>3 DEF StartThread, doneVars, reqVars
<1>4. ASSUME NEW r \in Requesters, RequesterStep(r) \/ Request(r) PROVE SleepInv'
  <2>1. ASSUME UNCHANGED doneVars, rpc[r] \notin {"wait", "stopped"},
               \A s \in Requesters \ {r} : rpc'[s] = rpc[s] /\ idx'[s] = idx[s]
        PROVE  SleepInv'
    BY <1>0, <2>1 DEF doneVars
  <2>2. CASE StoreIndex(r) \/ NotifyAsync(r) \/ WaitGCStoppedLite(r) \/ JoinThread(r)
    <3>1. /\ UNCHANGED doneVars /\ rpc[r] \notin {"wait", "stopped"} /\ idx' = idx
          /\ \A s \in Requesters \ {r} : rpc'[s] = rpc[s]
      BY <1>0, <2>2 DEF StoreIndex, NotifyAsync, WaitGCStoppedLite, JoinThread, Goto
    <3>2. QED
      BY <2>1, <3>1
  <2>3. ASSUME NEW reason \in Blocking \cup LiteBlocking, EnqueueSync(r, reason)
        PROVE  SleepInv'
    <3>1. /\ UNCHANGED doneVars /\ rpc[r] \notin {"wait", "stopped"}
          /\ \A s \in Requesters \ {r} : rpc'[s] = rpc[s] /\ idx'[s] = idx[s]
      BY <1>0, <2>3 DEF EnqueueSync, Goto
    <3>2. QED
      BY <2>1, <3>1
  <2>4. ASSUME NEW reason \in NonBlocking, EnqueueAsync(r, reason) PROVE SleepInv'
    <3>1. /\ UNCHANGED doneVars /\ rpc[r] \notin {"wait", "stopped"} /\ idx' = idx
          /\ \A s \in Requesters \ {r} : rpc'[s] = rpc[s]
      BY <1>0, <2>4 DEF EnqueueAsync, Goto
    <3>2. QED
      BY <2>1, <3>1
  <2>5. CASE StopThread(r)
    <3>1. /\ UNCHANGED doneVars /\ rpc[r] \notin {"wait", "stopped"}
          /\ \A s \in Requesters \ {r} : rpc'[s] = rpc[s] /\ idx'[s] = idx[s]
      BY <1>0, <2>5 DEF StopThread, Goto
    <3>2. QED
      BY <2>1, <3>1
  <2>6. CASE WaitGCFinished(r)
    BY <1>0, <2>6 DEF WaitGCFinished, Goto
  <2>7. CASE WaitGCStopped(r)
    BY <1>0, <2>7 DEF WaitGCStopped, Goto
  <2>8. CASE GCStoppedWoken(r)
    BY <1>0, <2>8 DEF GCStoppedWoken, Goto
  <2>9. QED
    BY <1>4, <2>2, <2>3, <2>4, <2>5, <2>6, <2>7, <2>8 DEF RequesterStep, Request
<1>5. QED
  BY <1>1, <1>2, <1>3, <1>4 DEF Next

\* The GC thread takes a task from the queue, executes it, and announces it.
LEMMA AheadKept ==
    ASSUME IInv, WakeInv, GcStep, NEW type \in {"invoke", "terminate"}, NEW i \in Nat,
           Ahead(type, i)
    PROVE  \/ Ahead(type, i)'
           \/ type = "invoke" /\ finished' = i
           \/ gpc' = "ended" /\ finished' = kIndexExit
<1> USE DEF GcGoto
<1>0. QueueInv /\ KindInv
  BY DEF IInv, WakeInv
<1>1. ASSUME syncQ' = syncQ, gpc \notin {"execute", "gc", "deinit", "exit"}
      PROVE  Ahead(type, i)'
  BY <1>1 DEF Ahead
<1>2. CASE RunTaskLoop \/ TaskQueueInit \/ Pop \/ DequeueSleep \/ DequeueWoken \/ DequeueTimeout
  <2>1. syncQ' = syncQ /\ gpc \notin {"execute", "gc", "deinit", "exit"}
    BY <1>2 DEF RunTaskLoop, TaskQueueInit, Pop, DequeueSleep, DequeueWoken, DequeueTimeout,
                queueVars
  <2>2. QED
    BY <1>1, <2>1
<1>3. CASE Dequeue
  <2>1. PICK k \in 1 .. Len(syncQ) : syncQ[k].type = type /\ syncQ[k].index = i
    BY <1>3 DEF Dequeue, Ahead
  <2>2. syncQ # <<>> /\ k \in Nat
    BY <2>1, <1>0, QueueEnds
  <2>3. cur' = Head(syncQ) /\ syncQ' = Tail(syncQ) /\ gpc' = "execute"
    BY <1>3, <2>2 DEF Dequeue
  <2>4. CASE k = 1
    BY <1>0, <2>1, <2>2, <2>3, <2>4, QueueEnds DEF Ahead
  <2>5. CASE k # 1
    <3>1. k - 1 \in 1 .. Len(syncQ) - 1 /\ (k - 1) + 1 = k
      BY <1>0, <2>1, <2>2, <2>5, QueueEnds
    <3>2. Tail(syncQ)[k - 1] = syncQ[k] /\ k - 1 \in 1 .. Len(syncQ')
      BY <1>0, <2>2, <2>3, <3>1, QueueEnds
    <3>3. QED
      BY <2>1, <2>3, <3>2 DEF Ahead
  <2>6. QED
    BY <2>4, <2>5
<1>4. CASE Execute
  BY <1>4 DEF Execute, Collect, Ahead, queueVars
<1>5. CASE NotifyGCFinished
  <2>1. CASE \E k \in 1 .. Len(syncQ) : syncQ[k].type = type /\ syncQ[k].index = i
    BY <1>5, <2>1 DEF NotifyGCFinished, Ahead, queueVars
  <2>2. CASE cur.type = type /\ cur.index = i
    BY <1>0, <1>5, <2>2 DEF NotifyGCFinished, KindInv, kAsyncIndex
  <2>3. QED
    BY <1>5, <2>1, <2>2 DEF NotifyGCFinished, Ahead
<1>6. CASE DeInit
  BY <1>6 DEF DeInit, Ahead
<1>7. CASE NotifyExit
  BY <1>7 DEF NotifyExit
<1>8. QED
  BY <1>2, <1>3, <1>4, <1>5, <1>6, <1>7 DEF GcStep

\* A requester's step leaves what is ahead, and the queue only grows.
LEMMA AheadGrows ==
    ASSUME IInv, NEW r \in Requesters, RequesterStep(r) \/ Request(r), ~JoinThread(r),
           NEW type, NEW i, Ahead(type, i)
    PROVE  Ahead(type, i)'
<1>1. gpc' = gpc /\ cur' = cur
  BY DEF RequesterStep, StoreIndex, NotifyAsync, WaitGCFinished, WaitGCStoppedLite,
         GCStoppedWoken, Request, EnqueueSync, EnqueueAsync, WaitGCStopped, StopThread, gcVars
<1>2. CASE StoreIndex(r)
  <2>1. PICK t \in Tasks : syncQ' = Append(syncQ, t)
    BY <1>2, StoredTask
  <2>2. \A k \in 1 .. Len(syncQ) : k \in 1 .. Len(syncQ') /\ syncQ'[k] = syncQ[k]
    BY <2>1, QueueEnds DEF IInv
  <2>3. QED
    BY <1>1, <2>2 DEF Ahead
<1>3. CASE ~StoreIndex(r)
  <2>1. syncQ' = syncQ
    BY <1>3 DEF RequesterStep, NotifyAsync, WaitGCFinished, WaitGCStoppedLite,
         GCStoppedWoken, Request, EnqueueSync, EnqueueAsync, WaitGCStopped, StopThread,
         queueVars
  <2>2. QED
    BY <1>1, <2>1 DEF Ahead
<1>4. QED
  BY <1>2, <1>3

\* A request that is not answered stays ahead.
LEMMA ServeNext ==
    ASSUME IInv, WakeInv, [Next]_vars
    PROVE  ServeInv'
<1>0. /\ rpc \in [Requesters -> ReqPCs] /\ idx \in [Requesters -> 0 .. MaxIndex + 1]
      /\ finished \in Nat /\ \A r \in Requesters : idx[r] \in Nat
      /\ ServeInv /\ KindInv /\ QueueInv /\ PhaseInv /\ inherited \in BOOLEAN
  BY IndexTypes DEF IInv, TypeOK, ReqPCs, WakeInv
<1>1. CASE UNCHANGED vars
  BY <1>0, <1>1 DEF vars, gcVars, queueVars, doneVars, reqVars, history, ServeInv, Ahead
<1>2. CASE GcStep
  <2>0. UNCHANGED reqVars
    BY <1>2 DEF GcStep, RunTaskLoop, TaskQueueInit, Dequeue, Pop, DequeueSleep, DequeueWoken,
                DequeueTimeout, Execute, Collect, NotifyGCFinished, DeInit, NotifyExit
  <2>1. SUFFICES ASSUME NEW r \in Requesters, rpc'[r] \in {"check", "wait"}, ~inherited',
                        gpc' = "begin" \/ (finished' # kIndexExit /\ finished' < idx'[r])
                 PROVE  Ahead("invoke", idx[r])'
    BY DEF ServeInv
  <2>2. PICK i \in Nat : i = idx[r]
    BY <1>0
  <2>3. i = idx'[r] /\ rpc[r] \in {"check", "wait"}
    BY <2>0, <2>1, <2>2 DEF reqVars
  <2>4. ~TaskQueueInit
    BY <1>0, <2>1, <2>3 DEF TaskQueueInit, PhaseInv
  <2>5. inherited' = inherited /\ gpc' # "begin"
    BY <1>2, <2>4 DEF GcStep, RunTaskLoop, Dequeue, Pop, DequeueSleep, DequeueWoken,
       DequeueTimeout, Execute, Collect, NotifyGCFinished, DeInit, NotifyExit, GcGoto, history
  <2>6. finished' # kIndexExit /\ finished' < i
    BY <2>1, <2>3, <2>5
  <2>7. gpc = "begin" \/ (finished # kIndexExit /\ finished < i)
    <3>1. CASE RunTaskLoop
      BY <3>1 DEF RunTaskLoop
    <3>2. CASE NotifyGCFinished
      <4>1. gpc = "gc" /\ finished >= 1
        BY <1>0, <3>2 DEF NotifyGCFinished, PhaseInv
      <4>2. cur.index # kAsyncIndex => finished < cur.index /\ cur.index \in Int
        BY <1>0, <2>1, <2>5, <4>1, IndexTypes
        DEF QueueInv, Orderly, Serving, Executing, Starting, IInv
      <4>3. finished' = IF cur.index # kAsyncIndex THEN cur.index ELSE finished
        BY <3>2 DEF NotifyGCFinished
      <4>4. QED
        BY <1>0, <2>6, <4>1, <4>2, <4>3 DEF kIndexExit
    <3>3. CASE ~RunTaskLoop /\ ~NotifyGCFinished
      <4>1. finished' = finished
        BY <1>2, <2>6, <3>3 DEF GcStep, TaskQueueInit, Dequeue, Pop, DequeueSleep,
           DequeueWoken, DequeueTimeout, Execute, Collect, DeInit, NotifyExit, doneVars
      <4>2. QED
        BY <2>6, <4>1
    <3>4. QED
      BY <3>1, <3>2, <3>3
  <2>8. Ahead("invoke", i)
    BY <1>0, <2>1, <2>2, <2>3, <2>5, <2>7 DEF ServeInv
  <2>9. finished' # i
    BY <1>0, <2>6
  <2>10. Ahead("invoke", i)'
    BY <1>2, <2>6, <2>8, <2>9, AheadKept
  <2>11. QED
    BY <2>3, <2>10
<1>3. CASE StartThread
  BY <1>3 DEF StartThread, reqVars, ServeInv
<1>4. ASSUME NEW r \in Requesters, RequesterStep(r) \/ Request(r) PROVE ServeInv'
  <2>0. finished' = finished /\ inherited' = inherited
    BY <1>4 DEF RequesterStep, StoreIndex, NotifyAsync, WaitGCFinished, WaitGCStoppedLite,
         GCStoppedWoken, JoinThread, Request, EnqueueSync, EnqueueAsync, WaitGCStopped,
         StopThread, doneVars, history
  <2>1. SUFFICES ASSUME NEW s \in Requesters, rpc'[s] \in {"check", "wait"}, ~inherited,
                        gpc' = "begin" \/ (finished # kIndexExit /\ finished < idx'[s])
                 PROVE  Ahead("invoke", idx[s])'
    BY <2>0 DEF ServeInv
  <2>2. PICK i : i = idx'[s]
    OBVIOUS
  <2>3. SUFFICES Ahead("invoke", i)'
    BY <2>2
  <2>4. CASE JoinThread(r)
    <3>1. gpc' = "off" /\ finished = kIndexExit
      BY <1>0, <2>4 DEF JoinThread, GcGoto, PhaseInv
    <3>2. QED
      BY <2>1, <3>1
  <2>5. CASE rpc[s] \in {"check", "wait"} /\ idx'[s] = idx[s] /\ ~JoinThread(r)
    <3>1. gpc' = gpc
      BY <1>4, <2>5 DEF RequesterStep, StoreIndex, NotifyAsync, WaitGCFinished,
         WaitGCStoppedLite, GCStoppedWoken, Request, EnqueueSync, EnqueueAsync,
         WaitGCStopped, StopThread, gcVars
    <3>2. Ahead("invoke", i)
      BY <1>0, <2>1, <2>2, <2>5, <3>1 DEF ServeInv
    <3>3. QED
      BY <1>4, <2>5, <3>2, AheadGrows
  <2>6. CASE StoreIndex(r) /\ s = r
    <3>1. PICK t \in Tasks :
              /\ syncQ' = Append(syncQ, t)
              /\ t.index = idx[r]
              /\ t.type = IF req[r] = kInvalidGCReason THEN "terminate" ELSE "invoke"
      BY <2>6, StoredTask
    <3>2. req[r] # kInvalidGCReason /\ idx[r] = i
      BY <1>0, <2>1, <2>2, <2>6, ReasonsAssumption
      DEF StoreIndex, Goto, AfterEnqueue, kInvalidGCReason
    <3>3. Len(syncQ) + 1 \in 1 .. Len(syncQ') /\ syncQ'[Len(syncQ) + 1] = t
      BY <1>0, <3>1, QueueEnds
    <3>4. QED
      BY <3>1, <3>2, <3>3 DEF Ahead
  <2>7. ASSUME NEW reason \in Blocking \cup LiteBlocking, EnqueueSync(r, reason), s = r
        PROVE  Ahead("invoke", i)'
    <3>1. Same(reason) # {} /\ i = syncQ[Last(Same(reason))].index
      BY <1>0, <2>1, <2>2, <2>7 DEF EnqueueSync, Goto
    <3>2. PICK k \in 1 .. Len(syncQ) : syncQ[k].reason = reason /\ i = syncQ[k].index
      BY <1>0, <3>1, SameTask DEF IInv
    <3>3. syncQ[k].type = "invoke"
      BY <1>0, <3>2, ReasonsAssumption DEF KindInv, kInvalidGCReason
    <3>4. syncQ' = syncQ
      BY <2>7 DEF EnqueueSync, queueVars
    <3>5. QED
      BY <3>2, <3>3, <3>4 DEF Ahead
  <2>8. CASE ~JoinThread(r) /\ ~(rpc[s] \in {"check", "wait"} /\ idx'[s] = idx[s])
    <3>1. s = r
      BY <1>0, <1>4, <2>1, <2>8 DEF RequesterStep, StoreIndex, NotifyAsync, WaitGCFinished,
         WaitGCStoppedLite, GCStoppedWoken, Request, EnqueueSync, EnqueueAsync,
         WaitGCStopped, StopThread, Goto
    <3>2. StoreIndex(r) \/ \E reason \in Blocking \cup LiteBlocking : EnqueueSync(r, reason)
      BY <1>0, <1>4, <2>1, <2>8, <3>1 DEF RequesterStep, NotifyAsync, WaitGCFinished,
         WaitGCStoppedLite, GCStoppedWoken, Request, EnqueueAsync, WaitGCStopped, StopThread,
         Goto
    <3>3. QED
      BY <2>6, <2>7, <3>1, <3>2
  <2>9. QED
    BY <2>4, <2>5, <2>8
<1>5. QED
  BY <1>1, <1>2, <1>3, <1>4 DEF Next

\* The Terminate task stays ahead of the one thread that waits for the end.
LEMMA JoinNext ==
    ASSUME IInv, WakeInv, [Next]_vars
    PROVE  JoinInv'
<1>0. /\ rpc \in [Requesters -> ReqPCs] /\ idx \in [Requesters -> 0 .. MaxIndex + 1]
      /\ req \in [Requesters -> Reasons \cup {kInvalidGCReason}]
      /\ \A r \in Requesters : idx[r] \in Nat
      /\ JoinInv /\ KindInv /\ QueueInv
  BY IndexTypes DEF IInv, TypeOK, ReqPCs, WakeInv
<1>1. CASE UNCHANGED vars
  BY <1>0, <1>1
  DEF vars, gcVars, queueVars, doneVars, reqVars, JoinInv, JoinWoken, Ahead, Stopping
<1>2. CASE GcStep
  <2>0. UNCHANGED reqVars
    BY <1>2 DEF GcStep, RunTaskLoop, TaskQueueInit, Dequeue, Pop, DequeueSleep, DequeueWoken,
                DequeueTimeout, Execute, Collect, NotifyGCFinished, DeInit, NotifyExit
  <2>1. ASSUME NEW r \in Requesters, rpc'[r] = "join"
        PROVE  Ahead("terminate", idx[r])' \/ gpc' = "ended"
    <3>1. PICK i \in Nat : i = idx[r]
      BY <1>0
    <3>2. i = idx'[r] /\ rpc[r] = "join"
      BY <2>0, <2>1, <3>1 DEF reqVars
    <3>3. gpc # "ended"
      BY <1>2 DEF GcStep, RunTaskLoop, TaskQueueInit, Dequeue, Pop, DequeueSleep, DequeueWoken,
                DequeueTimeout, Execute, NotifyGCFinished, DeInit, NotifyExit
    <3>4. Ahead("terminate", i)
      BY <1>0, <3>1, <3>2, <3>3 DEF JoinInv, JoinWoken
    <3>5. Ahead("terminate", i)' \/ gpc' = "ended"
      BY <1>2, <3>4, AheadKept
    <3>6. QED
      BY <3>2, <3>5
  <2>2. QED
    BY <1>0, <2>0, <2>1 DEF JoinInv, JoinWoken, Stopping, reqVars
<1>3. CASE StartThread
  BY <1>3 DEF StartThread, reqVars, JoinInv, JoinWoken, Stopping
<1>4. ASSUME NEW r \in Requesters, RequesterStep(r) \/ Request(r) PROVE JoinInv'
  <2>1. CASE JoinThread(r)
    <3>1. \A s \in Requesters : ~Stopping(s)'
      BY <1>0, <2>1 DEF JoinThread, Goto, JoinInv, Stopping
    <3>2. QED
      BY <3>1 DEF JoinInv, JoinWoken, Stopping
  <2>2. CASE ~JoinThread(r)
    <3>1. \A s \in Requesters \ {r} : rpc'[s] = rpc[s] /\ req'[s] = req[s] /\ idx'[s] = idx[s]
      BY <1>0, <1>4, <2>2 DEF RequesterStep, StoreIndex, NotifyAsync, WaitGCFinished,
         WaitGCStoppedLite, GCStoppedWoken, Request, EnqueueSync, EnqueueAsync,
         WaitGCStopped, StopThread, Goto
    <3>2. rpc'[r] = "join" => StoreIndex(r) /\ req[r] = kInvalidGCReason
      BY <1>0, <1>4, <2>2 DEF RequesterStep, StoreIndex, NotifyAsync, WaitGCFinished,
         WaitGCStoppedLite, GCStoppedWoken, Request, EnqueueSync, EnqueueAsync,
         WaitGCStopped, StopThread, Goto, AfterEnqueue, KindInv
    <3>3. rpc'[r] = "store" => StopThread(r) \/ (req'[r] # kInvalidGCReason)
      BY <1>0, <1>4, <2>2, ReasonsAssumption DEF RequesterStep, StoreIndex, NotifyAsync,
         WaitGCFinished, WaitGCStoppedLite, GCStoppedWoken, Request, EnqueueSync,
         EnqueueAsync, WaitGCStopped, Goto, AfterEnqueue, kInvalidGCReason
    <3>4. \A s, u \in Requesters : Stopping(s)' /\ Stopping(u)' => s = u
      <4>1. CASE StopThread(r)
        <5>1. \A s \in Requesters : ~Stopping(s)
          BY <4>1 DEF StopThread, QueueLocked, Stopping
        <5>2. QED
          BY <3>1, <5>1 DEF Stopping
      <4>2. CASE ~StopThread(r)
        <5>1. Stopping(r)' => Stopping(r)
          BY <3>2, <3>3, <4>2 DEF Stopping, StoreIndex
        <5>2. \A s \in Requesters : Stopping(s)' => Stopping(s)
          BY <3>1, <5>1 DEF Stopping
        <5>3. QED
          BY <1>0, <5>2 DEF JoinInv
      <4>3. QED
        BY <4>1, <4>2
    <3>5. gpc' = gpc
      BY <1>4, <2>2 DEF RequesterStep, StoreIndex, NotifyAsync, WaitGCFinished,
         WaitGCStoppedLite, GCStoppedWoken, Request, EnqueueSync, EnqueueAsync,
         WaitGCStopped, StopThread, gcVars
    <3>6. ASSUME NEW s \in Requesters, rpc'[s] = "join"
          PROVE  Ahead("terminate", idx[s])' \/ gpc' = "ended"
      <4>1. CASE s = r
        <5>1. StoreIndex(r) /\ req[r] = kInvalidGCReason /\ idx'[r] = idx[r]
          BY <3>2, <3>6, <4>1 DEF StoreIndex
        <5>2. PICK t \in Tasks :
                /\ syncQ' = Append(syncQ, t)
                /\ t.index = idx[r]
                /\ t.type = IF req[r] = kInvalidGCReason THEN "terminate" ELSE "invoke"
          BY <5>1, StoredTask
        <5>3. Len(syncQ) + 1 \in 1 .. Len(syncQ') /\ syncQ'[Len(syncQ) + 1] = t
          BY <1>0, <5>2, QueueEnds
        <5>4. QED
          BY <4>1, <5>1, <5>2, <5>3 DEF Ahead
      <4>2. CASE s # r
        <5>1. PICK i : i = idx[s]
          OBVIOUS
        <5>2. rpc[s] = "join" /\ i = idx'[s]
          BY <3>1, <3>6, <4>2, <5>1
        <5>3. Ahead("terminate", i) \/ gpc = "ended"
          BY <1>0, <5>1, <5>2 DEF JoinInv, JoinWoken
        <5>4. Ahead("terminate", i)' \/ gpc' = "ended"
          BY <1>4, <2>2, <3>5, <5>3, AheadGrows
        <5>5. QED
          BY <5>2, <5>4
      <4>3. QED
        BY <4>1, <4>2
    <3>7. QED
      BY <3>4, <3>6 DEF JoinInv, JoinWoken
  <2>3. QED
    BY <2>1, <2>2
<1>5. QED
  BY <1>1, <1>2, <1>3, <1>4 DEF Next

-----------------------------------------------------------------------------
(* The theorems.                                                           *)

\* The invariant holds in every reachable state.
THEOREM InductiveInvariant ==
    Spec => []IInv
<1>1. Init => IInv
  <2> SUFFICES ASSUME Init PROVE IInv
    OBVIOUS
  <2> USE BoundAssumption
  <2>1. TypeOK
    <3>1. cur \in Tasks
      BY TaskTypes DEF Init
    <3>2. timedOut \in BOOLEAN /\ qWait \in BOOLEAN /\ triggered \in BOOLEAN
      BY DEF Init
    <3>3. \A i \in 1 .. Len(syncQ) : syncQ[i] \in Tasks /\ syncQ[i].index > 0
      BY DEF Init
    <3>4. qIndex \in 0 .. MaxIndex + 1 /\ finished \in 0 .. MaxIndex + 1
      BY DEF Init
    <3>5. idx \in [Requesters -> 0 .. MaxIndex + 1]
      BY DEF Init
    <3>6. QED
      BY <3>1, <3>2, <3>3, <3>4, <3>5 DEF Init, TypeOK, Starting
  <2>2. PhaseInv /\ StoreInv
    BY DEF Init, PhaseInv, StoreInv, Executing, kIndexExit
  <2>3. QueueInv
    BY DEF Init, QueueInv, Orderly, Serving, Starting
  <2>4. RequestInv
    BY DEF Init, RequestInv, Asking
  <2>5. QED
    BY <2>1, <2>2, <2>3, <2>4 DEF IInv
<1>2. IInv /\ [Next]_vars => IInv'
  <2> SUFFICES ASSUME IInv, [Next]_vars PROVE IInv'
    OBVIOUS
  <2>1. TypeOK' /\ PhaseInv' /\ StoreInv'
    BY TypeNext, PhaseNext, StoreNext DEF IInv
  <2>2. QueueInv' /\ RequestInv'
    BY QueueNext, RequestNext DEF IInv
  <2>3. QED
    BY <2>1, <2>2 DEF IInv
<1>3. QED
  BY <1>1, <1>2, PTL DEF Spec

\* A thread that asks for a blocking collection goes on only after a collection
\* that began later than its request has ended, or when the GC thread has
\* exited, whatever other threads ask for, although equal requests share a task
\* and although requests may come before the GC thread serves and after it has
\* ceased to, unless this life of the GC thread inherited numbers.
THEOREM BlockingRequestServed ==
    Spec => GcBeforeReturn
<1>1. IInv /\ [Next]_vars =>
        [\A r \in Requesters :
            rpc[r] \in {"check", "wait"} /\ rpc'[r] = "idle" =>
                \/ seen[r] = "done" \/ finished = kIndexExit
                \/ idx[r] <= kSyncIndexStartValue \/ inherited]_vars
  <2>1. SUFFICES ASSUME IInv, Next, NEW r \in Requesters,
                        rpc[r] \in {"check", "wait"}, rpc'[r] = "idle",
                        finished # kIndexExit, ~(idx[r] <= kSyncIndexStartValue), ~inherited
                 PROVE  seen[r] = "done"
    OBVIOUS
  <2>2. TypeOK /\ PhaseInv /\ RequestInv
    BY <2>1 DEF IInv
  <2>3. WaitGCFinished(r)
    <3>1. ~GcStep
      BY <2>1 DEF GcStep, RunTaskLoop, TaskQueueInit, Dequeue, Pop, DequeueSleep,
         DequeueWoken, DequeueTimeout, Execute, Collect, NotifyGCFinished, DeInit, NotifyExit,
         reqVars
    <3>2. ~StartThread
      BY <2>1 DEF StartThread, reqVars
    <3>3. PICK s \in Requesters : RequesterStep(s) \/ Request(s)
      BY <2>1, <3>1, <3>2 DEF Next
    <3>4. s = r
      BY <2>1, <2>2, <3>3 DEF RequesterStep, StoreIndex, NotifyAsync, WaitGCFinished,
           WaitGCStoppedLite, GCStoppedWoken, JoinThread, Request, EnqueueSync, EnqueueAsync,
           WaitGCStopped, StopThread, Goto, TypeOK
    <3>5. QED
      BY <2>1, <3>3, <3>4 DEF RequesterStep, StoreIndex, NotifyAsync,
           WaitGCStoppedLite, GCStoppedWoken, JoinThread, Request, EnqueueSync, EnqueueAsync,
           WaitGCStopped, StopThread
  <2>4. finished >= idx[r] \/ finished = kIndexExit
    BY <2>1, <2>2, <2>3 DEF WaitGCFinished, Goto, TypeOK
  <2>5. finished >= idx[r]
    BY <2>1, <2>4
  <2>6. finished \in Nat /\ idx[r] \in Nat
    BY <2>2, IndexTypes
  <2>7. gpc \notin {"off", "begin", "ended"}
    BY <2>1, <2>2 DEF PhaseInv
  <2>8. gpc # "init"
    BY <2>1, <2>2, <2>5, <2>6 DEF PhaseInv, kSyncIndexStartValue
  <2>9. QED
    BY <2>1, <2>2, <2>5, <2>6, <2>7, <2>8 DEF RequestInv, Asking, Orderly, Serving, Starting
<1>2. QED
  BY <1>1, InductiveInvariant, PTL DEF Spec, GcBeforeReturn

\* No thread of the collection protocol sleeps on for want of a notification,
\* in any life of the GC thread: it has no synchronous task while it sleeps in
\* Dequeue, whoever sleeps on gcFinishedCondVar sleeps while its condition is
\* false and, unless numbers were inherited, has an answer coming, and
\* JoinThread waits for a Terminate task that will be executed.
THEOREM WakeupsArrive ==
    Spec => []NoLostWakeup
<1>1. Init => WakeInv
  BY DEF Init, WakeInv, IdleInv, KindInv, SleepInv, ServeInv, JoinInv, JoinWoken, Stopping
<1>2. IInv /\ WakeInv /\ [Next]_vars => WakeInv'
  BY IdleNext, KindNext, SleepNext, ServeNext, JoinNext DEF WakeInv
<1>3. IInv /\ WakeInv => NoLostWakeup
  <2> SUFFICES ASSUME IInv, WakeInv PROVE NoLostWakeup
    OBVIOUS
  <2>1. TaskWoken /\ JoinWoken
    BY DEF WakeInv, IdleInv, JoinInv, TaskWoken
  <2>2. AnswerWoken
    BY DEF WakeInv, SleepInv, ServeInv, KindInv, AnswerWoken, IInv, TypeOK
  <2>3. QED
    BY <2>1, <2>2 DEF NoLostWakeup
<1>4. QED
  BY <1>1, <1>2, <1>3, InductiveInvariant, PTL DEF Spec

\* The tasks are executed in the order of their numbers, unless this life of the
\* GC thread inherited some.
THEOREM NumbersAscend ==
    Spec => []IndexOrder
<1>1. IInv /\ NoLostWakeup => IndexOrder
  <2> SUFFICES ASSUME IInv, NoLostWakeup, ~inherited, gpc \notin Starting \cup {"ended"}
               PROVE  IndexOrder
    BY DEF IndexOrder, IInv
  <2> DEFINE queued == [i \in 1 .. Len(syncQ) |-> syncQ[i].index]
             running == IF gpc \in {"execute", "gc"} /\ cur.index # kAsyncIndex
                        THEN <<cur.index>> ELSE <<>>
             order == <<finished>> \o running \o queued
  <2>0. TypeOK /\ QueueInv /\ Orderly
    BY DEF IInv, Serving, Orderly
  <2>1. /\ finished \in Int /\ qIndex \in Int /\ cur.index \in Int /\ Len(syncQ) \in Nat
        /\ \A i \in 1 .. Len(syncQ) : syncQ[i].index \in Int
    BY <2>0, IndexTypes DEF QueueInv
  <2>2. queued \in Seq(Int) /\ Len(queued) = Len(syncQ)
        /\ \A i \in 1 .. Len(syncQ) : queued[i] = syncQ[i].index
    <3>1. queued \in [1 .. Len(syncQ) -> Int]
      BY <2>1
    <3>2. queued \in Seq(Int)
      BY <2>1, <3>1, SeqDef
    <3>3. Len(queued) = Len(syncQ)
      BY <2>1, <3>1, <3>2, LenProperties
    <3>4. QED
      BY <3>2, <3>3
  <2>3. /\ Ascending(queued) /\ UpTo(queued, qIndex)
        /\ finished <= qIndex
        /\ \A i \in 1 .. Len(queued) : finished < queued[i]
    BY <2>0, <2>2 DEF QueueInv, Ascending, UpTo
  <2> HIDE DEF queued
  <2>4. /\ running \in Seq(Int) /\ Ascending(running) /\ UpTo(running, qIndex)
        /\ \A i \in 1 .. Len(running) : finished < running[i]
        /\ \A i \in 1 .. Len(running), j \in 1 .. Len(queued) : running[i] < queued[j]
    <3>1. CASE Executing
      <4>1. running = <<cur.index>>
        BY <3>1 DEF Executing
      <4> HIDE DEF running
      <4>2. running \in Seq(Int) /\ Len(running) = 1 /\ running[1] = cur.index
        BY <2>1, <4>1
      <4>3. /\ finished < cur.index /\ cur.index <= qIndex
            /\ \A i \in 1 .. Len(queued) : cur.index < queued[i]
        BY <2>0, <2>2, <3>1 DEF QueueInv
      <4>4. QED
        BY <4>2, <4>3 DEF Ascending, UpTo
    <3>2. CASE ~Executing
      <4>1. running = <<>>
        BY <3>2 DEF Executing
      <4> HIDE DEF running
      <4>2. running \in Seq(Int) /\ Len(running) = 0
        BY <4>1
      <4>3. QED
        BY <4>2 DEF Ascending, UpTo
    <3>3. QED
      BY <3>1, <3>2
  <2> HIDE DEF running
  <2> DEFINE one == <<finished>>
  <2>5. /\ one \in Seq(Int) /\ Len(one) = 1 /\ one[1] = finished
    BY <2>1
  <2>6. Ascending(one) /\ UpTo(one, qIndex)
    BY <2>3, <2>5 DEF Ascending, UpTo
  <2> HIDE DEF one
  <2> DEFINE first == one \o running
  <2>7. /\ first \in Seq(Int) /\ Ascending(first) /\ UpTo(first, qIndex)
        /\ Len(first) = 1 + Len(running)
        /\ \A i \in 1 .. Len(first) : first[i] = finished \/
              \E j \in 1 .. Len(running) : first[i] = running[j]
    <3>1. \A i \in 1 .. Len(one), j \in 1 .. Len(running) : one[i] < running[j]
      BY <2>4, <2>5
    <3>2. /\ first \in Seq(Int) /\ Ascending(first) /\ UpTo(first, qIndex)
          /\ Len(first) = Len(one) + Len(running)
      BY <2>1, <2>4, <2>5, <2>6, <3>1, AscendingConcat
    <3>3. \A i \in 1 .. Len(first) :
             first[i] = IF i <= Len(one) THEN one[i] ELSE running[i - Len(one)]
      BY <2>4, <2>5, ConcatProperties
    <3>4. Len(running) \in Nat
      BY <2>4
    <3> HIDE DEF first
    <3>5. QED
      BY <2>5, <3>2, <3>3, <3>4
  <2> HIDE DEF first
  <2>8. \A i \in 1 .. Len(first), j \in 1 .. Len(queued) : first[i] < queued[j]
    BY <2>3, <2>4, <2>7
  <2>9. /\ first \o queued \in Seq(Int) /\ Ascending(first \o queued)
        /\ UpTo(first \o queued, qIndex)
        /\ Len(first \o queued) = Len(first) + Len(queued)
    BY <2>1, <2>2, <2>3, <2>7, <2>8, AscendingConcat
  <2>10. first \o queued = order
    BY DEF first, one
  <2>11. Len(order) >= 1 /\ Len(order) \in Nat
    <3>1. Len(running) \in Nat /\ Len(queued) \in Nat
      BY <2>2, <2>4
    <3>2. QED
      BY <2>7, <2>9, <2>10, <3>1
  <2>12. /\ \A i, j \in 1 .. Len(order) : i < j => order[i] < order[j]
         /\ order[Len(order)] <= qIndex
    <3>1. Ascending(order) /\ UpTo(order, qIndex)
      BY <2>9, <2>10
    <3> HIDE DEF order
    <3>2. Len(order) \in 1 .. Len(order)
      BY <2>11
    <3>3. QED
      BY <3>1, <3>2 DEF Ascending, UpTo
  <2>13. QED
    BY <2>0, <2>12 DEF IndexOrder, queued, running
<1>2. QED
  BY <1>1, InductiveInvariant, WakeupsArrive, PTL
=============================================================================
