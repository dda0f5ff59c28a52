----------------------------- MODULE GcRequest -----------------------------
(***************************************************************************)
(* Asking for a collection (task_queue.h, collector_tracing.cpp).          *)
(*                                                                         *)
(* The GC thread drains two queues: a locked list of synchronous tasks,    *)
(* numbered by queueSyncIndex, and a lock-free word with one bit per kind  *)
(* of asynchronous task.  A thread that asks for a blocking collection     *)
(* waits until finishedGcIndex has reached the number of its task; index 0 *)
(* says that the GC thread has exited.  Around a fork the GC thread is     *)
(* stopped, joined and started again, and counts from 1 again.             *)
(*                                                                         *)
(* A request checks nothing about the GC thread: it may come before the    *)
(* thread has set up its queue, or after it has emptied the queue for the  *)
(* last time.  Such a task keeps its old number in the next life.          *)
(*                                                                         *)
(* One action is one critical section of taskQueueLock or of               *)
(* gcFinishedCondMutex, or one access to an atomic.  The increment of      *)
(* queueSyncIndex has a load and a store, because taskQueue.Init writes it *)
(* without the lock.  A collection itself is one control point (the other  *)
(* modules are about its inside).                                          *)
(***************************************************************************)
EXTENDS Integers, Sequences, FiniteSets

CONSTANTS
    Requesters,      \* the threads that call InvokeGC, StopThread, ...
    Blocking,        \* the reasons of each kind, as numbers: reasonCfgs
    LiteBlocking,
    NonBlocking,
    MaxIndex         \* bound on queueSyncIndex

ASSUME ReasonsAssumption ==
    /\ Blocking \cup LiteBlocking \cup NonBlocking \subseteq Nat
    /\ NonBlocking \cap (Blocking \cup LiteBlocking) = {}
    /\ Blocking \cap LiteBlocking = {}
ASSUME BoundAssumption == MaxIndex \in Nat \ {0}

VARIABLES
    gpc,        \* control point of the GC thread
    cur,        \* the task it executes
    timedOut,   \* Dequeue's cvResult
    qWait,      \* it is asleep on taskQueueCondVar
    syncQ,      \* syncTaskQueue
    tq,         \* LocklessTaskQueue::tqWord, as the set of its bits
    qIndex,     \* queueSyncIndex
    finished,   \* finishedGcIndex
    triggered,  \* isGcTriggered
    rpc,        \* control point of each requester
    req,        \* the reason of its request
    idx,        \* curThreadSyncIndex, curWaitGcIndex
    finWait,    \* requesters asleep on gcFinishedCondVar
    seen,       \* history: has a collection begun, and ended, since the request?
    inherited   \* history: was a task numbered before taskQueue.Init began this life?

gcVars == <<gpc, cur, timedOut>>
queueVars == <<qWait, syncQ, tq, qIndex>>
doneVars == <<finished, triggered, finWait>>
reqVars == <<rpc, req, idx>>
history == <<seen, inherited>>
vars == <<gcVars, queueVars, doneVars, reqVars, history>>

kIndexExit == 0
kSyncIndexStartValue == 1
kAsyncIndex == -1              \* ULONG_MAX
kInvalidGCReason == -1

Reasons == Blocking \cup LiteBlocking \cup NonBlocking

InvokeGC(reason, i) == [type |-> "invoke", reason |-> reason, index |-> i]
Terminate(i) == [type |-> "terminate", reason |-> kInvalidGCReason, index |-> i]
Timeout == [type |-> "timeout", reason |-> kInvalidGCReason, index |-> kAsyncIndex]

kPrioTimeout == 1
kPrioInvokeGC == 2
FromPrio(p) ==
    IF p = kPrioTimeout THEN Timeout
    ELSE InvokeGC(p - kPrioInvokeGC, kAsyncIndex)

\* LocklessTaskQueue::Push: an overriding task erases those of lower priority,
\* that is of larger number.
Push(word, p) ==
    IF p = kPrioTimeout THEN {p} \cup {q \in word : q < p} ELSE word \cup {p}

\* taskQueueLock is held from one step to the next.
QueueLocked ==
    \/ gpc \in {"pop", "sleep"}
    \/ \E r \in Requesters : rpc[r] = "store"

\* The GC thread has not begun, or has ceased, to serve its queue.
Starting == {"off", "begin", "init"}
Exiting == {"deinit", "exit", "ended"}

\* queueSyncIndex is not initialized before the GC thread runs.
Init ==
    /\ gpc = "off"
    /\ cur = Timeout
    /\ timedOut = FALSE
    /\ qWait = FALSE
    /\ syncQ = <<>>
    /\ tq = {}
    /\ qIndex \in 0 .. MaxIndex
    /\ finished = 0
    /\ triggered = FALSE
    /\ rpc = [r \in Requesters |-> "idle"]
    /\ req = [r \in Requesters |-> kInvalidGCReason]
    /\ idx = [r \in Requesters |-> 0]
    /\ finWait = {}
    /\ seen = [r \in Requesters |-> "done"]
    /\ inherited = FALSE

-----------------------------------------------------------------------------
(* The GC thread: RunTaskLoop, TaskQueue::Dequeue, GCTask::Execute.        *)

GcGoto(p) == gpc' = p

RunTaskLoop ==
    /\ gpc = "begin"
    /\ finished' = kSyncIndexStartValue
    /\ GcGoto("init")
    /\ UNCHANGED <<cur, timedOut, queueVars, triggered, finWait, reqVars, history>>

\* What was queued, or numbered, before keeps its number.
TaskQueueInit ==
    /\ gpc = "init"
    /\ qIndex' = kSyncIndexStartValue
    /\ inherited' = (syncQ # <<>> \/ \E r \in Requesters : rpc[r] = "store")
    /\ GcGoto("dequeue")
    /\ UNCHANGED <<cur, timedOut, qWait, syncQ, tq, doneVars, reqVars, seen>>

\* Synchronous tasks first; after a timeout a Timeout task is pushed.
Dequeue ==
    /\ gpc = "dequeue" /\ ~QueueLocked
    /\ IF syncQ # <<>>
       THEN /\ cur' = Head(syncQ)
            /\ syncQ' = Tail(syncQ)
            /\ GcGoto("execute")
            /\ UNCHANGED tq
       ELSE /\ tq' = IF timedOut THEN Push(tq, kPrioTimeout) ELSE tq
            /\ GcGoto("pop")
            /\ UNCHANGED <<cur, syncQ>>
    /\ timedOut' = FALSE
    /\ UNCHANGED <<qWait, qIndex, doneVars, reqVars, history>>

\* LocklessTaskQueue::Pop: the lowest bit.
Pop ==
    /\ gpc = "pop"
    /\ \/ /\ tq = {}
          /\ GcGoto("sleep")
          /\ UNCHANGED <<cur, tq>>
       \/ \E p \in tq :
          /\ \A q \in tq : p <= q
          /\ tq' = tq \ {p}
          /\ cur' = FromPrio(p)
          /\ GcGoto("execute")
    /\ UNCHANGED <<timedOut, qWait, syncQ, qIndex, doneVars, reqVars, history>>

\* taskQueueCondVar.wait_for: asleep and the lock released, ...
DequeueSleep ==
    /\ gpc = "sleep"
    /\ qWait' = TRUE
    /\ GcGoto("wait")
    /\ UNCHANGED <<cur, timedOut, syncQ, tq, qIndex, doneVars, reqVars, history>>

\* ... until notified (too late, perhaps: then wait_for says timeout), ...
DequeueWoken ==
    /\ gpc = "wait" /\ ~qWait
    /\ timedOut' \in BOOLEAN
    /\ GcGoto("dequeue")
    /\ UNCHANGED <<cur, queueVars, doneVars, reqVars, history>>

\* ... or after a second without a notification.
DequeueTimeout ==
    /\ gpc = "wait" /\ qWait
    /\ qWait' = FALSE
    /\ timedOut' = TRUE
    /\ GcGoto("dequeue")
    /\ UNCHANGED <<cur, syncQ, tq, qIndex, doneVars, reqVars, history>>

\* A collection begins after every request made so far.
Collect ==
    /\ triggered' = TRUE
    /\ seen' = [r \in Requesters |-> IF seen[r] = "none" THEN "begun" ELSE seen[r]]
    /\ GcGoto("gc")

\* On a Timeout task a collection is forced if NativeEpochStats are enabled
\* and the last collection is long ago; else nothing happens.
Execute ==
    /\ gpc = "execute"
    /\ \/ cur.type = "terminate" /\ GcGoto("deinit") /\ UNCHANGED <<triggered, seen>>
       \/ cur.type = "timeout" /\ GcGoto("dequeue") /\ UNCHANGED <<triggered, seen>>
       \/ cur.type \in {"timeout", "invoke"} /\ Collect
    /\ UNCHANGED <<cur, timedOut, queueVars, finished, finWait, reqVars, inherited>>

\* Mutant: one waiter is notified, not all.
MutantNotifyOne ==
    /\ gpc = "gc"
    /\ triggered' = FALSE
    /\ finished' = IF cur.index # kAsyncIndex THEN cur.index ELSE finished
    /\ \/ finWait = {} /\ finWait' = {}
       \/ \E r \in finWait : finWait' = finWait \ {r}
    /\ seen' = [r \in Requesters |-> IF seen[r] = "begun" THEN "done" ELSE seen[r]]
    /\ GcGoto("dequeue")
    /\ UNCHANGED <<cur, timedOut, queueVars, reqVars, inherited>>

\* RunFullCollection ends with NotifyGCFinished(gcIndex).
NotifyGCFinished ==
    /\ gpc = "gc"
    /\ triggered' = FALSE
    /\ finished' = IF cur.index # kAsyncIndex THEN cur.index ELSE finished
    /\ finWait' = {}
    /\ seen' = [r \in Requesters |-> IF seen[r] = "begun" THEN "done" ELSE seen[r]]
    /\ GcGoto("dequeue")
    /\ UNCHANGED <<cur, timedOut, queueVars, reqVars, inherited>>

DeInit ==
    /\ gpc = "deinit" /\ ~QueueLocked
    /\ tq' = {}
    /\ syncQ' = <<>>
    /\ GcGoto("exit")
    /\ UNCHANGED <<cur, timedOut, qWait, qIndex, doneVars, reqVars, history>>

\* NotifyGCFinished(kIndexExit), the last thing the GC thread does.
NotifyExit ==
    /\ gpc = "exit"
    /\ triggered' = FALSE
    /\ finished' = kIndexExit
    /\ finWait' = {}
    /\ GcGoto("ended")
    /\ UNCHANGED <<cur, timedOut, queueVars, reqVars, history>>

-----------------------------------------------------------------------------
(* The requesters.                                                         *)

Goto(r, p) == rpc' = [rpc EXCEPT ![r] = p]

\* Where a request goes on once its task is in the queue.
AfterEnqueue(reason) ==
    IF reason \in Blocking THEN "check"
    ELSE IF reason \in LiteBlocking THEN "lite" ELSE "join"

\* The queued tasks the filter finds equal to a new one, and the last of them.
Same(reason) == {i \in 1 .. Len(syncQ) : syncQ[i].reason = reason}
Last(I) == CHOOSE i \in I : \A j \in I : j <= i

\* TaskQueue::Enqueue<true>: the index of an equal task, or a new task, ...
EnqueueSync(r, reason) ==
    /\ rpc[r] = "idle" /\ ~QueueLocked /\ qIndex < MaxIndex
    /\ req' = [req EXCEPT ![r] = reason]
    /\ seen' = [seen EXCEPT ![r] = "none"]
    /\ IF Same(reason) # {}
       THEN /\ idx' = [idx EXCEPT ![r] = syncQ[Last(Same(reason))].index]
            /\ Goto(r, AfterEnqueue(reason))
       ELSE /\ idx' = [idx EXCEPT ![r] = qIndex + 1]
            /\ Goto(r, "store")
    /\ UNCHANGED <<gcVars, queueVars, doneVars, inherited>>

\* Mutant: queueSyncIndex is not written back.
MutantStoreIndex(r) ==
    /\ rpc[r] = "store"
    /\ syncQ' = Append(syncQ, IF req[r] = kInvalidGCReason THEN Terminate(idx[r])
                              ELSE InvokeGC(req[r], idx[r]))
    /\ qWait' = FALSE
    /\ Goto(r, AfterEnqueue(req[r]))
    /\ UNCHANGED <<gcVars, tq, qIndex, doneVars, req, idx, history>>

\* ... whose number is written back before it is appended and notified.
StoreIndex(r) ==
    /\ rpc[r] = "store"
    /\ qIndex' = idx[r]
    /\ syncQ' = Append(syncQ, IF req[r] = kInvalidGCReason THEN Terminate(idx[r])
                              ELSE InvokeGC(req[r], idx[r]))
    /\ qWait' = FALSE
    /\ Goto(r, AfterEnqueue(req[r]))
    /\ UNCHANGED <<gcVars, tq, doneVars, req, idx, history>>

\* Mutant: satisfied by the collection before.
MutantWaitGCFinished(r) ==
    /\ rpc[r] \in {"check", "wait"} /\ r \notin finWait
    /\ IF finished + 1 >= idx[r] \/ finished = kIndexExit
       THEN Goto(r, "idle") /\ UNCHANGED finWait
       ELSE Goto(r, "wait") /\ finWait' = finWait \cup {r}
    /\ UNCHANGED <<gcVars, queueVars, finished, triggered, req, idx, history>>

\* RequestGCAndWait: gcFinishedCondVar.wait(lock, pred).
WaitGCFinished(r) ==
    /\ rpc[r] \in {"check", "wait"} /\ r \notin finWait
    /\ IF finished >= idx[r] \/ finished = kIndexExit
       THEN Goto(r, "idle") /\ UNCHANGED finWait
       ELSE Goto(r, "wait") /\ finWait' = finWait \cup {r}
    /\ UNCHANGED <<gcVars, queueVars, finished, triggered, req, idx, history>>

\* WaitGCStoppedLite: the next notification or half a second.
WaitGCStoppedLite(r) ==
    /\ rpc[r] = "lite"
    /\ Goto(r, "idle")
    /\ UNCHANGED <<gcVars, queueVars, doneVars, req, idx, history>>

\* EnqueueAsync: a bit is set, then the GC thread is notified, without the lock.
EnqueueAsync(r, reason) ==
    /\ rpc[r] = "idle"
    /\ tq' = Push(tq, kPrioInvokeGC + reason)
    /\ Goto(r, "notify")
    /\ UNCHANGED <<gcVars, qWait, syncQ, qIndex, doneVars, req, idx, history>>

NotifyAsync(r) ==
    /\ rpc[r] = "notify"
    /\ qWait' = FALSE
    /\ Goto(r, "idle")
    /\ UNCHANGED <<gcVars, syncQ, tq, qIndex, doneVars, req, idx, history>>

\* WaitGCStopped: until the collection that is triggered now has ended.
WaitGCStopped(r) ==
    /\ rpc[r] = "idle" /\ triggered /\ finished # kIndexExit
    /\ idx' = [idx EXCEPT ![r] = finished]
    /\ finWait' = finWait \cup {r}
    /\ Goto(r, "stopped")
    /\ UNCHANGED <<gcVars, queueVars, finished, triggered, req, history>>

GCStoppedWoken(r) ==
    /\ rpc[r] = "stopped" /\ r \notin finWait
    /\ IF ~triggered \/ idx[r] # finished \/ finished = kIndexExit
       THEN Goto(r, "idle") /\ UNCHANGED finWait
       ELSE finWait' = finWait \cup {r} /\ UNCHANGED rpc
    /\ UNCHANGED <<gcVars, queueVars, finished, triggered, req, idx, history>>

-----------------------------------------------------------------------------
(* Starting and stopping the GC thread: at start-up, exit and around fork. *)

\* No other thread exists then (WaitUntilAllThreadsStopped).
StartThread ==
    /\ gpc = "off" /\ \A s \in Requesters : rpc[s] = "idle"
    /\ GcGoto("begin")
    /\ UNCHANGED <<cur, timedOut, queueVars, doneVars, reqVars, history>>

\* The Terminate task goes through Enqueue<true> with a filter that finds
\* nothing; the caller, one main thread, goes on to JoinThread.
StopThread(r) ==
    /\ rpc[r] = "idle" /\ gpc # "off" /\ ~QueueLocked /\ qIndex <= MaxIndex
    /\ \A s \in Requesters : rpc[s] # "join"
    /\ req' = [req EXCEPT ![r] = kInvalidGCReason]
    /\ idx' = [idx EXCEPT ![r] = qIndex + 1]
    /\ Goto(r, "store")
    /\ UNCHANGED <<gcVars, queueVars, doneVars, history>>

JoinThread(r) ==
    /\ rpc[r] = "join" /\ gpc = "ended"
    /\ GcGoto("off")
    /\ Goto(r, "idle")
    /\ UNCHANGED <<cur, timedOut, queueVars, doneVars, req, idx, history>>

-----------------------------------------------------------------------------
GcStep ==
    \/ RunTaskLoop \/ TaskQueueInit
    \/ Dequeue \/ Pop \/ DequeueSleep \/ DequeueWoken \/ DequeueTimeout
    \/ Execute \/ NotifyGCFinished \/ DeInit \/ NotifyExit

\* What a requester does without being asked.
RequesterStep(r) ==
    \/ StoreIndex(r) \/ NotifyAsync(r)
    \/ WaitGCFinished(r) \/ WaitGCStoppedLite(r) \/ GCStoppedWoken(r)
    \/ JoinThread(r)

Request(r) ==
    \/ \E reason \in Blocking \cup LiteBlocking : EnqueueSync(r, reason)
    \/ \E reason \in NonBlocking : EnqueueAsync(r, reason)
    \/ WaitGCStopped(r)
    \/ StopThread(r)

Next ==
    \/ GcStep
    \/ StartThread
    \/ \E r \in Requesters : RequesterStep(r) \/ Request(r)

Spec == Init /\ [][Next]_vars

\* Every thread is scheduled, collections end and wait_for times out.
FairSpec ==
    /\ Spec
    /\ WF_vars(GcStep)
    /\ \A r \in Requesters : WF_vars(RequesterStep(r))

-----------------------------------------------------------------------------
(* Properties.                                                             *)

Tasks ==
    [type : {"invoke", "terminate", "timeout"},
     reason : Reasons \cup {kInvalidGCReason},
     index : {kAsyncIndex} \cup 0 .. MaxIndex + 1]

TypeOK ==
    /\ gpc \in Starting \cup Exiting \cup
               {"dequeue", "pop", "sleep", "wait", "execute", "gc"}
    /\ cur \in Tasks
    /\ timedOut \in BOOLEAN /\ qWait \in BOOLEAN /\ triggered \in BOOLEAN
    /\ \A i \in 1 .. Len(syncQ) : syncQ[i] \in Tasks /\ syncQ[i].index > 0
    /\ \A p \in tq : p = kPrioTimeout \/ p - kPrioInvokeGC \in NonBlocking
    /\ qIndex \in 0 .. MaxIndex + 1
    /\ finished \in 0 .. MaxIndex + 1
    /\ rpc \in [Requesters -> {"idle", "store", "check", "wait", "lite",
                               "notify", "stopped", "join"}]
    /\ req \in [Requesters -> Reasons \cup {kInvalidGCReason}]
    /\ idx \in [Requesters -> 0 .. MaxIndex + 1]
    /\ finWait \in SUBSET Requesters
    /\ seen \in [Requesters -> {"none", "begun", "done"}]
    /\ inherited \in BOOLEAN

\* "[B] blocking: Calling Collector::TriggerGC or MRT_TriggerGC will block
\* until the current GC finishes": RequestGCAndWait returns only when a
\* collection that began after the request has ended, or when the GC thread has
\* exited.  (A number up to the start value comes only from queueSyncIndex not
\* yet initialized.)  RunTaskLoop restarts the numbers, but not those of tasks
\* that were numbered before, and then it does not hold.
BlocksUntilCollected ==
    [][\A r \in Requesters :
        rpc[r] \in {"check", "wait"} /\ rpc'[r] = "idle" =>
            seen[r] = "done" \/ finished = kIndexExit \/ idx[r] <= kSyncIndexStartValue]_vars

\* That is the only way: without an inherited number a blocking request is
\* blocked until its collection has ended, whatever is asked for by whom, in
\* the second life of the GC thread as in the first.
GcBeforeReturn ==
    [][\A r \in Requesters :
        rpc[r] \in {"check", "wait"} /\ rpc'[r] = "idle" =>
            \/ seen[r] = "done" \/ finished = kIndexExit
            \/ idx[r] <= kSyncIndexStartValue \/ inherited]_vars

\* The GC thread still has to execute the task with a type and a number, or is
\* about to exit.
Ahead(type, i) ==
    \/ \E k \in 1 .. Len(syncQ) : syncQ[k].type = type /\ syncQ[k].index = i
    \/ gpc \in {"execute", "gc"} /\ cur.type = type /\ cur.index = i
    \/ gpc \in {"deinit", "exit"}

\* The GC thread sleeps in Dequeue only while it has no synchronous task.
TaskWoken == qWait => gpc = "wait" /\ syncQ = <<>>

\* A thread sleeps on gcFinishedCondVar only while its condition is false and,
\* unless numbers were inherited, its collection, or the one that was triggered
\* when it came, will end.
AnswerWoken ==
    \A r \in finWait :
        \/ /\ rpc[r] = "wait" /\ finished < idx[r] /\ finished # kIndexExit
           /\ Ahead("invoke", idx[r]) \/ inherited
        \/ rpc[r] = "stopped" /\ triggered /\ gpc = "gc" /\ idx[r] = finished

\* JoinThread waits only while the Terminate task is ahead.
JoinWoken ==
    \A r \in Requesters : rpc[r] = "join" =>
        Ahead("terminate", idx[r]) \/ gpc = "ended"

\* No notification of taskQueueCondVar for a synchronous task or of
\* gcFinishedCondVar is lost, and no task somebody waits for is dropped, also
\* when it was queued before the GC thread began or is stopped at once.
NoLostWakeup == TaskWoken /\ AnswerWoken /\ JoinWoken

\* finishedGcIndex is "only [...] written by gc thread sequentially": unless
\* numbers were inherited, the tasks of the synchronous queue are numbered in
\* the order they will be executed, after the one that is executed and the one
\* finished last, so that reaching a number means that all requests up to it
\* have been served.  (Checked together with the types and with NoLostWakeup.)
IndexOrder ==
    /\ TypeOK
    /\ NoLostWakeup
    /\ ~inherited /\ gpc \notin Starting \cup {"ended"} =>
        LET running == IF gpc \in {"execute", "gc"} /\ cur.index # kAsyncIndex
                       THEN <<cur.index>> ELSE <<>>
            order == <<finished>> \o running \o
                     [i \in 1 .. Len(syncQ) |-> syncQ[i].index]
        IN  /\ \A i, j \in 1 .. Len(order) : i < j => order[i] < order[j]
            /\ order[Len(order)] <= qIndex

\* No thread waits for a collection for ever, whatever is asked for in between
\* and also when the GC thread exits, unless numbers were inherited: then a
\* later task with a lower number may take finishedGcIndex back before the
\* thread is scheduled.  StopThread is always obeyed, so that JoinThread does
\* not wait for ever either: no asynchronous request or timeout holds the
\* Terminate task back, and none is dropped.
RequestReturns ==
    \A r \in Requesters :
        /\ []<>(rpc[r] # "wait" \/ inherited)
        /\ []<>(rpc[r] # "join")

=============================================================================
