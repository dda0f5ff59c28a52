------------------------ MODULE MplThreadPoolProofs ------------------------
(***************************************************************************)
(* Proofs about MplThreadPool for any finite sets of workers and tasks.    *)
(*                                                                         *)
(* The counters are exact because every critical section that moves a      *)
(* worker also corrects them.  A worker becomes busy (executing or waiting *)
(* for a task) only while the pool runs and only when the active workers   *)
(* are not too many; so a pool that has been stopped, and has seen         *)
(* currActiveThreadNum at zero, has no busy worker, and the limit can      *)
(* be changed.  A task that runs has an executor; with none left and an    *)
(* empty queue everything that WaitFinish owes is done.                    *)
(***************************************************************************)
EXTENDS MplThreadPool, FiniteSetTheorems, TLAPS

-----------------------------------------------------------------------------
(* The inductive invariant.                                                *)

\* Workers that execute a task or have been let through to wait for one.
Busy == {w \in Workers : pc[w] \in {"exec", "wait"}}

StoppedPCs == {"ready", "drain", "drain_exec", "deleted"}

CountInv ==
    /\ currActive = Cardinality(Active)
    /\ currWaiting = Cardinality(Waiting)

\* The limit holds for the workers that wait as well: they go on to execute
\* without looking at the number of active workers again.
LimitInv == Cardinality(Busy) <= maxActive

\* A stopped pool stays so, and has no busy worker.
QuietInv ==
    /\ gpc \in StoppedPCs \cup {"new", "new_wait", "stop_wait"} => ~running
    /\ gpc \in StoppedPCs => Busy = {}

\* A running task has an executor, and whoever executes has a task.
ExecutorInv ==
    /\ \A w \in Workers : pc[w] = "exec" => task[w] \in Tasks
    /\ gpc \in {"take_exec", "drain_exec"} => gtask \in Tasks
    /\ \A t \in Tasks : status[t] = "running" =>
          \/ \E w \in Workers : pc[w] = "exec" /\ task[w] = t
          \/ gpc \in {"take_exec", "drain_exec"} /\ gtask = t

\* What WaitFinish owes was added before, and is done when it has returned.
OwedInv ==
    /\ Constructing => owed = {}
    /\ \A t \in owed : status[t] # "new"
    /\ gpc = "ready" => \A t \in owed : status[t] = "done"

IInv == TypeOK /\ CountInv /\ LimitInv /\ QuietInv /\ ExecutorInv /\ OwedInv

-----------------------------------------------------------------------------
(* Counting.                                                               *)

\* Sets of workers are finite and no larger than the pool.
LEMMA WorkerSets ==
    ASSUME NEW S, S \subseteq Workers
    PROVE  IsFiniteSet(S) /\ Cardinality(S) \in 0 .. maxThreadNum
<1>1. IsFiniteSet(S) /\ Cardinality(S) <= Cardinality(Workers)
  BY FS_Subset, WorkersAssumption
<1>2. Cardinality(S) \in Nat /\ Cardinality(Workers) \in Nat
  BY <1>1, FS_CardinalityType, WorkersAssumption
<1>3. QED
  BY <1>1, <1>2 DEF maxThreadNum

\* maxThreadNum is a natural number, and not zero.
LEMMA PoolSize == maxThreadNum \in Nat /\ maxThreadNum # 0
<1>1. Cardinality(Workers) \in Nat
  BY FS_CardinalityType, WorkersAssumption
<1>2. Cardinality(Workers) # 0
  BY FS_EmptySet, WorkersAssumption
<1>3. QED
  BY <1>1, <1>2 DEF maxThreadNum

WorkerPCs == {"top", "lock", "sleep", "wait", "exec", "leave", "gone"}

\* What a worker at a control point contributes to the two counters.
AsActive(q) == IF q \in {"sleep", "gone"} THEN 0 ELSE 1
AsWaiting(q) == IF q = "wait" THEN 1 ELSE 0

\* Adding a worker to a set of workers, and taking it away.
LEMMA CardMoved ==
    ASSUME NEW S, S \subseteq Workers, NEW w \in Workers
    PROVE  /\ Cardinality(S \cup {w}) =
                IF w \in S THEN Cardinality(S) ELSE Cardinality(S) + 1
           /\ Cardinality(S \ {w}) =
                IF w \in S THEN Cardinality(S) - 1 ELSE Cardinality(S)
<1>1. IsFiniteSet(S)
  BY WorkerSets
<1>2. Cardinality(S \cup {w}) =
        IF w \in S THEN Cardinality(S) ELSE Cardinality(S) + 1
  BY <1>1, FS_AddElement, Zenon
<1>3. Cardinality(S \ {w}) =
        IF w \in S THEN Cardinality(S) - 1 ELSE Cardinality(S)
  BY <1>1, FS_RemoveElement, Zenon
<1>4. QED
  BY <1>2, <1>3

\* One worker's move changes the numbers of active and of waiting workers by
\* what it contributes after and before.
LEMMA CountMoved ==
    ASSUME TypeOK, NEW w \in Workers, NEW q \in WorkerPCs, Goto(w, q)
    PROVE  /\ Cardinality(Active') =
                Cardinality(Active) - AsActive(pc[w]) + AsActive(q)
           /\ Cardinality(Waiting') =
                Cardinality(Waiting) - AsWaiting(pc[w]) + AsWaiting(q)
<1>1. Active \subseteq Workers /\ Cardinality(Active) \in Nat
  BY WorkerSets, PoolSize DEF Active
<1>2. Waiting \subseteq Workers /\ Cardinality(Waiting) \in Nat
  BY WorkerSets, PoolSize DEF Waiting
<1>3. Active' = IF AsActive(q) = 1 THEN Active \cup {w} ELSE Active \ {w}
  BY DEF Active, AsActive, TypeOK, Goto
<1>4. Waiting' = IF AsWaiting(q) = 1 THEN Waiting \cup {w} ELSE Waiting \ {w}
  BY DEF Waiting, AsWaiting, TypeOK, Goto
<1>5. w \in Active <=> AsActive(pc[w]) = 1
  BY DEF Active, AsActive
<1>6. w \in Waiting <=> AsWaiting(pc[w]) = 1
  BY DEF Waiting, AsWaiting
<1>7. /\ AsActive(q) \in {0, 1} /\ AsActive(pc[w]) \in {0, 1}
      /\ AsWaiting(q) \in {0, 1} /\ AsWaiting(pc[w]) \in {0, 1}
  BY DEF AsActive, AsWaiting
<1>8. Cardinality(Active') =
        Cardinality(Active) - AsActive(pc[w]) + AsActive(q)
  <2>1. /\ Cardinality(Active \cup {w}) = IF w \in Active
              THEN Cardinality(Active) ELSE Cardinality(Active) + 1
        /\ Cardinality(Active \ {w}) = IF w \in Active
              THEN Cardinality(Active) - 1 ELSE Cardinality(Active)
    BY <1>1, CardMoved
  <2>2. QED
    BY ONLY <1>1, <1>3, <1>5, <1>7, <2>1
<1>9. Cardinality(Waiting') =
        Cardinality(Waiting) - AsWaiting(pc[w]) + AsWaiting(q)
  <2>1. /\ Cardinality(Waiting \cup {w}) = IF w \in Waiting
              THEN Cardinality(Waiting) ELSE Cardinality(Waiting) + 1
        /\ Cardinality(Waiting \ {w}) = IF w \in Waiting
              THEN Cardinality(Waiting) - 1 ELSE Cardinality(Waiting)
    BY <1>2, CardMoved
  <2>2. QED
    BY ONLY <1>2, <1>4, <1>6, <1>7, <2>1
<1>10. QED
  BY <1>8, <1>9

-----------------------------------------------------------------------------
(* What a critical section of a worker does to the counters and the pool.  *)

\* A worker corrects both counters for its move.  It becomes busy only while
\* the pool runs, and when it was not busy before, only within the limit.
WorkerMove(w, q) ==
    /\ Goto(w, q)
    /\ currActive' = currActive - AsActive(pc[w]) + AsActive(q)
    /\ currWaiting' = currWaiting - AsWaiting(pc[w]) + AsWaiting(q)
    /\ UNCHANGED <<flagVars, gpc, gtask, owed>>
    /\ q \in {"exec", "wait"} => running
    /\ q \in {"exec", "wait"} /\ pc[w] \notin {"exec", "wait"} =>
          currActive' <= maxActive

\* Every step of WorkerFunc is such a move.
LEMMA WorkerMoves ==
    ASSUME IInv, NEW w \in Workers, WorkerStep(w)
    PROVE  \E q \in WorkerPCs : WorkerMove(w, q)
<1> USE DEF AsActive, AsWaiting, WorkerPCs, WorkerMove
<1>0. currActive \in Nat /\ currWaiting \in Nat /\ maxActive \in Nat
  BY PoolSize DEF IInv, TypeOK
<1>1. CASE WorkerTop(w)
  <2>1. WorkerMove(w, "leave") \/ WorkerMove(w, "lock")
    BY <1>0, <1>1 DEF WorkerTop, flagVars
  <2>2. QED
    BY <2>1
<1>2. ASSUME Sleep(w, currActive - AsActive(pc[w]) + 1),
             pc[w] \in {"lock", "sleep"}, UNCHANGED <<flagVars, gpc, gtask, owed>>
      PROVE  WorkerMove(w, "sleep")
  BY <1>0, <1>2 DEF Sleep
<1>3. ASSUME NEW active \in Nat, active = currActive - AsActive(pc[w]) + 1,
             NEW waiting \in Int, waiting = currWaiting - AsWaiting(pc[w]),
             running /\ ~exit /\ pc[w] # "wait" => active <= maxActive,
             pc[w] \in {"lock", "sleep", "wait"}, Proceed(w, active, waiting),
             UNCHANGED <<flagVars, gpc, gtask, owed>>
      PROVE  \E q \in {"wait", "exec", "top"} : WorkerMove(w, q)
  <2>1. CASE AwaitTask(w, active, waiting)
    <3>1. WorkerMove(w, "wait")
      BY <1>0, <1>3, <2>1 DEF AwaitTask
    <3>2. QED
      BY <3>1
  <2>2. CASE TakeTask(w, active, waiting)
    <3>1. WorkerMove(w, "exec")
      BY <1>0, <1>3, <2>2 DEF TakeTask
    <3>2. QED
      BY <3>1
  <2>3. CASE TakeNone(w, active, waiting)
    <3>1. WorkerMove(w, "top")
      BY <1>0, <1>3, <2>3 DEF TakeNone
    <3>2. QED
      BY <3>1
  <2>4. QED
    BY <1>3, <2>1, <2>2, <2>3 DEF Proceed
<1>4. CASE WorkerLock(w)
  <2>1. currActive - AsActive(pc[w]) + 1 = currActive /\ pc[w] = "lock"
    BY <1>0, <1>4 DEF WorkerLock
  <2>2. CASE Sleep(w, currActive)
    <3>1. WorkerMove(w, "sleep")
      BY <1>2, <1>4, <2>1, <2>2 DEF WorkerLock
    <3>2. QED
      BY <3>1
  <2>3. CASE ~MustSleep(currActive) /\ Proceed(w, currActive, currWaiting)
    <3>1. running /\ ~exit => currActive <= maxActive
      BY <1>0, <2>3 DEF MustSleep
    <3>2. currWaiting = currWaiting - AsWaiting(pc[w])
      BY <1>0, <2>1
    <3>3. UNCHANGED <<flagVars, gpc, gtask, owed>>
      BY <1>4 DEF WorkerLock
    <3>4. \E q \in {"wait", "exec", "top"} : WorkerMove(w, q)
      BY ONLY <1>0, <1>3, <2>1, <2>3, <3>1, <3>2, <3>3
    <3>5. QED
      BY <3>4
  <2>4. QED
    BY <1>4, <2>2, <2>3 DEF WorkerLock
<1>5. CASE WorkerSleepWoken(w)
  <2>1. currActive - AsActive(pc[w]) + 1 = currActive + 1 /\ pc[w] = "sleep"
    BY <1>0, <1>5 DEF WorkerSleepWoken
  <2>2. CASE Sleep(w, currActive + 1)
    <3>1. WorkerMove(w, "sleep")
      BY <1>2, <1>5, <2>1, <2>2 DEF WorkerSleepWoken
    <3>2. QED
      BY <3>1
  <2>3. CASE ~MustSleep(currActive + 1) /\ Proceed(w, currActive + 1, currWaiting)
    <3>1. running /\ ~exit => currActive + 1 <= maxActive
      BY <1>0, <2>3 DEF MustSleep
    <3>2. currWaiting = currWaiting - AsWaiting(pc[w])
      BY <1>0, <2>1
    <3>3. UNCHANGED <<flagVars, gpc, gtask, owed>>
      BY <1>5 DEF WorkerSleepWoken
    <3>4. \E q \in {"wait", "exec", "top"} : WorkerMove(w, q)
      <4> DEFINE active == currActive + 1
      <4>1. active \in Nat /\ active = currActive - AsActive(pc[w]) + 1
        BY <1>0, <2>1
      <4>2. Proceed(w, active, currWaiting)
        BY <2>3
      <4>3. running /\ ~exit => active <= maxActive
        BY <3>1
      <4> HIDE DEF active
      <4>4. QED
        BY ONLY <1>0, <1>3, <2>1, <3>2, <3>3, <4>1, <4>2, <4>3
    <3>5. QED
      BY <3>4
  <2>4. QED
    BY <1>5, <2>2, <2>3 DEF WorkerSleepWoken
<1>6. CASE WorkerWaitWoken(w)
  <2>1. pc[w] = "wait" /\ currActive = currActive - AsActive(pc[w]) + 1
    BY <1>0, <1>6 DEF WorkerWaitWoken
  <2> DEFINE waiting == currWaiting - 1
  <2>2. waiting \in Int /\ waiting = currWaiting - AsWaiting(pc[w])
    BY <1>0, <2>1
  <2>3. Proceed(w, currActive, waiting)
    BY <1>6 DEF WorkerWaitWoken
  <2>4. UNCHANGED <<flagVars, gpc, gtask, owed>>
    BY <1>6 DEF WorkerWaitWoken
  <2> HIDE DEF waiting
  <2>5. \E q \in {"wait", "exec", "top"} : WorkerMove(w, q)
    BY ONLY <1>0, <1>3, <2>1, <2>2, <2>3, <2>4
  <2>6. QED
    BY <2>5
<1>7. CASE WorkerExecuted(w)
  <2>1. WorkerMove(w, "top")
    BY <1>0, <1>7 DEF WorkerExecuted, flagVars
  <2>2. QED
    BY <2>1
<1>8. CASE WorkerLeave(w)
  <2>1. WorkerMove(w, "gone")
    BY <1>0, <1>8 DEF WorkerLeave, flagVars
  <2>2. QED
    BY <2>1
<1>9. QED
  BY <1>1, <1>4, <1>5, <1>6, <1>7, <1>8 DEF WorkerStep

-----------------------------------------------------------------------------
(* Each conjunct is preserved by every action.                             *)

\* The counters follow the workers.
LEMMA CountStep ==
    ASSUME IInv, [Next]_vars
    PROVE  CountInv'
<1> USE DEF IInv, CountInv
<1>1. ASSUME NEW w \in Workers, WorkerStep(w) PROVE CountInv'
  <2>1. PICK q \in WorkerPCs : WorkerMove(w, q)
    BY <1>1, WorkerMoves
  <2>2. QED
    BY <2>1, CountMoved DEF WorkerMove
<1>2. ASSUME NEW t \in Tasks, ForkTask(t) PROVE CountInv'
  BY <1>2
  DEF ForkTask, AddTask, NotifyOne, Constructing, flagVars, workerVars,
      Active, Waiting
<1>3. ASSUME NEW t \in Tasks, SubmitTask(t) PROVE CountInv'
  BY <1>3
  DEF SubmitTask, AddTask, NotifyOne, Constructing, flagVars, workerVars,
      Active, Waiting
<1>4. CASE GcTake
  BY <1>4
  DEF GcTake, GcGoto, Queue, flagVars, workerVars, Active, Waiting
<1>5. CASE GcExecuted
  BY <1>5
  DEF GcExecuted, GcGoto, flagVars, workerVars, Active, Waiting
<1>6. CASE GcTakeNone
  BY <1>6
  DEF GcTakeNone, GcGoto, Queue, flagVars, workerVars, Active, Waiting
<1>7. CASE GcFinishWait
  BY <1>7
  DEF GcFinishWait, GcGoto, flagVars, workerVars, Active, Waiting
<1>8. CASE Stop
  BY <1>8
  DEF Stop, AwaitStopped, GcGoto, Constructing, workerVars, Active, Waiting
<1>9. CASE StopWoken
  BY <1>9
  DEF StopWoken, AwaitStopped, GcGoto, Constructing, flagVars, workerVars,
      Active, Waiting
<1>10. CASE GcDrained
  BY <1>10
  DEF GcDrained, GcGoto, Queue, flagVars, workerVars, Active, Waiting
<1>11. ASSUME NEW n \in 1 .. maxThreadNum, SetMaxActiveThreadNum(n) PROVE CountInv'
  BY <1>11
  DEF SetMaxActiveThreadNum, workerVars, Active, Waiting
<1>12. CASE Start
  BY <1>12
  DEF Start, GcGoto, workerVars, Active, Waiting
<1>13. ASSUME NEW b \in BOOLEAN, WaitFinish(b) PROVE CountInv'
  BY <1>13
  DEF WaitFinish, GcGoto, flagVars, workerVars, Active, Waiting
<1>14. CASE DrainTaskQueue
  BY <1>14
  DEF DrainTaskQueue, GcGoto, Queue, flagVars, workerVars, Active, Waiting
<1>15. CASE NextRound
  BY <1>15
  DEF NextRound, flagVars, workerVars, Active, Waiting
<1>16. CASE Exit
  BY <1>16
  DEF Exit, Constructing, workerVars, Active, Waiting
<1>17. CASE Delete
  BY <1>17
  DEF Delete, GcGoto, flagVars, workerVars, Active, Waiting
<1>18. CASE UNCHANGED vars
  BY <1>18
  DEF vars, flagVars, workerVars, Active, Waiting
<1>19. QED
  BY <1>1, <1>2, <1>3, <1>4, <1>5, <1>6, <1>7, <1>8, <1>9, <1>10, <1>11,
      <1>12, <1>13, <1>14, <1>15, <1>16, <1>17, <1>18
  DEF Next, GcStep, GcChoice

\* Workers become busy only within the limit, and the limit changes only while
\* nobody is busy.
LEMMA LimitStep ==
    ASSUME IInv, [Next]_vars
    PROVE  LimitInv'
<1>0. /\ IsFiniteSet(Busy) /\ Cardinality(Busy) \in Nat
      /\ IsFiniteSet(Busy') /\ Cardinality(Busy') \in Nat
      /\ IsFiniteSet(Active') /\ Cardinality(Active') \in Nat
      /\ maxActive \in Nat
  BY WorkerSets, PoolSize DEF Busy, Active, IInv, TypeOK
<1>1. ASSUME NEW w \in Workers, WorkerStep(w) PROVE LimitInv'
  <2>1. PICK q \in WorkerPCs : WorkerMove(w, q)
    BY <1>1, WorkerMoves
  <2>2. maxActive' = maxActive
    BY <2>1 DEF WorkerMove, flagVars
  <2>3. CASE Busy' \subseteq Busy
    BY <1>0, <2>2, <2>3, FS_Subset DEF IInv, LimitInv
  <2>4. CASE ~(Busy' \subseteq Busy)
    <3>1. currActive' <= maxActive
      BY <2>1, <2>4 DEF WorkerMove, Goto, Busy, IInv, TypeOK
    <3>2. Busy' \subseteq Active'
      BY DEF Busy, Active
    <3>3. Cardinality(Busy') <= Cardinality(Active')
      BY <1>0, <3>2, FS_Subset
    <3>4. Cardinality(Active') = currActive'
      BY CountStep DEF CountInv
    <3>5. QED
      BY <1>0, <2>2, <3>1, <3>3, <3>4 DEF LimitInv
  <2>5. QED
    BY <2>3, <2>4
<1>2. ASSUME NEW t \in Tasks, ForkTask(t) PROVE LimitInv'
  BY <1>2
  DEF ForkTask, AddTask, NotifyOne, Constructing, flagVars, workerVars,
      IInv, LimitInv, Busy
<1>3. ASSUME NEW t \in Tasks, SubmitTask(t) PROVE LimitInv'
  BY <1>3
  DEF SubmitTask, AddTask, NotifyOne, Constructing, flagVars, workerVars,
      IInv, LimitInv, Busy
<1>4. CASE GcTake
  BY <1>4
  DEF GcTake, GcGoto, Queue, flagVars, workerVars, IInv, LimitInv, Busy
<1>5. CASE GcExecuted
  BY <1>5
  DEF GcExecuted, GcGoto, flagVars, workerVars, IInv, LimitInv, Busy
<1>6. CASE GcTakeNone
  BY <1>6
  DEF GcTakeNone, GcGoto, Queue, flagVars, workerVars, IInv, LimitInv, Busy
<1>7. CASE GcFinishWait
  BY <1>7
  DEF GcFinishWait, GcGoto, flagVars, workerVars, IInv, LimitInv, Busy
<1>8. CASE Stop
  BY <1>8
  DEF Stop, AwaitStopped, GcGoto, Constructing, workerVars, IInv, LimitInv,
      Busy
<1>9. CASE StopWoken
  BY <1>9
  DEF StopWoken, AwaitStopped, GcGoto, Constructing, flagVars, workerVars,
      IInv, LimitInv, Busy
<1>10. CASE GcDrained
  BY <1>10
  DEF GcDrained, GcGoto, Queue, flagVars, workerVars, IInv, LimitInv, Busy
<1>11. ASSUME NEW n \in 1 .. maxThreadNum, SetMaxActiveThreadNum(n) PROVE LimitInv'
  <2>1. Busy' = {}
    BY <1>11
    DEF SetMaxActiveThreadNum, workerVars, IInv, QuietInv, StoppedPCs, Busy
  <2>2. maxActive' \in Nat
    BY <1>11, PoolSize DEF SetMaxActiveThreadNum
  <2>3. QED
    BY <2>1, <2>2, FS_EmptySet DEF LimitInv
<1>12. CASE Start
  BY <1>12
  DEF Start, GcGoto, workerVars, IInv, LimitInv, Busy
<1>13. ASSUME NEW b \in BOOLEAN, WaitFinish(b) PROVE LimitInv'
  BY <1>13
  DEF WaitFinish, GcGoto, flagVars, workerVars, IInv, LimitInv, Busy
<1>14. CASE DrainTaskQueue
  BY <1>14
  DEF DrainTaskQueue, GcGoto, Queue, flagVars, workerVars, IInv, LimitInv,
      Busy
<1>15. CASE NextRound
  BY <1>15
  DEF NextRound, flagVars, workerVars, IInv, LimitInv, Busy
<1>16. CASE Exit
  BY <1>16
  DEF Exit, Constructing, workerVars, IInv, LimitInv, Busy
<1>17. CASE Delete
  BY <1>17
  DEF Delete, GcGoto, flagVars, workerVars, IInv, LimitInv, Busy
<1>18. CASE UNCHANGED vars
  BY <1>18
  DEF vars, flagVars, workerVars, IInv, LimitInv, Busy
<1>19. QED
  BY <1>1, <1>2, <1>3, <1>4, <1>5, <1>6, <1>7, <1>8, <1>9, <1>10, <1>11,
      <1>12, <1>13, <1>14, <1>15, <1>16, <1>17, <1>18
  DEF Next, GcStep, GcChoice

\* Stop() returns only when nobody is active, and only Start lets workers
\* become busy again.
LEMMA QuietStep ==
    ASSUME IInv, [Next]_vars
    PROVE  QuietInv'
<1>0. currActive = 0 => Busy = {}
  <2>1. IsFiniteSet(Active)
    BY WorkerSets DEF Active
  <2>2. Cardinality(Active) = 0 => Active = {}
    BY <2>1, FS_EmptySet
  <2>3. QED
    BY <2>2 DEF IInv, CountInv, Active, Busy
<1>1. ASSUME NEW w \in Workers, WorkerStep(w) PROVE QuietInv'
  <2>1. PICK q \in WorkerPCs : WorkerMove(w, q)
    BY <1>1, WorkerMoves
  <2>2. QED
    BY <2>1
    DEF WorkerMove, Goto, flagVars, Busy, IInv, TypeOK, QuietInv, StoppedPCs
<1>2. ASSUME NEW t \in Tasks, ForkTask(t) PROVE QuietInv'
  BY <1>2, <1>0
  DEF ForkTask, AddTask, NotifyOne, Constructing, flagVars, workerVars,
      IInv, QuietInv, StoppedPCs, Busy
<1>3. ASSUME NEW t \in Tasks, SubmitTask(t) PROVE QuietInv'
  BY <1>3, <1>0
  DEF SubmitTask, AddTask, NotifyOne, Constructing, flagVars, workerVars,
      IInv, QuietInv, StoppedPCs, Busy
<1>4. CASE GcTake
  BY <1>4, <1>0
  DEF GcTake, GcGoto, Queue, flagVars, workerVars, IInv, QuietInv,
      StoppedPCs, Busy
<1>5. CASE GcExecuted
  BY <1>5, <1>0
  DEF GcExecuted, GcGoto, flagVars, workerVars, IInv, QuietInv, StoppedPCs,
      Busy
<1>6. CASE GcTakeNone
  BY <1>6, <1>0
  DEF GcTakeNone, GcGoto, Queue, flagVars, workerVars, IInv, QuietInv,
      StoppedPCs, Busy
<1>7. CASE GcFinishWait
  BY <1>7, <1>0
  DEF GcFinishWait, GcGoto, flagVars, workerVars, IInv, QuietInv,
      StoppedPCs, Busy
<1>8. CASE Stop
  BY <1>8, <1>0
  DEF Stop, AwaitStopped, GcGoto, Constructing, workerVars, IInv, QuietInv,
      StoppedPCs, Busy
<1>9. CASE StopWoken
  BY <1>9, <1>0
  DEF StopWoken, AwaitStopped, GcGoto, Constructing, flagVars, workerVars,
      IInv, QuietInv, StoppedPCs, Busy
<1>10. CASE GcDrained
  BY <1>10, <1>0
  DEF GcDrained, GcGoto, Queue, flagVars, workerVars, IInv, QuietInv,
      StoppedPCs, Busy
<1>11. ASSUME NEW n \in 1 .. maxThreadNum, SetMaxActiveThreadNum(n) PROVE QuietInv'
  BY <1>11, <1>0
  DEF SetMaxActiveThreadNum, workerVars, IInv, QuietInv, StoppedPCs, Busy
<1>12. CASE Start
  BY <1>12, <1>0
  DEF Start, GcGoto, workerVars, IInv, QuietInv, StoppedPCs, Busy
<1>13. ASSUME NEW b \in BOOLEAN, WaitFinish(b) PROVE QuietInv'
  BY <1>13, <1>0
  DEF WaitFinish, GcGoto, flagVars, workerVars, IInv, QuietInv, StoppedPCs,
      Busy
<1>14. CASE DrainTaskQueue
  BY <1>14, <1>0
  DEF DrainTaskQueue, GcGoto, Queue, flagVars, workerVars, IInv, QuietInv,
      StoppedPCs, Busy
<1>15. CASE NextRound
  BY <1>15, <1>0
  DEF NextRound, flagVars, workerVars, IInv, QuietInv, StoppedPCs, Busy
<1>16. CASE Exit
  BY <1>16, <1>0
  DEF Exit, Constructing, workerVars, IInv, QuietInv, StoppedPCs, Busy
<1>17. CASE Delete
  BY <1>17, <1>0
  DEF Delete, GcGoto, flagVars, workerVars, IInv, QuietInv, StoppedPCs, Busy
<1>18. CASE UNCHANGED vars
  BY <1>18, <1>0
  DEF vars, flagVars, workerVars, IInv, QuietInv, StoppedPCs, Busy
<1>19. QED
  BY <1>1, <1>2, <1>3, <1>4, <1>5, <1>6, <1>7, <1>8, <1>9, <1>10, <1>11,
      <1>12, <1>13, <1>14, <1>15, <1>16, <1>17, <1>18
  DEF Next, GcStep, GcChoice

\* Taking a task makes an executor, and only its executor ends it.
LEMMA ExecutorStep ==
    ASSUME IInv, [Next]_vars
    PROVE  ExecutorInv'
<1> USE DEF IInv, TypeOK, ExecutorInv
<1>1. ASSUME NEW w \in Workers, WorkerTop(w) PROVE ExecutorInv'
  BY <1>1
  DEF WorkerTop, Goto, flagVars
<1>2. ASSUME NEW w \in Workers, WorkerLock(w) PROVE ExecutorInv'
  BY <1>2
  DEF WorkerLock, Goto, Sleep, Proceed, AwaitTask, TakeTask, TakeNone,
      Queue, flagVars
<1>3. ASSUME NEW w \in Workers, WorkerSleepWoken(w) PROVE ExecutorInv'
  BY <1>3
  DEF WorkerSleepWoken, Goto, Sleep, Proceed, AwaitTask, TakeTask, TakeNone,
      Queue, flagVars
<1>4. ASSUME NEW w \in Workers, WorkerWaitWoken(w) PROVE ExecutorInv'
  BY <1>4
  DEF WorkerWaitWoken, Goto, Proceed, AwaitTask, TakeTask, TakeNone, Queue,
      flagVars
<1>5. ASSUME NEW w \in Workers, WorkerExecuted(w) PROVE ExecutorInv'
  BY <1>5
  DEF WorkerExecuted, Goto, flagVars
<1>6. ASSUME NEW w \in Workers, WorkerLeave(w) PROVE ExecutorInv'
  BY <1>6
  DEF WorkerLeave, Goto, flagVars
<1>7. ASSUME NEW t \in Tasks, ForkTask(t) PROVE ExecutorInv'
  BY <1>7
  DEF ForkTask, AddTask, NotifyOne, Constructing, flagVars, workerVars
<1>8. ASSUME NEW t \in Tasks, SubmitTask(t) PROVE ExecutorInv'
  BY <1>8
  DEF SubmitTask, AddTask, NotifyOne, Constructing, flagVars, workerVars
<1>9. CASE GcTake
  BY <1>9
  DEF GcTake, GcGoto, Queue, flagVars, workerVars
<1>10. CASE GcExecuted
  BY <1>10
  DEF GcExecuted, GcGoto, flagVars, workerVars
<1>11. CASE GcTakeNone
  BY <1>11
  DEF GcTakeNone, GcGoto, Queue, flagVars, workerVars
<1>12. CASE GcFinishWait
  BY <1>12
  DEF GcFinishWait, GcGoto, flagVars, workerVars
<1>13. CASE Stop
  BY <1>13
  DEF Stop, AwaitStopped, GcGoto, Constructing, workerVars
<1>14. CASE StopWoken
  BY <1>14
  DEF StopWoken, AwaitStopped, GcGoto, Constructing, flagVars, workerVars
<1>15. CASE GcDrained
  BY <1>15
  DEF GcDrained, GcGoto, Queue, flagVars, workerVars
<1>16. ASSUME NEW n \in 1 .. maxThreadNum, SetMaxActiveThreadNum(n) PROVE ExecutorInv'
  BY <1>16
  DEF SetMaxActiveThreadNum, workerVars
<1>17. CASE Start
  BY <1>17
  DEF Start, GcGoto, workerVars
<1>18. ASSUME NEW b \in BOOLEAN, WaitFinish(b) PROVE ExecutorInv'
  BY <1>18
  DEF WaitFinish, GcGoto, flagVars, workerVars
<1>19. CASE DrainTaskQueue
  BY <1>19
  DEF DrainTaskQueue, GcGoto, Queue, flagVars, workerVars
<1>20. CASE NextRound
  BY <1>20
  DEF NextRound, flagVars, workerVars
<1>21. CASE Exit
  BY <1>21
  DEF Exit, Constructing, workerVars
<1>22. CASE Delete
  BY <1>22
  DEF Delete, GcGoto, flagVars, workerVars
<1>23. CASE UNCHANGED vars
  BY <1>23
  DEF vars, flagVars, workerVars
<1>24. QED
  BY <1>1, <1>2, <1>3, <1>4, <1>5, <1>6, <1>7, <1>8, <1>9, <1>10, <1>11,
      <1>12, <1>13, <1>14, <1>15, <1>16, <1>17, <1>18, <1>19, <1>20, <1>21,
      <1>22, <1>23
  DEF Next, GcStep, GcChoice, WorkerStep

\* A task that is owed does not become new, and WaitFinish returns when the
\* queue is empty and nobody executes any more.
LEMMA OwedStep ==
    ASSUME IInv, [Next]_vars
    PROVE  OwedInv'
<1> USE DEF IInv, TypeOK, OwedInv, Constructing
<1>1. ASSUME NEW w \in Workers, WorkerTop(w) PROVE OwedInv'
  BY <1>1
  DEF WorkerTop, Goto, flagVars
<1>2. ASSUME NEW w \in Workers, WorkerLock(w) PROVE OwedInv'
  BY <1>2
  DEF WorkerLock, Goto, Sleep, Proceed, AwaitTask, TakeTask, TakeNone,
      Queue, flagVars
<1>3. ASSUME NEW w \in Workers, WorkerSleepWoken(w) PROVE OwedInv'
  BY <1>3
  DEF WorkerSleepWoken, Goto, Sleep, Proceed, AwaitTask, TakeTask, TakeNone,
      Queue, flagVars
<1>4. ASSUME NEW w \in Workers, WorkerWaitWoken(w) PROVE OwedInv'
  BY <1>4
  DEF WorkerWaitWoken, Goto, Proceed, AwaitTask, TakeTask, TakeNone, Queue,
      flagVars
<1>5. ASSUME NEW w \in Workers, WorkerExecuted(w) PROVE OwedInv'
  BY <1>5
  DEF WorkerExecuted, Goto, flagVars
<1>6. ASSUME NEW w \in Workers, WorkerLeave(w) PROVE OwedInv'
  BY <1>6
  DEF WorkerLeave, Goto, flagVars
<1>7. ASSUME NEW t \in Tasks, ForkTask(t) PROVE OwedInv'
  BY <1>7
  DEF ForkTask, AddTask, NotifyOne, Constructing, flagVars, workerVars
<1>8. ASSUME NEW t \in Tasks, SubmitTask(t) PROVE OwedInv'
  BY <1>8
  DEF SubmitTask, AddTask, NotifyOne, Constructing, flagVars, workerVars
<1>9. CASE GcTake
  BY <1>9
  DEF GcTake, GcGoto, Queue, flagVars, workerVars
<1>10. CASE GcExecuted
  BY <1>10
  DEF GcExecuted, GcGoto, flagVars, workerVars
<1>11. CASE GcTakeNone
  BY <1>11
  DEF GcTakeNone, GcGoto, Queue, flagVars, workerVars
<1>12. CASE GcFinishWait
  BY <1>12
  DEF GcFinishWait, GcGoto, flagVars, workerVars
<1>13. CASE Stop
  BY <1>13
  DEF Stop, AwaitStopped, GcGoto, Constructing, workerVars
<1>14. CASE StopWoken
  BY <1>14
  DEF StopWoken, AwaitStopped, GcGoto, Constructing, flagVars, workerVars
<1>15. CASE GcDrained
  BY <1>15
  DEF GcDrained, GcGoto, Queue, flagVars, workerVars, ExecutorInv, QuietInv,
      StoppedPCs, Busy
<1>16. ASSUME NEW n \in 1 .. maxThreadNum, SetMaxActiveThreadNum(n) PROVE OwedInv'
  BY <1>16
  DEF SetMaxActiveThreadNum, workerVars
<1>17. CASE Start
  BY <1>17
  DEF Start, GcGoto, workerVars
<1>18. ASSUME NEW b \in BOOLEAN, WaitFinish(b) PROVE OwedInv'
  BY <1>18
  DEF WaitFinish, GcGoto, flagVars, workerVars
<1>19. CASE DrainTaskQueue
  BY <1>19
  DEF DrainTaskQueue, GcGoto, Queue, flagVars, workerVars
<1>20. CASE NextRound
  BY <1>20
  DEF NextRound, flagVars, workerVars
<1>21. CASE Exit
  BY <1>21
  DEF Exit, Constructing, workerVars
<1>22. CASE Delete
  BY <1>22
  DEF Delete, GcGoto, flagVars, workerVars
<1>23. CASE UNCHANGED vars
  BY <1>23
  DEF vars, flagVars, workerVars
<1>24. QED
  BY <1>1, <1>2, <1>3, <1>4, <1>5, <1>6, <1>7, <1>8, <1>9, <1>10, <1>11,
      <1>12, <1>13, <1>14, <1>15, <1>16, <1>17, <1>18, <1>19, <1>20, <1>21,
      <1>22, <1>23
  DEF Next, GcStep, GcChoice, WorkerStep

\* The critical section of WorkerFunc keeps the types.
LEMMA SectionTypes ==
    ASSUME IInv, NEW w \in Workers, NEW active, NEW waiting,
           Sleep(w, active) \/ Proceed(w, active, waiting)
    PROVE  /\ status' \in [Tasks -> {"new", "queued", "running", "done"}]
           /\ pc' \in [Workers -> WorkerPCs]
           /\ task' \in [Workers -> Tasks \cup {NoTask}]
           /\ sleepCv' \in SUBSET Workers /\ emptyCv' \in SUBSET Workers
           /\ doneCv' \in BOOLEAN /\ stoppedCv' \in BOOLEAN
<1> USE DEF IInv, TypeOK, WorkerPCs, Goto
<1>1. CASE Sleep(w, active)
  BY <1>1 DEF Sleep
<1>2. CASE AwaitTask(w, active, waiting)
  BY <1>2 DEF AwaitTask
<1>3. CASE TakeTask(w, active, waiting)
  BY <1>3 DEF TakeTask, Queue
<1>4. CASE TakeNone(w, active, waiting)
  BY <1>4 DEF TakeNone
<1>5. QED
  BY <1>1, <1>2, <1>3, <1>4 DEF Proceed

\* Every variable keeps its type.
LEMMA TypeStep ==
    ASSUME IInv, [Next]_vars
    PROVE  TypeOK'
<1>0. currActive' \in 0 .. maxThreadNum /\ currWaiting' \in 0 .. maxThreadNum
  <2>1. Active' \subseteq Workers /\ Waiting' \subseteq Workers
    BY DEF Active, Waiting
  <2>2. QED
    BY <2>1, CountStep, WorkerSets DEF CountInv
<1> USE DEF IInv, TypeOK
<1>1. ASSUME NEW w \in Workers, WorkerTop(w) PROVE TypeOK'
  BY <1>1, <1>0
  DEF WorkerTop, Goto, flagVars
<1>2. ASSUME NEW w \in Workers, WorkerLock(w) PROVE TypeOK'
  BY <1>2, <1>0, SectionTypes DEF WorkerLock, flagVars, WorkerPCs
<1>3. ASSUME NEW w \in Workers, WorkerSleepWoken(w) PROVE TypeOK'
  BY <1>3, <1>0, SectionTypes DEF WorkerSleepWoken, flagVars, WorkerPCs
<1>4. ASSUME NEW w \in Workers, WorkerWaitWoken(w) PROVE TypeOK'
  BY <1>4, <1>0, SectionTypes DEF WorkerWaitWoken, flagVars, WorkerPCs
<1>5. ASSUME NEW w \in Workers, WorkerExecuted(w) PROVE TypeOK'
  BY <1>5, <1>0
  DEF WorkerExecuted, Goto, flagVars
<1>6. ASSUME NEW w \in Workers, WorkerLeave(w) PROVE TypeOK'
  BY <1>6, <1>0
  DEF WorkerLeave, Goto, flagVars
<1>7. ASSUME NEW t \in Tasks, ForkTask(t) PROVE TypeOK'
  BY <1>7, <1>0
  DEF ForkTask, AddTask, NotifyOne, Constructing, flagVars, workerVars
<1>8. ASSUME NEW t \in Tasks, SubmitTask(t) PROVE TypeOK'
  BY <1>8, <1>0
  DEF SubmitTask, AddTask, NotifyOne, Constructing, flagVars, workerVars
<1>9. CASE GcTake
  BY <1>9, <1>0
  DEF GcTake, GcGoto, Queue, flagVars, workerVars
<1>10. CASE GcExecuted
  BY <1>10, <1>0
  DEF GcExecuted, GcGoto, flagVars, workerVars
<1>11. CASE GcTakeNone
  BY <1>11, <1>0
  DEF GcTakeNone, GcGoto, Queue, flagVars, workerVars
<1>12. CASE GcFinishWait
  BY <1>12, <1>0
  DEF GcFinishWait, GcGoto, flagVars, workerVars
<1>13. CASE Stop
  BY <1>13, <1>0
  DEF Stop, AwaitStopped, GcGoto, Constructing, workerVars
<1>14. CASE StopWoken
  BY <1>14, <1>0
  DEF StopWoken, AwaitStopped, GcGoto, Constructing, flagVars, workerVars
<1>15. CASE GcDrained
  BY <1>15, <1>0
  DEF GcDrained, GcGoto, Queue, flagVars, workerVars
<1>16. ASSUME NEW n \in 1 .. maxThreadNum, SetMaxActiveThreadNum(n) PROVE TypeOK'
  BY <1>16, <1>0
  DEF SetMaxActiveThreadNum, workerVars
<1>17. CASE Start
  BY <1>17, <1>0
  DEF Start, GcGoto, workerVars
<1>18. ASSUME NEW b \in BOOLEAN, WaitFinish(b) PROVE TypeOK'
  BY <1>18, <1>0
  DEF WaitFinish, GcGoto, flagVars, workerVars
<1>19. CASE DrainTaskQueue
  BY <1>19, <1>0
  DEF DrainTaskQueue, GcGoto, Queue, flagVars, workerVars
<1>20. CASE NextRound
  BY <1>20, <1>0
  DEF NextRound, flagVars, workerVars
<1>21. CASE Exit
  BY <1>21, <1>0
  DEF Exit, Constructing, workerVars
<1>22. CASE Delete
  BY <1>22, <1>0
  DEF Delete, GcGoto, flagVars, workerVars
<1>23. CASE UNCHANGED vars
  BY <1>23, <1>0
  DEF vars, flagVars, workerVars
<1>24. QED
  BY <1>1, <1>2, <1>3, <1>4, <1>5, <1>6, <1>7, <1>8, <1>9, <1>10, <1>11,
      <1>12, <1>13, <1>14, <1>15, <1>16, <1>17, <1>18, <1>19, <1>20, <1>21,
      <1>22, <1>23
  DEF Next, GcStep, GcChoice, WorkerStep

-----------------------------------------------------------------------------
(* Theorems.                                                               *)

\* IInv holds in every reachable state of the pool, for any finite sets of
\* workers and tasks.
THEOREM InductiveInvariant == Spec => []IInv
<1>1. Init => IInv
  <2> SUFFICES ASSUME Init PROVE IInv
    OBVIOUS
  <2>1. TypeOK
    <3>1. /\ maxActive \in 1 .. maxThreadNum /\ currActive \in 0 .. maxThreadNum
          /\ currWaiting \in 0 .. maxThreadNum
      BY PoolSize DEF Init
    <3>2. /\ running \in BOOLEAN /\ exit \in BOOLEAN
          /\ doneCv \in BOOLEAN /\ stoppedCv \in BOOLEAN
      BY DEF Init
    <3>3. QED
      BY <3>1, <3>2 DEF Init, TypeOK
  <2>2. CountInv
    <3>1. Active = Workers /\ Waiting = {}
      BY DEF Init, Active, Waiting
    <3>2. QED
      BY <3>1, FS_EmptySet DEF Init, CountInv, maxThreadNum
  <2>3. LimitInv
    <3>1. Busy = {}
      BY DEF Init, Busy
    <3>2. QED
      BY <3>1, FS_EmptySet, PoolSize DEF Init, LimitInv
  <2>4. QuietInv /\ ExecutorInv /\ OwedInv
    BY DEF Init, QuietInv, ExecutorInv, OwedInv, StoppedPCs
  <2>5. QED
    BY <2>1, <2>2, <2>3, <2>4 DEF IInv
<1>2. IInv /\ [Next]_vars => IInv'
  BY CountStep, LimitStep, QuietStep, ExecutorStep, OwedStep, TypeStep DEF IInv
<1>3. QED
  BY <1>1, <1>2, PTL DEF Spec

-----------------------------------------------------------------------------
(* No wake-up is lost.                                                     *)

\* Nobody leaves a pool that has not been told to exit: the last notification
\* of a leaving worker is not the one that sleeping workers wait for.
LeaveInv == \A w \in Workers : pc[w] \in {"leave", "gone"} => exit

\* Inductive relative to IInv.
WakeInv == NoLostWakeup /\ LeaveInv

\* Workers that wait for a task and have been notified.
Notified == Waiting \ emptyCv

\* The numbers the condition variables are about.
LEMMA Numbers ==
    ASSUME IInv
    PROVE  /\ currActive \in Nat /\ currWaiting \in Nat /\ maxActive \in Nat
           /\ currWaiting <= maxActive
           /\ IsFiniteSet(Waiting) /\ Cardinality(Waiting) = currWaiting
           /\ IsFiniteSet(Notified) /\ Cardinality(Notified) \in Nat
           /\ IsFiniteSet(Queue) /\ Cardinality(Queue) \in Nat
<1>1. currActive \in Nat /\ currWaiting \in Nat /\ maxActive \in Nat
  BY PoolSize DEF IInv, TypeOK
<1>2. IsFiniteSet(Waiting) /\ IsFiniteSet(Notified) /\ IsFiniteSet(Busy)
  BY WorkerSets DEF Waiting, Notified, Busy
<1>3. /\ Cardinality(Waiting) = currWaiting /\ Cardinality(Notified) \in Nat
      /\ Cardinality(Busy) \in Nat
  BY <1>2, FS_CardinalityType DEF IInv, CountInv
<1>4. Cardinality(Waiting) <= Cardinality(Busy)
  <2>1. Waiting \subseteq Busy
    BY DEF Waiting, Busy
  <2>2. QED
    BY <1>2, <2>1, FS_Subset
<1>5. currWaiting <= maxActive
  BY <1>1, <1>3, <1>4 DEF IInv, LimitInv
<1>6. IsFiniteSet(Queue)
  <2>1. Queue \subseteq Tasks
    BY DEF Queue
  <2>2. QED
    BY <2>1, FS_Subset, TasksAssumption
<1>7. Cardinality(Queue) \in Nat
  BY <1>6, FS_CardinalityType
<1>8. QED
  BY <1>1, <1>2, <1>3, <1>5, <1>6, <1>7

\* A step of the GC thread that leaves the workers and the condition variables
\* alone and adds nothing to the queue loses no wake-up.
LEMMA WakeFrame ==
    ASSUME IInv, WakeInv, Queue' \subseteq Queue,
           UNCHANGED <<running, exit, currActive, currWaiting, pc, sleepCv,
                       emptyCv, doneCv, stoppedCv>>,
           maxActive' = maxActive \/ (~running /\ ~doneCv),
           gpc' = gpc \/ (~doneCv /\ ~stoppedCv)
    PROVE  WakeInv'
<1> USE DEF WakeInv, NoLostWakeup
<1>1. FinishWoken'
  BY DEF FinishWoken
<1>2. StoppedWoken'
  BY DEF StoppedWoken
<1>3. TaskWoken'
  <2>1. Waiting' = Waiting
    BY DEF Waiting
  <2>2. Cardinality(Queue') \in Nat /\ Cardinality(Queue') <= Cardinality(Queue)
    BY Numbers, FS_Subset, FS_CardinalityType
  <2>3. Cardinality(Queue) \in Nat /\ Cardinality(Waiting \ emptyCv) \in Nat
    BY Numbers DEF Notified
  <2>4. QED
    BY <2>1, <2>2, <2>3 DEF TaskWoken
<1>4. SleeperWoken'
  BY DEF SleeperWoken
<1>5. LeaveInv'
  BY DEF LeaveInv
<1>6. QED
  BY <1>1, <1>2, <1>3, <1>4, <1>5

\* What the three ways into WorkerFunc's critical section have in common: the
\* worker is not asleep any more, and goes to sleep or proceeds.
LEMMA SectionForm ==
    ASSUME IInv, WakeInv, NEW w \in Workers,
           WorkerLock(w) \/ WorkerSleepWoken(w) \/ WorkerWaitWoken(w)
    PROVE  \E active \in Nat : \E waiting \in Int :
              /\ active >= currActive
              /\ waiting = currWaiting - AsWaiting(pc[w])
              /\ pc[w] \in {"lock", "sleep", "wait"}
              /\ w \notin sleepCv /\ w \notin emptyCv
              /\ UNCHANGED <<flagVars, gpc>>
              /\ \/ pc[w] # "wait" /\ Sleep(w, active)
                 \/ Proceed(w, active, waiting)
<1>0. currActive \in Nat /\ currWaiting \in Nat
  BY Numbers
<1>1. (w \in emptyCv => pc[w] = "wait") /\ (w \in sleepCv => pc[w] = "sleep")
  BY DEF WakeInv, NoLostWakeup, TaskWoken, SleeperWoken, Waiting
<1>2. CASE WorkerLock(w)
  <2>1. /\ pc[w] = "lock" /\ UNCHANGED <<flagVars, gpc>>
        /\ Sleep(w, currActive) \/ Proceed(w, currActive, currWaiting)
    BY <1>2 DEF WorkerLock
  <2>2. currWaiting = currWaiting - AsWaiting(pc[w]) /\ currWaiting \in Int
    BY <1>0, <2>1 DEF AsWaiting
  <2>3. currActive >= currActive
    BY <1>0
  <2>4. QED
    BY <1>0, <1>1, <2>1, <2>2, <2>3
<1>3. CASE WorkerSleepWoken(w)
  <2>1. /\ pc[w] = "sleep" /\ w \notin sleepCv /\ UNCHANGED <<flagVars, gpc>>
        /\ Sleep(w, currActive + 1) \/ Proceed(w, currActive + 1, currWaiting)
    BY <1>3 DEF WorkerSleepWoken
  <2>2. currWaiting = currWaiting - AsWaiting(pc[w]) /\ currWaiting \in Int
    BY <1>0, <2>1 DEF AsWaiting
  <2>3. PICK active \in Nat : active = currActive + 1
    BY <1>0
  <2>4. active >= currActive
    BY <1>0, <2>3
  <2>5. Sleep(w, active) \/ Proceed(w, active, currWaiting)
    BY <2>1, <2>3
  <2>6. QED
    BY <1>0, <1>1, <2>1, <2>2, <2>4, <2>5
<1>4. CASE WorkerWaitWoken(w)
  <2>1. /\ pc[w] = "wait" /\ w \notin emptyCv /\ UNCHANGED <<flagVars, gpc>>
        /\ Proceed(w, currActive, currWaiting - 1)
    BY <1>4 DEF WorkerWaitWoken
  <2>2. PICK waiting \in Int : waiting = currWaiting - 1
    BY <1>0
  <2>3. waiting = currWaiting - AsWaiting(pc[w]) /\ currActive >= currActive
    BY <1>0, <2>1, <2>2 DEF AsWaiting
  <2>4. Proceed(w, currActive, waiting)
    BY <2>1, <2>2
  <2>5. QED
    BY <1>0, <1>1, <2>1, <2>3, <2>4
<1>5. QED
  BY <1>2, <1>3, <1>4

\* A worker goes to sleep only beside maxActiveThreadNum others, or when the
\* pool has been stopped, and the last one notifies Stop().
LEMMA SleepWakes ==
    ASSUME IInv, WakeInv, NEW w \in Workers, NEW active \in Nat,
           active >= currActive, pc[w] \in {"lock", "sleep"}, Sleep(w, active),
           UNCHANGED <<flagVars, gpc>>
    PROVE  WakeInv'
<1>0. /\ currActive \in Nat /\ maxActive \in Nat
      /\ pc' = [pc EXCEPT ![w] = "sleep"] /\ pc \in [Workers -> WorkerPCs]
      /\ UNCHANGED <<running, exit, maxActive, gpc, currWaiting, status, emptyCv,
                     doneCv>>
  BY Numbers DEF Sleep, Goto, flagVars, IInv, TypeOK, WorkerPCs
<1> USE DEF WakeInv, NoLostWakeup
<1>1. FinishWoken'
  BY <1>0 DEF FinishWoken
<1>2. StoppedWoken'
  <2>1. stoppedCv' => stoppedCv /\ active # 1
    BY Zenon DEF Sleep
  <2>2. currActive' = active - 1
    BY DEF Sleep
  <2>3. stoppedCv' => currActive' # 0
    BY <2>1, <2>2
  <2>4. QED
    BY <1>0, <2>1, <2>3 DEF StoppedWoken
<1>3. TaskWoken'
  <2>1. Waiting' = Waiting /\ Queue' = Queue
    BY <1>0 DEF Waiting, Queue
  <2>2. QED
    BY <1>0, <2>1 DEF TaskWoken
<1>4. SleeperWoken'
  <2>1. \A v \in sleepCv' : pc'[v] = "sleep"
    BY <1>0 DEF SleeperWoken, Sleep, IInv, TypeOK
  <2>2. ~exit' /\ (running' => currActive' >= maxActive')
    BY <1>0 DEF Sleep, MustSleep
  <2>3. QED
    BY <2>1, <2>2 DEF SleeperWoken
<1>5. LeaveInv'
  BY <1>0 DEF LeaveInv
<1>6. QED
  BY <1>1, <1>2, <1>3, <1>4, <1>5

\* What a worker that proceeds does to the other condition variables.
LEMMA ProceedFrame ==
    ASSUME IInv, WakeInv, NEW w \in Workers, NEW active \in Nat, NEW waiting,
           active >= currActive, w \notin sleepCv, Proceed(w, active, waiting),
           UNCHANGED <<flagVars, gpc>>
    PROVE  StoppedWoken' /\ SleeperWoken' /\ LeaveInv'
<1>0. /\ currActive \in Nat /\ maxActive \in Nat
      /\ pc \in [Workers -> WorkerPCs] /\ sleepCv \subseteq Workers
  BY Numbers DEF IInv, TypeOK, WorkerPCs
<1>1. /\ currActive' = active
      /\ UNCHANGED <<running, exit, maxActive, gpc, sleepCv, stoppedCv>>
      /\ \E q \in {"wait", "exec", "top"} : pc' = [pc EXCEPT ![w] = q]
  BY DEF Proceed, AwaitTask, TakeTask, TakeNone, Goto, flagVars
<1> USE DEF WakeInv, NoLostWakeup
<1>2. StoppedWoken'
  BY <1>0, <1>1 DEF StoppedWoken
<1>3. SleeperWoken'
  <2>1. \A v \in sleepCv' : pc'[v] = "sleep"
    BY <1>0, <1>1 DEF SleeperWoken
  <2>2. sleepCv' # {} => ~exit' /\ (running' => currActive' >= maxActive')
    BY <1>0, <1>1 DEF SleeperWoken
  <2>3. QED
    BY <2>1, <2>2 DEF SleeperWoken
<1>4. LeaveInv'
  BY <1>0, <1>1 DEF LeaveInv
<1>5. QED
  BY <1>2, <1>3, <1>4

\* A worker waits for a task only when the queue is empty, and the last of
\* maxActiveThreadNum notifies WaitFinish.
LEMMA AwaitWakes ==
    ASSUME IInv, WakeInv, NEW w \in Workers, NEW active \in Nat,
           NEW waiting \in Int, w \notin sleepCv, active >= currActive,
           AwaitTask(w, active, waiting), UNCHANGED <<flagVars, gpc>>
    PROVE  WakeInv'
<1>1. StoppedWoken' /\ SleeperWoken' /\ LeaveInv'
  <2>1. Proceed(w, active, waiting)
    BY DEF Proceed
  <2>2. QED
    BY <2>1, ProceedFrame
<1>2. FinishWoken'
  BY DEF FinishWoken, AwaitTask, flagVars, WakeInv, NoLostWakeup
<1>3. TaskWoken'
  <2>1. running' /\ ~exit' /\ Queue' = {}
    BY DEF AwaitTask, flagVars, Queue
  <2>2. emptyCv' \subseteq Waiting'
    <3>1. pc \in [Workers -> WorkerPCs] /\ pc' = [pc EXCEPT ![w] = "wait"]
      BY DEF AwaitTask, Goto, IInv, TypeOK, WorkerPCs
    <3>2. emptyCv \subseteq Waiting /\ emptyCv' = emptyCv \cup {w}
      BY DEF AwaitTask, WakeInv, NoLostWakeup, TaskWoken
    <3>3. QED
      BY <3>1, <3>2 DEF Waiting
  <2>3. Cardinality(Queue') <= Cardinality(Waiting' \ emptyCv')
    <3>1. Waiting' \ emptyCv' \subseteq Workers
      BY DEF Waiting
    <3>2. Cardinality(Waiting' \ emptyCv') \in Nat
      BY <3>1, WorkerSets, PoolSize
    <3>3. Cardinality(Queue') = 0
      BY <2>1, FS_EmptySet
    <3>4. QED
      BY <3>2, <3>3
  <2>4. QED
    BY <2>1, <2>2, <2>3 DEF TaskWoken
<1>4. QED
  BY <1>1, <1>2, <1>3 DEF WakeInv, NoLostWakeup

\* A worker that was notified and takes a task takes the task it was notified
\* of: what is left in the queue still has its notified workers.
LEMMA TakeWakes ==
    ASSUME IInv, WakeInv, NEW w \in Workers, NEW active \in Nat,
           NEW waiting \in Int, w \notin sleepCv, w \notin emptyCv,
           active >= currActive, waiting = currWaiting - AsWaiting(pc[w]),
           TakeTask(w, active, waiting), UNCHANGED <<flagVars, gpc>>
    PROVE  WakeInv'
<1>0. /\ currWaiting \in Nat /\ maxActive \in Nat /\ currWaiting <= maxActive
      /\ IsFiniteSet(Notified) /\ Cardinality(Notified) \in Nat
      /\ IsFiniteSet(Queue) /\ Cardinality(Queue) \in Nat
  BY Numbers
<1>1. StoppedWoken' /\ SleeperWoken' /\ LeaveInv'
  <2>1. Proceed(w, active, waiting)
    BY DEF Proceed
  <2>2. QED
    BY <2>1, ProceedFrame
<1>2. FinishWoken'
  <2>1. /\ currWaiting' = waiting /\ UNCHANGED <<running, exit, maxActive, gpc, doneCv>>
    BY DEF TakeTask, flagVars
  <2>2. doneCv => currWaiting' # maxActive
    BY <1>0, <2>1 DEF AsWaiting, FinishWoken, WakeInv, NoLostWakeup
  <2>3. QED
    BY <2>1, <2>2 DEF FinishWoken, WakeInv, NoLostWakeup
<1>3. TaskWoken'
  <2>1. /\ UNCHANGED <<running, exit, emptyCv>>
        /\ pc' = [pc EXCEPT ![w] = "exec"] /\ pc \in [Workers -> WorkerPCs]
    BY DEF TakeTask, flagVars, Goto, IInv, TypeOK, WorkerPCs
  <2>2. Waiting' = Waiting \ {w}
    BY <2>1 DEF Waiting
  <2>3. PICK t \in Queue : status' = [status EXCEPT ![t] = "running"]
    BY DEF TakeTask
  <2>4. Queue' = Queue \ {t}
    BY <2>3 DEF Queue, IInv, TypeOK
  <2>5. Cardinality(Queue') = Cardinality(Queue) - 1
    BY <1>0, <2>4, FS_RemoveElement, Zenon
  <2>6. Waiting' \ emptyCv' = Notified \ {w}
    BY <2>1, <2>2 DEF Notified
  <2>7. Cardinality(Notified \ {w}) =
          IF w \in Notified THEN Cardinality(Notified) - 1 ELSE Cardinality(Notified)
    BY <1>0, FS_RemoveElement, Zenon
  <2>8. emptyCv # {} => Cardinality(Queue') <= Cardinality(Notified \ {w})
    <3>1. emptyCv # {} => Cardinality(Queue) <= Cardinality(Notified)
      BY DEF WakeInv, NoLostWakeup, TaskWoken, Notified
    <3>2. QED
      BY <1>0, <2>5, <2>7, <3>1
  <2>9. emptyCv # {} => running /\ ~exit /\ emptyCv' \subseteq Waiting'
    BY <2>1, <2>2 DEF WakeInv, NoLostWakeup, TaskWoken
  <2>10. QED
    BY <2>1, <2>6, <2>8, <2>9 DEF TaskWoken
<1>4. QED
  BY <1>1, <1>2, <1>3 DEF WakeInv, NoLostWakeup

\* A worker leaves without a task only when nobody waits for one.
LEMMA TakeNoneWakes ==
    ASSUME IInv, WakeInv, NEW w \in Workers, NEW active \in Nat,
           NEW waiting \in Int, w \notin sleepCv, active >= currActive,
           TakeNone(w, active, waiting), UNCHANGED <<flagVars, gpc>>
    PROVE  WakeInv'
<1>1. StoppedWoken' /\ SleeperWoken' /\ LeaveInv'
  <2>1. Proceed(w, active, waiting)
    BY DEF Proceed
  <2>2. QED
    BY <2>1, ProceedFrame
<1>2. ~doneCv' /\ emptyCv' = {}
  BY DEF TakeNone, WakeInv, NoLostWakeup, FinishWoken, TaskWoken
<1>3. QED
  BY <1>1, <1>2 DEF WakeInv, NoLostWakeup, FinishWoken, TaskWoken

\* No step of a worker loses a wake-up.
LEMMA WorkerWakes ==
    ASSUME IInv, WakeInv, NEW w \in Workers, WorkerStep(w)
    PROVE  WakeInv'
<1>1. CASE WorkerLock(w) \/ WorkerSleepWoken(w) \/ WorkerWaitWoken(w)
  <2>1. PICK active \in Nat : \E waiting \in Int :
              /\ active >= currActive
              /\ waiting = currWaiting - AsWaiting(pc[w])
              /\ pc[w] \in {"lock", "sleep", "wait"}
              /\ w \notin sleepCv /\ w \notin emptyCv
              /\ UNCHANGED <<flagVars, gpc>>
              /\ \/ pc[w] # "wait" /\ Sleep(w, active)
                 \/ Proceed(w, active, waiting)
    BY <1>1, SectionForm
  <2>2. PICK waiting \in Int :
              /\ active >= currActive
              /\ waiting = currWaiting - AsWaiting(pc[w])
              /\ pc[w] \in {"lock", "sleep", "wait"}
              /\ w \notin sleepCv /\ w \notin emptyCv
              /\ UNCHANGED <<flagVars, gpc>>
              /\ \/ pc[w] # "wait" /\ Sleep(w, active)
                 \/ Proceed(w, active, waiting)
    BY <2>1
  <2>3. CASE pc[w] # "wait" /\ Sleep(w, active)
    BY <2>2, <2>3, SleepWakes
  <2>4. CASE AwaitTask(w, active, waiting)
    BY <2>2, <2>4, AwaitWakes
  <2>5. CASE TakeTask(w, active, waiting)
    BY <2>2, <2>5, TakeWakes
  <2>6. CASE TakeNone(w, active, waiting)
    BY <2>2, <2>6, TakeNoneWakes
  <2>7. QED
    BY <2>2, <2>3, <2>4, <2>5, <2>6 DEF Proceed
<1>2. ASSUME NEW q \in {"leave", "lock", "top", "gone"}, Goto(w, q),
             pc[w] \in {"top", "exec", "leave"}, Queue' \subseteq Queue,
             UNCHANGED <<flagVars, currWaiting, sleepCv, emptyCv, gpc, doneCv>>,
             currActive' \in Nat, stoppedCv' => stoppedCv /\ currActive' # 0,
             q \in {"leave", "gone"} => exit,
             currActive' = currActive \/ exit
      PROVE  WakeInv'
  <2>0. /\ pc' = [pc EXCEPT ![w] = q] /\ pc \in [Workers -> WorkerPCs]
        /\ UNCHANGED <<running, exit, maxActive, currWaiting, sleepCv, emptyCv,
                       gpc, doneCv>>
    BY <1>2 DEF Goto, flagVars, IInv, TypeOK, WorkerPCs
  <2> USE DEF WakeInv, NoLostWakeup
  <2>1. FinishWoken'
    BY <2>0 DEF FinishWoken
  <2>2. StoppedWoken'
    BY <1>2, <2>0 DEF StoppedWoken
  <2>3. TaskWoken'
    <3>1. Waiting' = Waiting
      BY <1>2, <2>0 DEF Waiting
    <3>2. Cardinality(Queue') \in Nat /\ Cardinality(Queue') <= Cardinality(Queue)
      BY <1>2, Numbers, FS_Subset, FS_CardinalityType
    <3>3. Cardinality(Queue) \in Nat /\ Cardinality(Waiting \ emptyCv) \in Nat
      BY Numbers DEF Notified
    <3>4. QED
      BY <2>0, <3>1, <3>2, <3>3 DEF TaskWoken
  <2>4. SleeperWoken'
    BY <1>2, <2>0 DEF SleeperWoken
  <2>5. LeaveInv'
    BY <1>2, <2>0 DEF LeaveInv
  <2>6. QED
    BY <2>1, <2>2, <2>3, <2>4, <2>5
<1>3. CASE WorkerTop(w)
  <2>1. PICK q \in {"leave", "lock"} : q = IF exit THEN "leave" ELSE "lock"
    OBVIOUS
  <2>2. Queue' = Queue /\ Goto(w, q)
    BY <1>3, <2>1 DEF WorkerTop, Queue
  <2>3. currActive' \in Nat /\ (stoppedCv' => stoppedCv /\ currActive' # 0)
    BY <1>3, Numbers DEF WorkerTop, WakeInv, NoLostWakeup, StoppedWoken
  <2>4. QED
    BY <1>2, <1>3, <2>1, <2>2, <2>3 DEF WorkerTop
<1>4. CASE WorkerExecuted(w)
  <2>1. Queue' \subseteq Queue
    BY <1>4 DEF WorkerExecuted, Queue, IInv, TypeOK
  <2>2. currActive' \in Nat /\ (stoppedCv' => stoppedCv /\ currActive' # 0)
    BY <1>4, Numbers DEF WorkerExecuted, WakeInv, NoLostWakeup, StoppedWoken
  <2>3. QED
    BY <1>2, <1>4, <2>1, <2>2 DEF WorkerExecuted
<1>5. CASE WorkerLeave(w)
  <2>1. Queue' = Queue /\ exit
    BY <1>5 DEF WorkerLeave, Queue, WakeInv, LeaveInv
  <2>2. currActive' \in Nat
    <3>1. Active' \subseteq Workers
      BY DEF Active
    <3>2. CountInv'
      BY CountStep DEF Next
    <3>3. QED
      BY <3>1, <3>2, WorkerSets, PoolSize DEF CountInv
  <2>3. stoppedCv' => stoppedCv /\ currActive' # 0
    <3>1. stoppedCv' => stoppedCv /\ currActive # 1
      BY <1>5, Zenon DEF WorkerLeave
    <3>2. currActive' = currActive - 1
      BY <1>5 DEF WorkerLeave
    <3>3. QED
      BY <3>1, <3>2, Numbers
  <2>4. QED
    BY <1>2, <1>5, <2>1, <2>2, <2>3 DEF WorkerLeave
<1>6. QED
  BY <1>1, <1>3, <1>4, <1>5 DEF WorkerStep

\* AddTask adds one task and, when workers sleep for want of one, notifies one.
LEMMA AddWakes ==
    ASSUME IInv, WakeInv, NEW t \in Tasks, AddTask(t)
    PROVE  WakeInv'
<1>0. /\ UNCHANGED <<running, exit, maxActive, currActive, currWaiting, pc,
                     sleepCv, gpc, doneCv, stoppedCv>>
      /\ NotifyOne
  BY DEF AddTask, flagVars, workerVars
<1> USE DEF WakeInv, NoLostWakeup
<1>1. FinishWoken' /\ StoppedWoken'
  BY <1>0 DEF FinishWoken, StoppedWoken
<1>2. SleeperWoken' /\ LeaveInv'
  BY <1>0 DEF SleeperWoken, LeaveInv
<1>3. Waiting' = Waiting
  BY <1>0 DEF Waiting
<1>4. TaskWoken'
  <2>1. CASE emptyCv = {}
    BY <1>0, <2>1 DEF NotifyOne, TaskWoken
  <2>2. CASE emptyCv # {}
    <3>1. /\ running /\ ~exit /\ emptyCv \subseteq Waiting
          /\ Cardinality(Queue) <= Cardinality(Notified)
      BY <2>2 DEF TaskWoken, Notified
    <3>2. currWaiting > 0
      <4>1. Waiting # {}
        BY <2>2, <3>1
      <4>2. Cardinality(Waiting) # 0
        BY <4>1, Numbers, FS_EmptySet
      <4>3. QED
        BY <4>2, Numbers
    <3>3. PICK w \in emptyCv : emptyCv' = emptyCv \ {w}
      BY <1>0, <2>2, <3>1, <3>2 DEF NotifyOne
    <3>4. Queue' = Queue \cup {t} /\ t \notin Queue
      BY DEF AddTask, Queue, IInv, TypeOK
    <3>5. Cardinality(Queue') = Cardinality(Queue) + 1
      BY <3>4, Numbers, FS_AddElement, Zenon
    <3>6. Waiting' \ emptyCv' = Notified \cup {w} /\ w \notin Notified
      BY <1>3, <3>1, <3>3 DEF Notified
    <3>7. Cardinality(Notified \cup {w}) = Cardinality(Notified) + 1
      BY <3>6, Numbers, FS_AddElement, Zenon
    <3>8. Cardinality(Queue') <= Cardinality(Waiting' \ emptyCv')
      BY <3>1, <3>5, <3>6, <3>7, Numbers
    <3>9. QED
      BY <1>0, <1>3, <3>1, <3>3, <3>8 DEF TaskWoken
  <2>3. QED
    BY <2>1, <2>2
<1>5. QED
  BY <1>1, <1>2, <1>4

\* No step of the GC thread or of Exit loses a wake-up.
LEMMA GcWakes ==
    ASSUME IInv, WakeInv, GcStep \/ GcChoice \/ Exit \/ Delete
    PROVE  WakeInv'
<1>0. /\ doneCv => gpc = "finish_wait" /\ running
      /\ stoppedCv => gpc \in {"new_wait", "stop_wait"}
      /\ emptyCv # {} => running
      /\ gpc = "ready" => ~running
      /\ status \in [Tasks -> {"new", "queued", "running", "done"}]
  BY DEF WakeInv, NoLostWakeup, FinishWoken, StoppedWoken, TaskWoken, IInv,
         QuietInv, StoppedPCs, TypeOK
<1>1. CASE GcTake
  <2>1. Queue' \subseteq Queue
    BY <1>0, <1>1 DEF GcTake, Queue
  <2>2. QED
    BY <1>0, <1>1, <2>1, WakeFrame DEF GcTake, flagVars, workerVars
<1>2. CASE GcExecuted
  <2>1. Queue' \subseteq Queue
    BY <1>0, <1>2 DEF GcExecuted, Queue
  <2>2. QED
    BY <1>0, <1>2, <2>1, WakeFrame DEF GcExecuted, flagVars, workerVars
<1>3. CASE GcTakeNone
  <2>1. Queue' \subseteq Queue
    BY <1>3 DEF GcTakeNone, Queue
  <2>2. QED
    BY <1>0, <1>3, <2>1, WakeFrame DEF GcTakeNone, flagVars, workerVars
<1>4. CASE GcDrained
  <2>1. Queue' \subseteq Queue
    BY <1>4 DEF GcDrained, Queue
  <2>2. QED
    BY <1>0, <1>4, <2>1, WakeFrame DEF GcDrained, flagVars, workerVars
<1>5. ASSUME NEW n \in 1 .. maxThreadNum, SetMaxActiveThreadNum(n) PROVE WakeInv'
  <2>1. Queue' \subseteq Queue
    BY <1>5 DEF SetMaxActiveThreadNum, Queue
  <2>2. QED
    BY <1>0, <1>5, <2>1, WakeFrame DEF SetMaxActiveThreadNum, workerVars
<1>6. ASSUME NEW b \in BOOLEAN, WaitFinish(b) PROVE WakeInv'
  <2>1. Queue' \subseteq Queue
    BY <1>6 DEF WaitFinish, Queue
  <2>2. QED
    BY <1>0, <1>6, <2>1, WakeFrame DEF WaitFinish, flagVars, workerVars
<1>7. CASE DrainTaskQueue
  <2>1. Queue' \subseteq Queue
    BY <1>7 DEF DrainTaskQueue, Queue
  <2>2. QED
    BY <1>0, <1>7, <2>1, WakeFrame DEF DrainTaskQueue, flagVars, workerVars
<1>8. CASE NextRound
  <2>1. Queue' \subseteq Queue
    BY <1>8 DEF NextRound, Queue
  <2>2. QED
    BY <1>0, <1>8, <2>1, WakeFrame DEF NextRound, flagVars, workerVars
<1>9. CASE Delete
  <2>1. Queue' \subseteq Queue
    BY <1>9 DEF Delete, Queue
  <2>2. QED
    BY <1>0, <1>9, <2>1, WakeFrame DEF Delete, flagVars, workerVars
<1> USE DEF WakeInv, NoLostWakeup
<1>10. CASE GcFinishWait
  <2>1. UNCHANGED <<running, exit, maxActive, currActive, currWaiting, status, pc,
                    sleepCv, emptyCv, stoppedCv>>
    BY <1>10 DEF GcFinishWait, flagVars, workerVars
  <2>2. FinishWoken'
    BY <1>10, <2>1 DEF GcFinishWait, GcGoto, FinishWoken
  <2>3. StoppedWoken'
    BY <1>0, <1>10, <2>1 DEF GcFinishWait, StoppedWoken
  <2>4. TaskWoken' /\ SleeperWoken' /\ LeaveInv'
    BY <2>1 DEF TaskWoken, SleeperWoken, LeaveInv, Queue, Waiting
  <2>5. QED
    BY <2>2, <2>3, <2>4
<1>11. CASE Stop
  <2>1. /\ running' = FALSE /\ emptyCv' = {} /\ ~doneCv
        /\ UNCHANGED <<exit, maxActive, currActive, pc, sleepCv, doneCv>>
    BY <1>0, <1>11 DEF Stop, workerVars
  <2>2. FinishWoken' /\ TaskWoken' /\ SleeperWoken' /\ LeaveInv'
    BY <2>1 DEF FinishWoken, TaskWoken, SleeperWoken, LeaveInv
  <2>3. StoppedWoken'
    BY <1>11, <2>1 DEF Stop, AwaitStopped, GcGoto, StoppedWoken
  <2>4. QED
    BY <2>2, <2>3
<1>12. CASE StopWoken
  <2>1. /\ UNCHANGED <<running, exit, maxActive, currActive, currWaiting, status,
                       pc, sleepCv, emptyCv, doneCv>>
        /\ ~doneCv
    BY <1>0, <1>12 DEF StopWoken, flagVars, workerVars
  <2>2. FinishWoken' /\ TaskWoken' /\ SleeperWoken' /\ LeaveInv'
    BY <2>1 DEF FinishWoken, TaskWoken, SleeperWoken, LeaveInv, Queue, Waiting
  <2>3. StoppedWoken'
    BY <1>12, <2>1 DEF StopWoken, AwaitStopped, GcGoto, StoppedWoken
  <2>4. QED
    BY <2>2, <2>3
<1>13. CASE Start
  <2>1. /\ sleepCv' = {} /\ emptyCv' = {} /\ ~doneCv' /\ ~stoppedCv'
        /\ UNCHANGED <<exit, pc>>
    BY <1>0, <1>13 DEF Start, workerVars
  <2>2. QED
    BY <2>1 DEF FinishWoken, StoppedWoken, TaskWoken, SleeperWoken, LeaveInv
<1>14. CASE Exit
  <2>1. /\ sleepCv' = {} /\ emptyCv' = {} /\ ~doneCv' /\ ~stoppedCv'
        /\ exit'
    BY <1>14 DEF Exit
  <2>2. QED
    BY <2>1 DEF FinishWoken, StoppedWoken, TaskWoken, SleeperWoken, LeaveInv
<1>15. QED
  BY <1>1, <1>2, <1>3, <1>4, <1>5, <1>6, <1>7, <1>8, <1>9, <1>10, <1>11,
     <1>12, <1>13, <1>14
  DEF GcStep, GcChoice

\* WakeInv holds in every reachable state.
LEMMA WakeInvariant == Spec => []WakeInv
<1>1. Init => WakeInv
  BY DEF Init, WakeInv, NoLostWakeup, FinishWoken, StoppedWoken, TaskWoken,
         SleeperWoken, LeaveInv
<1>2. IInv /\ WakeInv /\ [Next]_vars => WakeInv'
  <2> SUFFICES ASSUME IInv, WakeInv, [Next]_vars PROVE WakeInv'
    OBVIOUS
  <2>1. CASE UNCHANGED vars
    <3>1. Queue' \subseteq Queue
      BY <2>1 DEF vars, Queue
    <3>2. QED
      BY <2>1, <3>1, WakeFrame DEF vars, flagVars, workerVars
  <2>2. CASE \E w \in Workers : WorkerStep(w)
    BY <2>2, WorkerWakes
  <2>3. CASE \E t \in Tasks : ForkTask(t) \/ SubmitTask(t)
    BY <2>3, AddWakes DEF ForkTask, SubmitTask
  <2>4. CASE GcStep \/ GcChoice \/ Exit \/ Delete
    BY <2>4, GcWakes
  <2>5. QED
    BY <2>1, <2>2, <2>3, <2>4 DEF Next
<1>3. QED
  BY <1>1, <1>2, InductiveInvariant, PTL DEF Spec

\* No thread of the pool sleeps on a condition variable after what it waits
\* for has come about: a task, maxActiveThreadNum workers waiting, Stop() with
\* no worker active, Start, Stop and Exit all wake those they concern.
THEOREM WakeupsArrive == Spec => []NoLostWakeup
<1>1. WakeInv => NoLostWakeup
  BY DEF WakeInv
<1>2. QED
  BY <1>1, WakeInvariant, PTL

\* currActiveThreadNum and currWaittingThreadNum are exact, and no more than
\* maxActiveThreadNum workers execute tasks; no wake-up is lost.
THEOREM CountsCorrect == Spec => []CountsExact
<1>1. IInv /\ NoLostWakeup => CountsExact
  <2> SUFFICES ASSUME IInv, NoLostWakeup PROVE CountsExact
    OBVIOUS
  <2> DEFINE Executing == {w \in Workers : pc[w] = "exec"}
  <2>1. Executing \subseteq Busy
    BY DEF Busy
  <2>2. /\ IsFiniteSet(Busy) /\ Cardinality(Busy) \in Nat
        /\ Cardinality(Executing) \in Nat /\ maxActive \in Nat
    BY WorkerSets, PoolSize DEF Busy, IInv, TypeOK
  <2>3. Cardinality(Executing) <= Cardinality(Busy)
    BY <2>1, <2>2, FS_Subset
  <2>4. WithinMaxActive
    BY <2>2, <2>3 DEF WithinMaxActive, IInv, LimitInv
  <2>5. QED
    BY <2>4 DEF IInv, CountInv, CountsExact
<1>2. QED
  BY <1>1, InductiveInvariant, WakeupsArrive, PTL

\* WaitFinish returns with everything it was called for executed, and leaves no
\* worker at work.
THEOREM WorkIsDone == Spec => []AllWorkDone
<1>1. IInv => AllWorkDone
  BY DEF IInv, OwedInv, QuietInv, StoppedPCs, Busy, AllWorkDone, StoppedIsQuiet
<1>2. QED
  BY <1>1, InductiveInvariant, PTL

=============================================================================
