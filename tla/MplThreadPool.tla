--------------------------- MODULE MplThreadPool ---------------------------
(***************************************************************************)
(* The GC's worker pool (mpl_thread_pool.cpp).                             *)
(*                                                                         *)
(* Three parties share it: the workers (WorkerFunc), the GC thread, which  *)
(* drives the pool through (SetMaxActiveThreadNum AddTask Start            *)
(* WaitFinish)^., and threads that add tasks at any time (mutators that    *)
(* scan their stack).  The runtime's main thread may call Exit at any      *)
(* time; the GC thread then ends and the pool is deleted.                  *)
(*                                                                         *)
(* All counters are guarded by taskMutex: one action is one critical       *)
(* section, from the acquisition of the mutex (or the return from a wait)  *)
(* to its release (or the next wait).  A wait on a condition variable has  *)
(* two steps, so that a notified thread does not run at once.  The order   *)
(* of the task queue is left open.                                         *)
(***************************************************************************)
EXTENDS Integers, FiniteSets

CONSTANTS
    Workers,
    Tasks,
    NoTask

ASSUME WorkersAssumption == IsFiniteSet(Workers) /\ Workers # {}
ASSUME TasksAssumption == IsFiniteSet(Tasks) /\ NoTask \notin Tasks

VARIABLES
    running, exit,
    maxActive,      \* maxActiveThreadNum
    currActive,     \* currActiveThreadNum
    currWaiting,    \* currWaittingThreadNum
    status,         \* of each task: new, queued, running or done
    pc,             \* control point of each worker
    task,           \* the task each worker executes
    sleepCv,        \* workers asleep on threadSleepingCondVar
    emptyCv,        \* workers asleep on taskEmptyCondVar
    gpc,            \* control point of the GC thread
    gtask,          \* the task the GC thread executes
    doneCv,         \* the GC thread is asleep on allWorkDoneCondVar
    stoppedCv,      \* the GC thread is asleep on allThreadStopped
    owed            \* history: the tasks WaitFinish has to see through

workerVars == <<pc, task>>
flagVars == <<running, exit, maxActive>>
vars == <<flagVars, currActive, currWaiting, status, workerVars, sleepCv,
          emptyCv, gpc, gtask, doneCv, stoppedCv, owed>>

maxThreadNum == Cardinality(Workers)

\* Inside the constructor, nobody else knows the pool yet.
Constructing == gpc \in {"new", "new_wait"}

Queue == {t \in Tasks : status[t] = "queued"}

\* In the constructor: the threads are created, Stop() is to come.
Init ==
    /\ running = FALSE /\ exit = FALSE
    /\ maxActive = maxThreadNum
    /\ currActive = maxThreadNum
    /\ currWaiting = 0
    /\ status = [t \in Tasks |-> "new"]
    /\ pc = [w \in Workers |-> "top"]
    /\ task = [w \in Workers |-> NoTask]
    /\ sleepCv = {} /\ emptyCv = {}
    /\ gpc = "new"
    /\ gtask = NoTask
    /\ doneCv = FALSE /\ stoppedCv = FALSE
    /\ owed = {}

-----------------------------------------------------------------------------
(* WorkerFunc.                                                             *)

Goto(w, p) == pc' = [pc EXCEPT ![w] = p]

\* while (!pool->IsExited()), read without the mutex.
WorkerTop(w) ==
    /\ pc[w] = "top"
    /\ Goto(w, IF exit THEN "leave" ELSE "lock")
    /\ UNCHANGED <<flagVars, currActive, currWaiting, status, task, sleepCv,
                   emptyCv, gpc, gtask, doneCv, stoppedCv, owed>>

\* "hang up when pool stopped or to many active thread"
MustSleep(active) == (active > maxActive \/ ~running) /\ ~exit

Sleep(w, active) ==
    /\ MustSleep(active)
    /\ currActive' = active - 1
    /\ stoppedCv' = (stoppedCv /\ active # 1)
    /\ sleepCv' = sleepCv \cup {w}
    /\ Goto(w, "sleep")
    /\ UNCHANGED <<currWaiting, status, task, emptyCv, doneCv>>

\* Mutant: WaitFinish is notified one worker early.
MutantAwaitTask(w, active, waiting) ==
    /\ Queue = {} /\ running /\ ~exit
    /\ currActive' = active
    /\ currWaiting' = waiting + 1
    /\ doneCv' = (doneCv /\ waiting + 2 # maxActive)
    /\ emptyCv' = emptyCv \cup {w}
    /\ Goto(w, "wait")
    /\ UNCHANGED <<status, task, sleepCv, stoppedCv>>

\* "if no task available thread hung up in taskEmptyCondVar"
AwaitTask(w, active, waiting) ==
    /\ Queue = {} /\ running /\ ~exit
    /\ currActive' = active
    /\ currWaiting' = waiting + 1
    /\ doneCv' = (doneCv /\ waiting + 1 # maxActive)
    /\ emptyCv' = emptyCv \cup {w}
    /\ Goto(w, "wait")
    /\ UNCHANGED <<status, task, sleepCv, stoppedCv>>

TakeTask(w, active, waiting) ==
    /\ running /\ ~exit
    /\ currActive' = active
    /\ currWaiting' = waiting
    /\ \E t \in Queue :
          /\ status' = [status EXCEPT ![t] = "running"]
          /\ task' = [task EXCEPT ![w] = t]
    /\ Goto(w, "exec")
    /\ UNCHANGED <<sleepCv, emptyCv, doneCv, stoppedCv>>

\* The pool was stopped or exited while the worker waited for a task.
TakeNone(w, active, waiting) ==
    /\ ~running \/ exit
    /\ currActive' = active
    /\ currWaiting' = waiting
    /\ Goto(w, "top")
    /\ UNCHANGED <<status, task, sleepCv, emptyCv, doneCv, stoppedCv>>

\* From the second loop of the critical section to its end.
Proceed(w, active, waiting) ==
    \/ AwaitTask(w, active, waiting)
    \/ TakeTask(w, active, waiting)
    \/ TakeNone(w, active, waiting)

WorkerLock(w) ==
    /\ pc[w] = "lock"
    /\ \/ Sleep(w, currActive)
       \/ ~MustSleep(currActive) /\ Proceed(w, currActive, currWaiting)
    /\ UNCHANGED <<flagVars, gpc, gtask, owed>>

WorkerSleepWoken(w) ==
    /\ pc[w] = "sleep" /\ w \notin sleepCv
    /\ \/ Sleep(w, currActive + 1)
       \/ ~MustSleep(currActive + 1) /\ Proceed(w, currActive + 1, currWaiting)
    /\ UNCHANGED <<flagVars, gpc, gtask, owed>>

\* Mutant: a worker that gets a task still counts as waiting.
MutantWorkerWaitWoken(w) ==
    /\ pc[w] = "wait" /\ w \notin emptyCv
    /\ \/ AwaitTask(w, currActive, currWaiting - 1)
       \/ TakeTask(w, currActive, currWaiting)
       \/ TakeNone(w, currActive, currWaiting - 1)
    /\ UNCHANGED <<flagVars, gpc, gtask, owed>>

WorkerWaitWoken(w) ==
    /\ pc[w] = "wait" /\ w \notin emptyCv
    /\ Proceed(w, currActive, currWaiting - 1)
    /\ UNCHANGED <<flagVars, gpc, gtask, owed>>

\* task->Execute and delete task, then back to the top of the loop.
WorkerExecuted(w) ==
    /\ pc[w] = "exec"
    /\ status' = [status EXCEPT ![task[w]] = "done"]
    /\ task' = [task EXCEPT ![w] = NoTask]
    /\ Goto(w, "top")
    /\ UNCHANGED <<flagVars, currActive, currWaiting, sleepCv, emptyCv, gpc,
                   gtask, doneCv, stoppedCv, owed>>

WorkerLeave(w) ==
    /\ pc[w] = "leave"
    /\ currActive' = currActive - 1
    /\ stoppedCv' = (stoppedCv /\ currActive # 1)
    /\ Goto(w, "gone")
    /\ UNCHANGED <<flagVars, currWaiting, status, task, sleepCv, emptyCv, gpc,
                   gtask, doneCv, owed>>

-----------------------------------------------------------------------------
(* AddTask, by any thread.                                                 *)

NotifyOne ==
    IF running /\ currWaiting > 0 /\ emptyCv # {}
    THEN \E w \in emptyCv : emptyCv' = emptyCv \ {w}
    ELSE UNCHANGED emptyCv

AddTask(t) ==
    /\ ~Constructing /\ status[t] = "new"
    /\ status' = [status EXCEPT ![t] = "queued"]
    /\ NotifyOne
    /\ UNCHANGED <<flagVars, currActive, currWaiting, workerVars, sleepCv, gpc,
                   gtask, doneCv, stoppedCv>>

\* A task that is executed forks a new one (TryForkTask).
ForkTask(t) ==
    /\ \E s \in Tasks : /\ status[s] = "running"
                        /\ owed' = IF s \in owed THEN owed \cup {t} ELSE owed
    /\ AddTask(t)

\* The GC thread before WaitFinish, and mutators at any time.
SubmitTask(t) ==
    /\ owed' = owed
    /\ AddTask(t)

-----------------------------------------------------------------------------
(* The GC thread, and the main thread that creates and ends the pool.      *)

GcGoto(p) == gpc' = p

\* Range [1 - maxThreadNum]; the manual asks for a stopped pool.
SetMaxActiveThreadNum(n) ==
    /\ gpc = "ready"
    /\ maxActive' = n
    /\ UNCHANGED <<running, exit, currActive, currWaiting, status, workerVars,
                   sleepCv, emptyCv, gpc, gtask, doneCv, stoppedCv, owed>>

Start ==
    /\ gpc = "ready"
    /\ running' = TRUE
    /\ sleepCv' = {}
    /\ GcGoto("started")
    /\ UNCHANGED <<exit, maxActive, currActive, currWaiting, status,
                   workerVars, emptyCv, gtask, doneCv, stoppedCv, owed>>

\* WaitFinish(addToExecute): the caller takes part first, or only waits.
WaitFinish(addToExecute) ==
    /\ gpc = "started"
    /\ GcGoto(IF addToExecute THEN "take" ELSE "finish")
    /\ owed' = {t \in Tasks : status[t] \in {"queued", "running"}}
    /\ UNCHANGED <<flagVars, currActive, currWaiting, status, workerVars,
                   sleepCv, emptyCv, gtask, doneCv, stoppedCv>>

\* Takes a task in WaitFinish while the pool runs, in DrainTaskQueue always.
GcTake ==
    /\ gpc \in {"take", "drain"}
    /\ gpc = "take" => running /\ ~exit
    /\ \E t \in Queue :
          /\ status' = [status EXCEPT ![t] = "running"]
          /\ gtask' = t
    /\ GcGoto(IF gpc = "take" THEN "take_exec" ELSE "drain_exec")
    /\ UNCHANGED <<flagVars, currActive, currWaiting, workerVars, sleepCv,
                   emptyCv, doneCv, stoppedCv, owed>>

GcExecuted ==
    /\ gpc \in {"take_exec", "drain_exec"}
    /\ status' = [status EXCEPT ![gtask] = "done"]
    /\ gtask' = NoTask
    /\ GcGoto(IF gpc = "take_exec" THEN "take" ELSE "drain")
    /\ UNCHANGED <<flagVars, currActive, currWaiting, workerVars, sleepCv,
                   emptyCv, doneCv, stoppedCv, owed>>

GcTakeNone ==
    /\ gpc = "take"
    /\ Queue = {} \/ ~running \/ exit
    /\ GcGoto("finish")
    /\ UNCHANGED <<flagVars, currActive, currWaiting, status, workerVars,
                   sleepCv, emptyCv, gtask, doneCv, stoppedCv, owed>>

\* "wait all task excute finish"
GcFinishWait ==
    /\ gpc \in {"finish", "finish_wait"} /\ ~doneCv
    /\ IF currWaiting # maxActive /\ running /\ ~exit
       THEN doneCv' = TRUE /\ GcGoto("finish_wait")
       ELSE doneCv' = FALSE /\ GcGoto("stop")
    /\ UNCHANGED <<flagVars, currActive, currWaiting, status, workerVars,
                   sleepCv, emptyCv, gtask, stoppedCv, owed>>

\* while (currActiveThreadNum != 0) allThreadStopped.wait
AwaitStopped ==
    /\ stoppedCv' = (currActive # 0)
    /\ \/ /\ currActive # 0
          /\ GcGoto(IF Constructing THEN "new_wait" ELSE "stop_wait")
       \/ /\ currActive = 0
          /\ GcGoto(IF Constructing THEN "ready" ELSE "drain")

\* Stop(), called by the constructor and at the end of WaitFinish.
Stop ==
    /\ gpc \in {"new", "stop"}
    /\ running' = FALSE
    /\ emptyCv' = {}
    /\ AwaitStopped
    /\ UNCHANGED <<exit, maxActive, currActive, currWaiting, status, workerVars,
                   sleepCv, gtask, doneCv, owed>>

StopWoken ==
    /\ gpc \in {"new_wait", "stop_wait"} /\ ~stoppedCv
    /\ AwaitStopped
    /\ UNCHANGED <<flagVars, currActive, currWaiting, status, workerVars,
                   sleepCv, emptyCv, gtask, doneCv, owed>>

\* Mutant: WaitFinish ends with Stop().
MutantGcDrained ==
    /\ gpc = "drain"
    /\ GcGoto("ready")
    /\ UNCHANGED <<flagVars, currActive, currWaiting, status, workerVars,
                   sleepCv, emptyCv, gtask, doneCv, stoppedCv, owed>>

\* DrainTaskQueue finds the queue empty: WaitFinish returns.
GcDrained ==
    /\ gpc = "drain" /\ Queue = {}
    /\ GcGoto("ready")
    /\ UNCHANGED <<flagVars, currActive, currWaiting, status, workerVars,
                   sleepCv, emptyCv, gtask, doneCv, stoppedCv, owed>>

\* Serial marking: DrainTaskQueue on the stopped pool, without Start.
DrainTaskQueue ==
    /\ gpc = "ready"
    /\ GcGoto("drain")
    /\ owed' = Queue
    /\ UNCHANGED <<flagVars, currActive, currWaiting, status, workerVars,
                   sleepCv, emptyCv, gtask, doneCv, stoppedCv>>

\* The next use of the pool: finished tasks are gone, their names are free.
NextRound ==
    /\ gpc = "ready"
    /\ \E t \in Tasks : status[t] = "done"
    /\ status' = [t \in Tasks |-> IF status[t] = "done" THEN "new" ELSE status[t]]
    /\ owed' = {}
    /\ UNCHANGED <<flagVars, currActive, currWaiting, workerVars, sleepCv,
                   emptyCv, gpc, gtask, doneCv, stoppedCv>>

\* StopThread: Exit(), at any moment after the construction.
Exit ==
    /\ ~exit /\ ~Constructing
    /\ exit' = TRUE
    /\ emptyCv' = {} /\ sleepCv' = {}
    /\ doneCv' = FALSE /\ stoppedCv' = FALSE
    /\ UNCHANGED <<running, maxActive, currActive, currWaiting, status,
                   workerVars, gpc, gtask, owed>>

\* JoinThread: the GC thread has ended and the pool is deleted: the workers are
\* joined, what is left in the queue is cleared.
Delete ==
    /\ exit /\ gpc = "ready" /\ \A w \in Workers : pc[w] = "gone"
    /\ GcGoto("deleted")
    /\ status' = [t \in Tasks |-> "done"]
    /\ owed' = {}
    /\ UNCHANGED <<flagVars, currActive, currWaiting, workerVars, sleepCv,
                   emptyCv, gtask, doneCv, stoppedCv>>

-----------------------------------------------------------------------------
WorkerStep(w) ==
    \/ WorkerTop(w) \/ WorkerLock(w) \/ WorkerSleepWoken(w)
    \/ WorkerWaitWoken(w) \/ WorkerExecuted(w) \/ WorkerLeave(w)

\* What the GC thread does inside WaitFinish.
GcStep ==
    \/ GcTake \/ GcExecuted \/ GcTakeNone \/ GcFinishWait
    \/ Stop \/ StopWoken \/ GcDrained

\* What it decides to do next.
GcChoice ==
    \/ \E n \in 1 .. maxThreadNum : SetMaxActiveThreadNum(n)
    \/ Start
    \/ \E b \in BOOLEAN : WaitFinish(b)
    \/ DrainTaskQueue
    \/ NextRound

Next ==
    \/ \E w \in Workers : WorkerStep(w)
    \/ \E t \in Tasks : ForkTask(t) \/ SubmitTask(t)
    \/ GcStep
    \/ GcChoice
    \/ Exit
    \/ Delete

Spec == Init /\ [][Next]_vars

\* Every thread is scheduled, and a task comes to its end.
FairSpec ==
    /\ Spec
    /\ \A w \in Workers : WF_vars(WorkerStep(w))
    /\ WF_vars(GcStep)

-----------------------------------------------------------------------------
(* Properties.                                                             *)

TypeOK ==
    /\ running \in BOOLEAN /\ exit \in BOOLEAN
    /\ maxActive \in 1 .. maxThreadNum
    /\ currActive \in 0 .. maxThreadNum
    /\ currWaiting \in 0 .. maxThreadNum
    /\ status \in [Tasks -> {"new", "queued", "running", "done"}]
    /\ pc \in [Workers -> {"top", "lock", "sleep", "wait", "exec", "leave",
                           "gone"}]
    /\ task \in [Workers -> Tasks \cup {NoTask}]
    /\ sleepCv \in SUBSET Workers
    /\ emptyCv \in SUBSET Workers
    /\ gpc \in {"new", "new_wait", "ready", "started", "take", "take_exec", "finish",
                "finish_wait", "stop", "stop_wait", "drain",
                "drain_exec", "deleted"}
    /\ gtask \in Tasks \cup {NoTask}
    /\ doneCv \in BOOLEAN /\ stoppedCv \in BOOLEAN
    /\ owed \in SUBSET Tasks

\* The workers currActiveThreadNum and currWaittingThreadNum stand for.
Active == {w \in Workers : pc[w] \notin {"sleep", "gone"}}
Waiting == {w \in Workers : pc[w] = "wait"}

\* SetMaxActiveThreadNum is respected: no more workers execute tasks.
WithinMaxActive ==
    Cardinality({w \in Workers : pc[w] = "exec"}) <= maxActive

\* The GC thread sleeps in WaitFinish only while a worker has still to wait.
FinishWoken ==
    doneCv => gpc = "finish_wait" /\ currWaiting # maxActive /\ running /\ ~exit

\* It sleeps in Stop() only while a worker is active.
StoppedWoken ==
    stoppedCv => gpc \in {"new_wait", "stop_wait"} /\ currActive # 0

\* Workers sleep for want of a task only while the pool runs, and for every
\* task in the queue there is one that has been notified and not slept again.
TaskWoken ==
    emptyCv # {} =>
        /\ running /\ ~exit /\ emptyCv \subseteq Waiting
        /\ Cardinality(Queue) <= Cardinality(Waiting \ emptyCv)

\* A running pool lets workers sleep only while it has maxActiveThreadNum
\* others.
SleeperWoken ==
    /\ \A w \in sleepCv : pc[w] = "sleep"
    /\ sleepCv # {} => ~exit /\ (running => currActive >= maxActive)

\* No thread sleeps on a condition variable of the pool when what it waits for
\* has come about: AddTask's single notify_one, the notifications of the last
\* worker and those of Start, Stop and Exit are all that is needed.
NoLostWakeup == FinishWoken /\ StoppedWoken /\ TaskWoken /\ SleeperWoken

\* The two counters the pool decides by count exactly the workers that are
\* not asleep and those that wait for a task, through every wake-up, stop and
\* exit, and keep the number of workers at work within maxActiveThreadNum.
\* (Checked together with the types and with NoLostWakeup.)
CountsExact ==
    /\ TypeOK
    /\ currActive = Cardinality(Active)
    /\ currWaiting = Cardinality(Waiting)
    /\ WithinMaxActive
    /\ NoLostWakeup

\* "let all thread sleeing for next start": between Stop() and the next Start
\* no worker executes a task or waits for one, so no start signal is missed.
StoppedIsQuiet ==
    gpc \in {"ready", "drain", "drain_exec", "deleted"} =>
        \A w \in Workers : pc[w] \notin {"exec", "wait"}

\* WaitFinish returns only when every task that was in the queue or executed
\* when it was called, and every task those forked, has been executed, and no
\* worker is left at work: no marking is left to a worker that has not been
\* notified yet.
AllWorkDone ==
    /\ gpc = "ready" => \A t \in owed : status[t] = "done"
    /\ StoppedIsQuiet

\* WaitFinish returns, whatever is added, forked or exited meanwhile, and
\* after Exit every worker thread ends, so that the destructor can join it.
NoThreadLeftWaiting ==
    /\ gpc \in {"take", "finish"} ~> gpc = "ready"
    /\ exit ~> \A w \in Workers : pc[w] = "gone"

=============================================================================
