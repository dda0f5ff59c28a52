------------------------ MODULE ConcurrentStackScan ------------------------
(***************************************************************************)
(* Scanning mutator stacks concurrently (collector.h Mutator::scanState,   *)
(* collector_tracing.cpp FastScanRoots, collector_ms.cpp ConcurrentMark).  *)
(*                                                                         *)
(* In the first pause of a concurrent collection every listed mutator is   *)
(* put into a snapshot set and marked kNeedScan.  Afterwards either the GC *)
(* thread scans the stack of a mutator that is still in the saferegion, or *)
(* the mutator scans its own stack before it leaves the saferegion.  The   *)
(* GC thread waits on a condition variable until every stack is scanned.   *)
(*                                                                         *)
(* The two pauses rely on what WorldControl promises and StopTheWorld      *)
(* implements: they happen when no listed mutator is outside the           *)
(* saferegion and no mutator holds the list lock.                          *)
(***************************************************************************)
EXTENDS Integers, FiniteSets

CONSTANTS
    Mutators,
    NoOne

ASSUME MutatorsAssumption == IsFiniteSet(Mutators) /\ NoOne \notin Mutators

VARIABLES
    mpc,        \* control point of each mutator
    after,      \* where the mutator goes when the barrier lets it through
    list,       \* MutatorList
    scanState,  \* Mutator::scanState
    scanWait,   \* mutators asleep in FUTEX_WAIT on their scanState
    snapshot,   \* snapshotMutators
    num,        \* numMutatorToBeScan
    tasks,      \* mutators whose stack roots are in the task queue
    traced,     \* mutators whose stack roots have been marked through
    gpc,        \* control point of the GC thread
    cur,        \* the mutator the GC thread is scanning
    cvWait,     \* the GC thread sleeps on concurrentPhaseBarrier
    round,      \* ConcurrentReMark's loop counter
    target      \* history: the mutators of this collection's snapshot

mutVars == <<mpc, after, list>>
gcVars == <<gpc, cur, cvWait, round, target>>
markVars == <<tasks, traced>>
vars == <<mutVars, scanState, scanWait, snapshot, num, markVars, gcVars>>

kNeedScan == "need"
kInScan == "in"
kFinishScan == "finish"

kReMarkRounds == 2

\* Inside StackScanBarrier: no longer in the saferegion.
BarrierPCs == {"bar_try", "bar_wait", "bar_scan", "bar_sub", "bar_notify",
               "bar_finish", "bar_erase"}
MutatorPCs == {"out", "native", "managed", "delete"} \cup BarrierPCs

\* FiniYieldpoint runs the barrier holding the lock of the mutator list.
ListLocked == \E m \in Mutators : mpc[m] \in BarrierPCs /\ after[m] = "delete"

\* What StopTheWorld waits for.
CanStop ==
    /\ ~ListLocked
    /\ \A m \in list : mpc[m] = "native"

\* ConcurrentMark holds snapshotMutex from evaluating the predicate until it
\* is asleep on the condition variable.
SnapshotMutexHeld == gpc = "cv_sleep"

Init ==
    /\ mpc = [m \in Mutators |-> "out"]
    /\ after = [m \in Mutators |-> "managed"]
    /\ list = {}
    /\ scanState = [m \in Mutators |-> kFinishScan]
    /\ scanWait = {}
    /\ snapshot = {}
    /\ num = 0
    /\ tasks = {}
    /\ traced = {}
    /\ gpc = "idle"
    /\ cur = NoOne
    /\ cvWait = FALSE
    /\ round = 0
    /\ target = {}

Goto(m, p) == mpc' = [mpc EXCEPT ![m] = p]

-----------------------------------------------------------------------------
(* Mutators outside the barrier.                                           *)

\* MRT_GCInitThreadLocal: a new Mutator object, scanState kFinishScan.
Attach(m) ==
    /\ mpc[m] = "out" /\ ~ListLocked
    /\ Goto(m, "native")
    /\ list' = list \cup {m}
    /\ scanState' = [scanState EXCEPT ![m] = kFinishScan]
    /\ UNCHANGED <<after, scanWait, snapshot, num, markVars, gcVars>>

EnterSaferegion(m) ==
    /\ mpc[m] = "managed"
    /\ Goto(m, "native")
    /\ UNCHANGED <<after, list, scanState, scanWait, snapshot, num, markVars,
                   gcVars>>

LeaveSaferegion(m) ==
    /\ mpc[m] = "native"
    /\ Goto(m, "bar_try")
    /\ after' = [after EXCEPT ![m] = "managed"]
    /\ UNCHANGED <<list, scanState, scanWait, snapshot, num, markVars, gcVars>>

\* FiniYieldpoint: removed from the list, then out of the saferegion.
Detach(m) ==
    /\ mpc[m] = "native" /\ ~ListLocked
    /\ list' = list \ {m}
    /\ Goto(m, "bar_try")
    /\ after' = [after EXCEPT ![m] = "delete"]
    /\ UNCHANGED <<scanState, scanWait, snapshot, num, markVars, gcVars>>

\* The tail of MRT_GCFiniThreadLocal: the Mutator object is deleted.
Delete(m) ==
    /\ mpc[m] = "delete"
    /\ Goto(m, "out")
    /\ UNCHANGED <<after, list, scanState, scanWait, snapshot, num, markVars,
                   gcVars>>

-----------------------------------------------------------------------------
(* Mutator::StackScanBarrier and StackScanBarrierInMutator.                *)

\* Mutant: does not wait for a scan by the GC thread.
MutantBarrierTry(m) ==
    /\ mpc[m] = "bar_try"
    /\ IF scanState[m] = kNeedScan
       THEN scanState' = [scanState EXCEPT ![m] = kInScan] /\ Goto(m, "bar_scan")
       ELSE scanState' = scanState /\ Goto(m, after[m])
    /\ UNCHANGED <<after, list, scanWait, snapshot, num, markVars, gcVars>>

\* Mutant: a second scanner is let in.
MutantBarrierTryNoCas(m) ==
    /\ mpc[m] = "bar_try"
    /\ IF scanState[m] # kFinishScan
       THEN scanState' = [scanState EXCEPT ![m] = kInScan] /\ Goto(m, "bar_scan")
       ELSE scanState' = scanState /\ Goto(m, after[m])
    /\ UNCHANGED <<after, list, scanWait, snapshot, num, markVars, gcVars>>

\* TrySetScanState(true): done, sleep while the GC thread scans, or claim.
\* FUTEX_WAIT compares the word again, so load and sleep act as one step.
BarrierTry(m) ==
    /\ mpc[m] = "bar_try"
    /\ \/ /\ scanState[m] = kFinishScan
          /\ Goto(m, after[m])
          /\ UNCHANGED <<scanState, scanWait>>
       \/ /\ scanState[m] = kInScan
          /\ scanWait' = scanWait \cup {m}
          /\ Goto(m, "bar_wait")
          /\ UNCHANGED scanState
       \/ /\ scanState[m] = kNeedScan
          /\ scanState' = [scanState EXCEPT ![m] = kInScan]
          /\ Goto(m, "bar_scan")
          /\ UNCHANGED scanWait
    /\ UNCHANGED <<after, list, snapshot, num, markVars, gcVars>>

BarrierWoken(m) ==
    /\ mpc[m] = "bar_wait"
    /\ m \notin scanWait
    /\ Goto(m, "bar_try")
    /\ UNCHANGED <<after, list, scanState, scanWait, snapshot, num, markVars,
                   gcVars>>

\* Mutant: a task added while the thread pool is stopped is dropped.
MutantBarrierScan(m) ==
    /\ mpc[m] = "bar_scan"
    /\ tasks' = IF gpc \in {"check", "cv_wait"} THEN tasks ELSE tasks \cup {m}
    /\ Goto(m, "bar_sub")
    /\ UNCHANGED <<after, list, scanState, scanWait, snapshot, num, traced,
                   gcVars>>

\* ScanStackAndMark: the roots found become a mark task, also when the thread
\* pool is stopped.
BarrierScan(m) ==
    /\ mpc[m] = "bar_scan"
    /\ tasks' = tasks \cup {m}
    /\ Goto(m, "bar_sub")
    /\ UNCHANGED <<after, list, scanState, scanWait, snapshot, num, traced,
                   gcVars>>

BarrierSub(m) ==
    /\ mpc[m] = "bar_sub"
    /\ num' = num - 1
    /\ Goto(m, IF num = 1 THEN "bar_notify" ELSE "bar_finish")
    /\ UNCHANGED <<after, list, scanState, scanWait, snapshot, markVars, gcVars>>

\* concurrentPhaseBarrier.notify_all(), without snapshotMutex.
BarrierNotify(m) ==
    /\ mpc[m] = "bar_notify"
    /\ cvWait' = FALSE
    /\ Goto(m, "bar_finish")
    /\ UNCHANGED <<after, list, scanState, scanWait, snapshot, num, markVars,
                   gpc, cur, round, target>>

\* FinishStackScan(false).
BarrierFinish(m) ==
    /\ mpc[m] = "bar_finish"
    /\ scanState' = [scanState EXCEPT ![m] = kFinishScan]
    /\ Goto(m, "bar_erase")
    /\ UNCHANGED <<after, list, scanWait, snapshot, num, markVars, gcVars>>

\* Mutant: the mutator stays in the snapshot.
MutantBarrierErase(m) ==
    /\ mpc[m] = "bar_erase"
    /\ ~SnapshotMutexHeld
    /\ Goto(m, after[m])
    /\ UNCHANGED <<after, list, scanState, scanWait, snapshot, num, markVars,
                   gcVars>>

BarrierErase(m) ==
    /\ mpc[m] = "bar_erase"
    /\ ~SnapshotMutexHeld
    /\ snapshot' = snapshot \ {m}
    /\ Goto(m, after[m])
    /\ UNCHANGED <<after, list, scanState, scanWait, num, markVars, gcVars>>

-----------------------------------------------------------------------------
(* The GC thread.                                                          *)

\* The first pause: FastScanRoots.
FastScanRoots ==
    /\ gpc = "idle" /\ CanStop
    /\ num' = Cardinality(list)
    /\ scanState' = [m \in Mutators |->
                        IF m \in list THEN kNeedScan ELSE scanState[m]]
    /\ snapshot' = snapshot \cup list
    /\ target' = list
    /\ tasks' = {}
    /\ traced' = {}
    /\ gpc' = "pick"
    /\ UNCHANGED <<mutVars, scanWait, cur, cvWait, round>>

\* ConcurrentStackScan: take a mutator out of the snapshot and, holding
\* snapshotMutex, try to claim its stack (TrySetScanState(false)).
GcPick(m) ==
    /\ gpc = "pick" /\ m \in snapshot
    /\ snapshot' = snapshot \ {m}
    /\ IF scanState[m] = kNeedScan
       THEN /\ scanState' = [scanState EXCEPT ![m] = kInScan]
            /\ cur' = m
            /\ gpc' = "scan"
       ELSE UNCHANGED <<scanState, cur, gpc>>
    /\ UNCHANGED <<mutVars, scanWait, num, markVars, cvWait, round, target>>

GcPickDone ==
    /\ gpc = "pick" /\ snapshot = {}
    /\ gpc' = "drain"
    /\ UNCHANGED <<mutVars, scanState, scanWait, snapshot, num, markVars, cur,
                   cvWait, round, target>>

GcScan ==
    /\ gpc = "scan"
    /\ tasks' = tasks \cup {cur}
    /\ gpc' = "sub"
    /\ UNCHANGED <<mutVars, scanState, scanWait, snapshot, num, traced, cur,
                   cvWait, round, target>>

\* The notification the last decrement sends is to the GC thread itself.
GcSub ==
    /\ gpc = "sub"
    /\ num' = num - 1
    /\ gpc' = "finish"
    /\ UNCHANGED <<mutVars, scanState, scanWait, snapshot, markVars, cur,
                   cvWait, round, target>>

\* FinishStackScan(true): store, then FUTEX_WAKE.
GcFinish ==
    /\ gpc = "finish"
    /\ scanState' = [scanState EXCEPT ![cur] = kFinishScan]
    /\ gpc' = "wake"
    /\ UNCHANGED <<mutVars, scanWait, snapshot, num, markVars, cur, cvWait,
                   round, target>>

\* Mutant: FinishStackScan(false).
MutantGcWake ==
    /\ gpc = "wake"
    /\ cur' = NoOne
    /\ gpc' = "pick"
    /\ UNCHANGED <<mutVars, scanState, scanWait, snapshot, num, markVars, cvWait,
                   round, target>>

GcWake ==
    /\ gpc = "wake"
    /\ scanWait' = scanWait \ {cur}
    /\ cur' = NoOne
    /\ gpc' = "pick"
    /\ UNCHANGED <<mutVars, scanState, snapshot, num, markVars, cvWait, round,
                   target>>

\* The queued mark tasks are executed to the end (WaitFinish, DrainTaskQueue).
GcDrain ==
    /\ gpc = "drain"
    /\ traced' = traced \cup tasks
    /\ tasks' = {}
    /\ gpc' = "check"
    /\ UNCHANGED <<mutVars, scanState, scanWait, snapshot, num, cur, cvWait,
                   round, target>>

\* "wait if the mutator is scanning the stack": first without the mutex, ...
GcCheck ==
    /\ gpc = "check"
    /\ gpc' = IF num = 0 THEN "remark" ELSE "cv_pred"
    /\ UNCHANGED <<mutVars, scanState, scanWait, snapshot, num, markVars, cur,
                   cvWait, round, target>>

\* ... then the predicate with the mutex held, ...
GcCvPred ==
    /\ gpc = "cv_pred"
    /\ gpc' = IF num = 0 THEN "remark" ELSE "cv_sleep"
    /\ UNCHANGED <<mutVars, scanState, scanWait, snapshot, num, markVars, cur,
                   cvWait, round, target>>

\* ... then asleep, the mutex released.
GcCvSleep ==
    /\ gpc = "cv_sleep"
    /\ cvWait' = TRUE
    /\ gpc' = "cv_wait"
    /\ UNCHANGED <<mutVars, scanState, scanWait, snapshot, num, markVars, cur,
                   round, target>>

GcCvWoken ==
    /\ gpc = "cv_wait" /\ ~cvWait
    /\ gpc' = "cv_pred"
    /\ UNCHANGED <<mutVars, scanState, scanWait, snapshot, num, markVars, cur,
                   cvWait, round, target>>

\* ConcurrentReMark: at most two rounds while there are tasks (the SATB
\* entries it also looks for are modelled in SatbMark).
GcReMark ==
    /\ gpc = "remark"
    /\ IF tasks # {} /\ round < kReMarkRounds
       THEN round' = round + 1 /\ gpc' = "drain"
       ELSE round' = 0 /\ gpc' = "stw2"
    /\ UNCHANGED <<mutVars, scanState, scanWait, snapshot, num, markVars, cur,
                   cvWait, target>>

\* The second pause: the rest of the tasks is executed, marking is over.
ConcurrentMarkCleanup ==
    /\ gpc = "stw2" /\ CanStop
    /\ traced' = traced \cup tasks
    /\ tasks' = {}
    /\ gpc' = "sweep"
    /\ UNCHANGED <<mutVars, scanState, scanWait, snapshot, num, cur, cvWait,
                   round, target>>

GcSweep ==
    /\ gpc = "sweep"
    /\ gpc' = "idle"
    /\ target' = {}
    /\ UNCHANGED <<mutVars, scanState, scanWait, snapshot, num, markVars, cur,
                   cvWait, round>>

-----------------------------------------------------------------------------
BarrierStep(m) ==
    \/ BarrierTry(m) \/ BarrierWoken(m) \/ BarrierScan(m) \/ BarrierSub(m)
    \/ BarrierNotify(m) \/ BarrierFinish(m) \/ BarrierErase(m) \/ Delete(m)

MutatorStep(m) ==
    \/ Attach(m) \/ EnterSaferegion(m) \/ LeaveSaferegion(m) \/ Detach(m)

GcStep ==
    \/ (\E m \in Mutators : GcPick(m)) \/ GcPickDone
    \/ GcScan \/ GcSub \/ GcFinish \/ GcWake
    \/ GcDrain \/ GcCheck \/ GcCvPred \/ GcCvSleep \/ GcCvWoken
    \/ GcReMark \/ ConcurrentMarkCleanup \/ GcSweep

Next ==
    \/ FastScanRoots
    \/ GcStep
    \/ \E m \in Mutators : BarrierStep(m) \/ MutatorStep(m)

Spec == Init /\ [][Next]_vars

\* Every thread is scheduled.  A mutator in managed code polls, so the world
\* can be stopped in the end.
FairSpec ==
    /\ Spec
    /\ WF_vars(GcStep)
    /\ SF_vars(ConcurrentMarkCleanup)
    /\ \A m \in Mutators : WF_vars(BarrierStep(m))

-----------------------------------------------------------------------------
(* Properties.                                                             *)

TypeOK ==
    /\ mpc \in [Mutators -> MutatorPCs]
    /\ after \in [Mutators -> {"managed", "delete"}]
    /\ list \in SUBSET Mutators
    /\ scanState \in [Mutators -> {kNeedScan, kInScan, kFinishScan}]
    /\ scanWait \in SUBSET Mutators
    /\ snapshot \in SUBSET Mutators
    /\ num \in Nat
    /\ tasks \in SUBSET Mutators
    /\ traced \in SUBSET Mutators
    /\ gpc \in {"idle", "pick", "scan", "sub", "finish", "wake", "drain",
                "check", "cv_pred", "cv_sleep", "cv_wait", "remark", "stw2",
                "sweep"}
    /\ cur \in Mutators \cup {NoOne}
    /\ cvWait \in BOOLEAN
    /\ round \in 0 .. kReMarkRounds
    /\ target \in SUBSET Mutators

\* The mutators whose stack is not counted as scanned yet.
Unscanned ==
    {m \in Mutators :
        \/ scanState[m] = kNeedScan
        \/ mpc[m] \in {"bar_scan", "bar_sub"}
        \/ cur = m /\ gpc \in {"scan", "sub"}}

\* A mutator sleeps on its scanState only while the GC thread is at work on its
\* stack and has still to wake it.
FutexWoken ==
    \A m \in scanWait :
        mpc[m] = "bar_wait" /\ cur = m /\ gpc \in {"scan", "sub", "finish", "wake"}

\* numMutatorToBeScan counts exactly the stacks still to be scanned: each is
\* scanned once, by one side, and the unsigned counter never passes zero.
\* (Checked together with the types and with FutexWoken.)
NumIsExact == TypeOK /\ FutexWoken /\ num = Cardinality(Unscanned)

\* Snapshot at the beginning: a mutator that was in the first pause does not
\* run managed code before its stack of that moment has become a mark task.
ScannedBeforeRun ==
    \A m \in target : mpc[m] = "managed" => m \in tasks \cup traced

\* When marking is declared complete every stack of the snapshot has been
\* traced, also of mutators that have detached in the meantime and of tasks
\* queued after the thread pool was stopped.
StacksComplete == gpc = "sweep" => target \subseteq traced

\* The GC thread never touches a Mutator object its thread has deleted: not
\* the one it scans, and not one it could still pick from the snapshot.
NoUseAfterFree ==
    /\ \A m \in snapshot : mpc[m] # "out"
    /\ gpc \in {"scan", "sub", "finish"} => mpc[cur] # "out"

\* A mutator held up by the GC thread's scan of its stack gets through the
\* barrier: the futex wake-up is not lost.
BarrierPasses ==
    \A m \in Mutators : mpc[m] = "bar_wait" ~> mpc[m] \notin BarrierPCs

\* ScanStackAndMark's comment: "notify gc thread" when the last stack has
\* been scanned.  The GC thread that waits for it in ConcurrentMark goes on.
GcThreadNotified == gpc = "check" ~> gpc = "remark"

=============================================================================
