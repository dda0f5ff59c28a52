----------------------------- MODULE Finalization -----------------------------
(***************************************************************************)
(* The reference processor (RP) thread and the finalizers it runs:         *)
(* rp_base.cpp, with ShouldStartIteration of gc_reference_processor.cpp.   *)
(*                                                                         *)
(* The GC thread hands dead objects that have a finalizer over and wakes   *)
(* the RP thread, which runs finalize() on them.  Mutators may run the     *)
(* finalizers themselves (System.runFinalization), and the thread that     *)
(* forks or shuts down the runtime stops the RP thread and may start it    *)
(* again.  References (EnqeueReferences) are in module GcReferences.       *)
(*                                                                         *)
(* A step is one critical section, one call of finalize(), or one store to *)
(* a shared flag.  Pauses of the world only delay these steps: a thread    *)
(* waits for both locks inside the saferegion.                             *)
(***************************************************************************)
EXTENDS Integers, Sequences, FiniteSets, SequencesExt

CONSTANTS
    Objs,      \* objects with a finalizer
    Mutators,  \* threads that call RunFinalization
    NoOne      \* no thread

ASSUME NamesAssumption ==
    /\ {NoOne, "rp", "ctl"} \cap Mutators = {} /\ NoOne # "rp"
    /\ IsFiniteSet(Objs)

VARIABLES
    rp,         \* the RP thread: control point and the flags of ReferenceProcessor
    ctl,        \* control point of the thread that starts and stops it
    fin,        \* finalizables, workingFinalizables (working), runFinalizations (run)
    finalized,  \* how often finalize() of an object was called
    lock,       \* owners of finalizerProcessingLock and runFinalizationLock
    mpc,        \* control point of each mutator in RunFinalization
    due,        \* history: what was queued when RunFinalization or Stop was called
    gc,         \* control point of the GC thread
    zygote      \* hasForked, and the objects with the mygote bit

vars == <<rp, ctl, fin, finalized, lock, mpc, due, gc, zygote>>

Init ==
    /\ rp = [pc |-> "off", started |-> FALSE, running |-> FALSE, finalizeOnStop |-> FALSE,
             processAll |-> FALSE, last |-> FALSE]
    /\ ctl = "create"
    /\ fin = [finalizables |-> << >>, working |-> << >>, run |-> << >>]
    /\ finalized = [o \in Objs |-> 0]
    /\ lock = [processing |-> NoOne, run |-> NoOne]
    /\ mpc = [m \in Mutators |-> "idle"]
    /\ due = [t \in Mutators \cup {"ctl"} |-> {}]
    /\ gc = "idle"
    /\ zygote = [hasForked |-> FALSE, mygote |-> {}]

-----------------------------------------------------------------------------
Queued == UNION {ToSet(fin[l]) : l \in DOMAIN fin}

(* The thread that creates the RP thread and stops it, before a fork or    *)
(* when the runtime ends.                                                  *)
Create ==
    /\ ctl = "create" /\ ctl' = "waitStarted"
    /\ rp' = [rp EXCEPT !.pc = "init"]
    /\ UNCHANGED <<fin, finalized, lock, mpc, due, gc, zygote>>

WaitStarted ==
    /\ ctl = "waitStarted" /\ rp.started /\ ctl' = "up"
    /\ UNCHANGED <<rp, fin, finalized, lock, mpc, due, gc, zygote>>

(* Clears RPRunning before it sets doFinalizeOnStop. *)
MutantStop ==
    /\ \/ /\ ctl = "up" /\ ctl' = "stop"
          /\ rp' = [rp EXCEPT !.running = FALSE] /\ UNCHANGED due
       \/ /\ ctl = "stop" /\ ctl' = "waitStop"
          /\ \E finalize \in BOOLEAN :
              /\ rp' = [rp EXCEPT !.finalizeOnStop = finalize]
              /\ due' = [due EXCEPT !["ctl"] = IF finalize THEN Queued ELSE {}]
    /\ UNCHANGED <<fin, finalized, lock, mpc, gc, zygote>>

(* MRT_StopProcessReferences: the two stores of Stop(finalize).  The       *)
(* notification that follows only shortens the RP thread's Wait.           *)
Stop ==
    /\ \/ /\ ctl = "up" /\ ctl' = "stop"
          /\ \E finalize \in BOOLEAN :
              /\ rp' = [rp EXCEPT !.finalizeOnStop = finalize]
              /\ due' = [due EXCEPT !["ctl"] = IF finalize THEN Queued ELSE {}]
       \/ /\ ctl = "stop" /\ ctl' = "waitStop"
          /\ rp' = [rp EXCEPT !.running = FALSE] /\ UNCHANGED due
    /\ UNCHANGED <<fin, finalized, lock, mpc, gc, zygote>>

(* WaitStop joins the thread; a fork goes on. *)
WaitStop ==
    /\ ctl = "waitStop" /\ rp.pc = "exited"
    /\ rp' = [rp EXCEPT !.pc = "off", !.started = FALSE]
    /\ ctl' = IF rp.finalizeOnStop THEN "done" ELSE "fork"
    /\ due' = [due EXCEPT !["ctl"] = {}]
    /\ UNCHANGED <<fin, finalized, lock, mpc, gc, zygote>>

(* MRT_GCPreFork, once all other threads have stopped: before the first    *)
(* fork OnPreFork sets the mygote bit of every object of the heap.  Some   *)
(* of Objs may be allocated later.  Afterwards the thread is created again.*)
PreFork ==
    /\ ctl = "fork" /\ ctl' = "create"
    /\ gc = "idle" /\ \A m \in Mutators : mpc[m] = "idle"
    /\ IF zygote.hasForked THEN UNCHANGED zygote
       ELSE \E heap \in SUBSET Objs :
              /\ Queued \subseteq heap
              /\ zygote' = [hasForked |-> TRUE, mygote |-> heap]
    /\ UNCHANGED <<rp, fin, finalized, lock, mpc, due, gc>>

-----------------------------------------------------------------------------
(* The RP thread: ReferenceProcessor::Run. *)
RpGoto(from, to) == rp.pc = from /\ rp' = [rp EXCEPT !.pc = to] /\ UNCHANGED <<ctl, zygote>>

RpInit ==
    /\ rp.pc = "init" /\ UNCHANGED <<ctl, fin, finalized, lock, mpc, due, gc, zygote>>
    /\ rp' = [rp EXCEPT !.pc = "notify", !.running = TRUE, !.finalizeOnStop = FALSE, !.last = FALSE]

NotifyStarted ==
    /\ rp.pc = "notify" /\ UNCHANGED <<ctl, fin, finalized, lock, mpc, due, gc, zygote>>
    /\ rp' = [rp EXCEPT !.pc = "loop", !.started = TRUE]

(* The test of the outer loop, and the one of doFinalizeOnStop after it.   *)
(* PreIteration, which may request a background collection, is left out.   *)
Run ==
    /\ rp.pc = "loop" /\ UNCHANGED <<ctl, fin, finalized, lock, mpc, due, gc, zygote>>
    /\ rp' = [rp EXCEPT !.last = ~rp.running,
                        !.pc = IF rp.running \/ rp.finalizeOnStop THEN "lock" ELSE "exited"]

(* ProcessFinalizables.  The swap and additions to the list are critical   *)
(* sections of finalizersLock.                                             *)
ProcessLock ==
    /\ lock.processing = NoOne /\ RpGoto("lock", "swap")
    /\ lock' = [lock EXCEPT !.processing = "rp"]
    /\ UNCHANGED <<fin, finalized, mpc, due, gc>>

ProcessSwap ==
    /\ RpGoto("swap", "finalize")
    /\ fin' = [fin EXCEPT !.working = fin.finalizables, !.finalizables = fin.working]
    /\ UNCHANGED <<finalized, lock, mpc, due, gc>>

(* ProcessFinalizablesList: finalize() of the first object of a list,      *)
(* which stays in the list while finalize() runs.  A mygote object leaves  *)
(* the list without it.                                                    *)
IsMygoteObj(o) == o \in zygote.mygote

Finalize(l) ==
    /\ fin[l] # << >> /\ ~IsMygoteObj(Head(fin[l])) /\ UNCHANGED fin
    /\ finalized' = [finalized EXCEPT ![Head(fin[l])] = @ + 1]

PopFront(l) ==
    /\ fin[l] # << >> /\ UNCHANGED finalized
    /\ fin' = [fin EXCEPT ![l] = Tail(@)]

SkipMygote(l) == fin[l] # << >> /\ IsMygoteObj(Head(fin[l])) /\ PopFront(l)

ProcessFinalize ==
    /\ \/ RpGoto("finalize", "finalize") /\ SkipMygote("working")
       \/ RpGoto("finalize", "finalizing") /\ Finalize("working")
       \/ RpGoto("finalizing", "finalize") /\ PopFront("working")
    /\ UNCHANGED <<lock, mpc, due, gc>>

(* The thread ends, or goes on with EnqeueReferences and waits. *)
ProcessUnlock ==
    /\ fin.working = << >> /\ RpGoto("finalize", IF rp.last THEN "exited" ELSE "wait")
    /\ lock' = [lock EXCEPT !.processing = NoOne]
    /\ UNCHANGED <<fin, finalized, mpc, due, gc>>

(* The inner loop.  Wait ends by a notification or by its timeout. *)
Wait ==
    /\ RpGoto("wait", IF rp.running THEN "should" ELSE "loop")
    /\ UNCHANGED <<fin, finalized, lock, mpc, due, gc>>

(* Consumes the notification and starts an iteration only for other work. *)
MutantShouldStartIteration ==
    /\ rp.pc = "should" /\ UNCHANGED <<ctl, fin, finalized, lock, mpc, due, gc, zygote>>
    /\ \E otherWork \in BOOLEAN :
        rp' = [rp EXCEPT !.processAll = FALSE, !.pc = IF otherWork THEN "loop" ELSE "wait"]

(* GCReferenceProcessor::ShouldStartIteration.  The other work is a        *)
(* background collection or a cleared reference, either at any time.       *)
ShouldStartIteration ==
    /\ rp.pc = "should" /\ UNCHANGED <<ctl, fin, finalized, lock, mpc, due, gc, zygote>>
    /\ \E otherWork \in BOOLEAN :
        rp' = [rp EXCEPT !.processAll = FALSE,
                         !.pc = IF rp.processAll \/ otherWork THEN "loop" ELSE "wait"]

RpStep ==
    \/ RpInit \/ NotifyStarted \/ Run \/ ProcessSwap \/ ProcessFinalize \/ ProcessUnlock
    \/ Wait \/ ShouldStartIteration

-----------------------------------------------------------------------------
(* RunFinalization by a mutator. *)
MGoto(m, from, to) ==
    /\ mpc[m] = from /\ mpc' = [mpc EXCEPT ![m] = to]
    /\ UNCHANGED <<rp, ctl, gc, zygote>>

RunFinalization(m) ==
    /\ MGoto(m, "idle", "lock")
    /\ due' = [due EXCEPT ![m] = Queued]
    /\ UNCHANGED <<fin, finalized, lock>>

(* Without runFinalizationLock. *)
MutantRunLock(m) ==
    /\ MGoto(m, "lock", "swap") /\ UNCHANGED <<fin, finalized, lock, due>>

RunLock(m) ==
    /\ lock.run = NoOne /\ MGoto(m, "lock", "swap")
    /\ lock' = [lock EXCEPT !.run = m]
    /\ UNCHANGED <<fin, finalized, due>>

RunSwap(m) ==
    /\ MGoto(m, "swap", "finalize")
    /\ fin' = [fin EXCEPT !.run = fin.finalizables, !.finalizables = fin.run]
    /\ UNCHANGED <<finalized, lock, due>>

RunFinalize(m) ==
    /\ \/ MGoto(m, "finalize", "finalize") /\ SkipMygote("run")
       \/ MGoto(m, "finalize", "finalizing") /\ Finalize("run")
       \/ MGoto(m, "finalizing", "finalize") /\ PopFront("run")
    /\ UNCHANGED <<lock, due>>

RunUnlock(m) ==
    /\ fin.run = << >> /\ MGoto(m, "finalize", "sync")
    /\ lock' = [lock EXCEPT !.run = NoOne]
    /\ UNCHANGED <<fin, finalized, due>>

(* Does not wait for the list that the RP thread has taken. *)
MutantRunSync(m) ==
    /\ MGoto(m, "sync", "synced") /\ UNCHANGED <<fin, finalized, lock, due>>

RunSync(m) ==
    /\ lock.processing = NoOne /\ MGoto(m, "sync", "synced")
    /\ lock' = [lock EXCEPT !.processing = m]
    /\ UNCHANGED <<fin, finalized, due>>

RunReturn(m) ==
    /\ MGoto(m, "synced", "idle")
    /\ lock' = [lock EXCEPT !.processing = NoOne]
    /\ due' = [due EXCEPT ![m] = {}]
    /\ UNCHANGED <<fin, finalized>>

RunStep(m) == RunSwap(m) \/ RunFinalize(m) \/ RunUnlock(m) \/ RunReturn(m)

-----------------------------------------------------------------------------
(* The GC thread.  ConcurrentAddFinalizerToRP hands over, one by one, dead *)
(* objects that are finalizable, not enqueued yet and not mygote objects,  *)
(* and Notify(true) ends the collection.  It is stopped before a fork.     *)
Resurrectable == {o \in Objs : finalized[o] = 0 /\ o \notin Queued /\ ~IsMygoteObj(o)}

AddFinalizable ==
    /\ ctl # "fork" /\ gc' = "notify"
    /\ \E dead \in Resurrectable : fin' = [fin EXCEPT !.finalizables = Append(@, dead)]
    /\ UNCHANGED <<rp, ctl, finalized, lock, mpc, due, zygote>>

Notify ==
    /\ gc = "notify" /\ gc' = "idle"
    /\ rp' = [rp EXCEPT !.processAll = TRUE]
    /\ UNCHANGED <<ctl, fin, finalized, lock, mpc, due, zygote>>

-----------------------------------------------------------------------------
Next ==
    \/ Create \/ WaitStarted \/ Stop \/ WaitStop \/ PreFork
    \/ RpStep \/ ProcessLock
    \/ \E m \in Mutators : RunFinalization(m) \/ RunLock(m) \/ RunSync(m) \/ RunStep(m)
    \/ AddFinalizable \/ Notify

Spec == Init /\ [][Next]_vars

(* The RP thread, the GC thread and a mutator inside RunFinalization keep  *)
(* running, finalize() returns, and a mutex that is free again and again   *)
(* is obtained in the end.  Nobody has to collect, to call RunFinalization *)
(* or to stop the RP thread.                                               *)
FairSpec ==
    /\ Spec
    /\ WF_vars(RpStep) /\ SF_vars(ProcessLock) /\ WF_vars(Notify)
    /\ \A m \in Mutators : WF_vars(RunStep(m)) /\ SF_vars(RunLock(m)) /\ SF_vars(RunSync(m))

-----------------------------------------------------------------------------
RpPcs == {"off", "init", "notify", "loop", "lock", "swap", "finalize", "finalizing", "wait",
          "should", "exited"}
MPcs == {"idle", "lock", "swap", "finalize", "finalizing", "sync", "synced"}

(* Type invariant of the RP thread, the lists and the locks. *)
TypeOK ==
    /\ rp \in [pc : RpPcs, started : BOOLEAN, running : BOOLEAN, finalizeOnStop : BOOLEAN,
               processAll : BOOLEAN, last : BOOLEAN]
    /\ ctl \in {"create", "waitStarted", "up", "stop", "waitStop", "fork", "done"}
    /\ \A l \in DOMAIN fin : fin[l] \in BoundedSeq(Objs, Cardinality(Objs))
    /\ finalized \in [Objs -> Nat]
    /\ lock \in [processing : Mutators \cup {"rp", NoOne}, run : Mutators \cup {NoOne}]
    /\ mpc \in [Mutators -> MPcs] /\ gc \in {"idle", "notify"}
    /\ zygote \in [hasForked : BOOLEAN, mygote : SUBSET Objs]

(* Every list that holds an object has a thread that will come to it: the  *)
(* swapped lists the thread that works on them, finalizables an RP thread  *)
(* that is about to swap it or, past the swap, a notification that is      *)
(* still to come or not consumed yet.                                      *)
NothingForgotten ==
    /\ fin.finalizables # << >> /\ rp.pc \in {"finalize", "finalizing", "wait", "should"} =>
          gc = "notify" \/ rp.processAll
    /\ fin.working # << >> => rp.pc \in {"finalize", "finalizing"}
    /\ fin.run # << >> => \E m \in Mutators : mpc[m] \in {"finalize", "finalizing"}

(* finalize() of an object is called at most once, and an object is in one *)
(* finalizer list at most once: the RP thread and the mutators never share *)
(* an object, and a list that is swapped away is never swapped back with   *)
(* an object in it.  (Checked together with the types and with             *)
(* NothingForgotten.)                                                      *)
FinalizedOnce ==
    /\ TypeOK /\ NothingForgotten
    /\ \A o \in Objs : finalized[o] <= 1
    /\ \A o \in ToSet(fin.finalizables) : finalized[o] = 0
    /\ Len(fin.finalizables) + Len(fin.working) + Len(fin.run) = Cardinality(Queued)

(* An object has been dealt with: finalize() has ended, or it is an object *)
(* of the zygote.                                                          *)
Settled(o) == o \notin Queued /\ (finalized[o] = 1 \/ IsMygoteObj(o))

(* RunFinalization returns only after finalize() of every object that was  *)
(* queued when it was called has ended, in whichever thread ran it; only   *)
(* objects left over from before the first fork are dropped.               *)
RunFinalizationComplete ==
    [][\A m \in Mutators :
        mpc[m] = "synced" /\ mpc'[m] # "synced" => \A o \in due[m] : Settled(o)]_vars

(* Stop(true): the RP thread does not end before what was queued when it   *)
(* was stopped is finalized, or is in the hands of a mutator.              *)
StopFinalizes ==
    rp.pc = "exited" => \A o \in due["ctl"] : Settled(o) \/ o \in ToSet(fin.run)

(* A queued object is finalized, or dropped if it is one of the zygote,    *)
(* unless the RP thread is stopped: the notification is not lost although  *)
(* Wait tests no condition.  And RunFinalization returns: its two locks    *)
(* and the RP thread's never block each other.                             *)
FinalizationEnds ==
    /\ \A o \in Objs : (o \in Queued) ~> (Settled(o) \/ ctl # "up")
    /\ \A m \in Mutators : (mpc[m] # "idle") ~> (mpc[m] = "idle")
=============================================================================
