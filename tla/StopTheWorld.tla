---------------------------- MODULE StopTheWorld ----------------------------
(***************************************************************************)
(* The stop-the-world handshake of the Maple runtime                       *)
(* (mrt/compiler-rt: saferegion.h, yieldpoint.cpp, mutator_list.h).        *)
(*                                                                         *)
(* Mutator threads run managed code outside the saferegion and native code *)
(* inside it.  One 64-bit atomic word holds two 32-bit counters: the       *)
(* number of mutators in the saferegion and, while a stop is requested,    *)
(* the number of mutators to wait for.  A stopper publishes the pending    *)
(* count, makes the polling page unreadable and sleeps on a futex until    *)
(* both counters are equal.                                                *)
(*                                                                         *)
(* Every action below is one access to shared memory (an atomic operation, *)
(* a lock operation or a futex call) together with the thread-local work   *)
(* up to the next one.  `ret' is where an inlined subroutine               *)
(* (Enter/LeaveSaferegion) continues.                                      *)
(***************************************************************************)
EXTENDS Integers, FiniteSets

CONSTANTS
    Mutators,    \* threads that attach to the runtime
    Collectors,  \* GC threads: they stop the world but are not mutators
    Stoppers,    \* the threads that call StopTheWorld
    Runtime,     \* any other holder of the thread list lock (libart)
    NoOne,       \* "no thread"
    Width        \* a counter is an unsigned integer modulo Width (2^32)

ASSUME ThreadsAssumption ==
    /\ IsFiniteSet(Mutators)
    /\ Mutators \cap Collectors = {}
    /\ Stoppers \subseteq Mutators \cup Collectors
    /\ NoOne \notin Mutators \cup Collectors
    /\ Runtime \notin Mutators \cup Collectors
    /\ Runtime # NoOne

\* Fewer mutators than a counter can count.
ASSUME WidthAssumption == Width \in Nat /\ Cardinality(Mutators) < Width

Threads == Mutators \cup Collectors

VARIABLES
    pc,             \* control point of each thread
    ret,            \* where the current Enter/LeaveSaferegion returns to
    local,          \* SaferegionState value last loaded by each thread
    sr,             \* the shared SaferegionState word
    inSafe,         \* Mutator::inSaferegion
    list,           \* MutatorList: the active mutators
    listLock,       \* MutatorList::mutatorListMutex
    threadListLock, \* maple::Locks::threadListLock
    stwOwner,       \* owner of the recursive stwMutex
    stwDepth,       \* and how often it holds it
    worldStopped,   \* the flag WorldStopped() returns
    pageReadable,   \* protection of the polling page
    waitSafe,       \* threads asleep in FUTEX_WAIT on saferegionCount
    waitPending,    \* threads asleep in FUTEX_WAIT on pendingCount
    entered,        \* StopTheWorld's local saferegionEntered
    stateChanged,   \* the static saferegionStateChanged
    shouldLeave     \* StartTheWorld's local shouldLeaveSaferegion

locks == <<listLock, threadListLock, stwOwner, stwDepth>>
waits == <<waitSafe, waitPending>>
stwVars == <<worldStopped, pageReadable, entered, stateChanged, shouldLeave>>
vars == <<pc, ret, local, sr, inSafe, list, locks, waits, stwVars>>

-----------------------------------------------------------------------------
(* The word.  fetch_add(1) and fetch_sub(1) act on all 64 bits, so the     *)
(* low counter carries into, and borrows from, the high one.               *)

Counter == 0 .. Width - 1
Word == [safe : Counter, pending : Counter]

Succ(n) == IF n = Width - 1 THEN 0 ELSE n + 1
Pred(n) == IF n = 0 THEN Width - 1 ELSE n - 1

IncSaferegionCount(s) ==
    [safe |-> Succ(s.safe),
     pending |-> IF s.safe = Width - 1 THEN Succ(s.pending) ELSE s.pending]

DecSaferegionCount(s) ==
    [safe |-> Pred(s.safe),
     pending |-> IF s.safe = 0 THEN Pred(s.pending) ELSE s.pending]

SetPendingCount(s, n) == [s EXCEPT !.pending = n]

\* Mutant: satisfied one mutator too early.
MutantAllMutatorStopped(s) == s.pending <= s.safe + 1

AllMutatorStopped(s) == s.pending = s.safe

\* Mutant: compares the old count, not the incremented one.
MutantLastToEnter(s) == s.safe = s.pending

\* The loaded word says that this thread was the last one to be waited for.
LastToEnter(s) == Succ(s.safe) = s.pending

-----------------------------------------------------------------------------
(* Control points.                                                         *)

EnterPCs == {"enter_inc", "enter_flag", "enter_wake"}
SlowPCs  == {"slow_inc", "slow_wake", "slow_wait", "slow_blocked", "slow_dec"}
LeavePCs == {"leave_dec", "yield_leave", "leave_flag"} \cup SlowPCs
StopPCs  == {"stw_lock", "stw_threadlist", "stw_list", "stw_set", "stw_page",
             "stw_check", "stw_wait", "stw_blocked", "stw_done", "stopped"}
StartPCs == {"start_page", "start_pending", "start_wake", "start_list",
             "start_threadlist", "start_stw"}
HomePCs  == {"out", "native", "managed", "idle", "detach_lock",
             "detach_unlock", "fatal"}
PCs      == EnterPCs \cup LeavePCs \cup StopPCs \cup StartPCs \cup HomePCs

\* Control points at which a listed mutator may touch the heap.
Unsafe == {"managed", "enter_inc", "leave_flag"}

\* The mutators of the list that may be running managed code.
Running == {m \in list : pc[m] \in Unsafe}

Init ==
    /\ pc = [t \in Threads |-> IF t \in Mutators THEN "out" ELSE "idle"]
    /\ ret = [t \in Threads |-> "native"]
    /\ local = [t \in Threads |-> [safe |-> 0, pending |-> 0]]
    /\ sr = [safe |-> 0, pending |-> 0]
    /\ inSafe = [t \in Threads |-> FALSE]
    /\ list = {}
    /\ listLock = NoOne
    /\ threadListLock = NoOne
    /\ stwOwner = NoOne
    /\ stwDepth = 0
    /\ worldStopped = FALSE
    /\ pageReadable = TRUE
    /\ waitSafe = {}
    /\ waitPending = {}
    /\ entered = [t \in Threads |-> FALSE]
    /\ stateChanged = FALSE
    /\ shouldLeave = [t \in Threads |-> FALSE]

Goto(t, p) == pc' = [pc EXCEPT ![t] = p]
Call(t, p, r) == Goto(t, p) /\ ret' = [ret EXCEPT ![t] = r]
Return(t) == Goto(t, ret[t])

-----------------------------------------------------------------------------
(* Mutator::DoEnterSaferegion.                                             *)

EnterInc(t) ==
    /\ pc[t] = "enter_inc"
    /\ local' = [local EXCEPT ![t] = sr]
    /\ sr' = IncSaferegionCount(sr)
    /\ Goto(t, "enter_flag")
    /\ UNCHANGED <<ret, inSafe, list, locks, waits, stwVars>>

EnterFlag(t) ==
    /\ pc[t] = "enter_flag"
    /\ inSafe' = [inSafe EXCEPT ![t] = TRUE]
    /\ IF LastToEnter(local[t]) THEN Goto(t, "enter_wake") ELSE Return(t)
    /\ UNCHANGED <<ret, local, sr, list, locks, waits, stwVars>>

\* EnterSaferegionSlowPath: FUTEX_WAKE on saferegionCount.
EnterWake(t) ==
    /\ pc[t] = "enter_wake"
    /\ waitSafe' = {}
    /\ Return(t)
    /\ UNCHANGED <<ret, local, sr, inSafe, list, locks, waitPending, stwVars>>

-----------------------------------------------------------------------------
(* Mutator::DoLeaveSaferegion and LeaveSaferegionSlowPath.                 *)

\* Mutant: the pending count is not looked at.
MutantLeaveDec(t) ==
    /\ pc[t] \in {"leave_dec", "yield_leave"}
    /\ sr' = DecSaferegionCount(sr)
    /\ Goto(t, "leave_flag")
    /\ ret' = [ret EXCEPT ![t] = IF pc[t] = "yield_leave" THEN "managed" ELSE @]
    /\ UNCHANGED <<local, inSafe, list, locks, waits, stwVars>>

LeaveDec(t) ==
    /\ pc[t] \in {"leave_dec", "yield_leave"}
    /\ sr' = DecSaferegionCount(sr)
    /\ Goto(t, IF sr.pending # 0 THEN "slow_inc" ELSE "leave_flag")
    /\ ret' = [ret EXCEPT ![t] = IF pc[t] = "yield_leave" THEN "managed" ELSE @]
    /\ UNCHANGED <<local, inSafe, list, locks, waits, stwVars>>

LeaveFlag(t) ==
    /\ pc[t] = "leave_flag"
    /\ inSafe' = [inSafe EXCEPT ![t] = FALSE]
    /\ Return(t)
    /\ UNCHANGED <<ret, local, sr, list, locks, waits, stwVars>>

SlowInc(t) ==
    /\ pc[t] = "slow_inc"
    /\ local' = [local EXCEPT ![t] = sr]
    /\ sr' = IncSaferegionCount(sr)
    /\ Goto(t, IF LastToEnter(sr) THEN "slow_wake"
               ELSE IF sr.pending > 0 THEN "slow_wait" ELSE "slow_dec")
    /\ UNCHANGED <<ret, inSafe, list, locks, waits, stwVars>>

SlowWake(t) ==
    /\ pc[t] = "slow_wake"
    /\ waitSafe' = {}
    /\ Goto(t, IF local[t].pending > 0 THEN "slow_wait" ELSE "slow_dec")
    /\ UNCHANGED <<ret, local, sr, inSafe, list, locks, waitPending, stwVars>>

\* FUTEX_WAIT sleeps only if the word still has the value the caller loaded.
SlowWait(t) ==
    /\ pc[t] = "slow_wait"
    /\ IF sr.pending = local[t].pending
       THEN waitPending' = waitPending \cup {t} /\ Goto(t, "slow_blocked")
       ELSE waitPending' = waitPending /\ Goto(t, "slow_dec")
    /\ UNCHANGED <<ret, local, sr, inSafe, list, locks, waitSafe, stwVars>>

\* Mutant: retries from the top of the loop without the decrement.
MutantSlowWoken(t) ==
    /\ pc[t] = "slow_blocked"
    /\ t \notin waitPending
    /\ Goto(t, "slow_inc")
    /\ UNCHANGED <<ret, local, sr, inSafe, list, locks, waits, stwVars>>

SlowWoken(t) ==
    /\ pc[t] = "slow_blocked"
    /\ t \notin waitPending
    /\ Goto(t, "slow_dec")
    /\ UNCHANGED <<ret, local, sr, inSafe, list, locks, waits, stwVars>>

SlowDec(t) ==
    /\ pc[t] = "slow_dec"
    /\ sr' = DecSaferegionCount(sr)
    /\ Goto(t, IF sr.pending = 0 THEN "leave_flag" ELSE "slow_inc")
    /\ UNCHANGED <<ret, local, inSafe, list, locks, waits, stwVars>>

\* A futex sleep may end early: a signal, or the stopper's timeout.
FutexInterrupt(t) ==
    /\ t \in waitSafe \cup waitPending
    /\ waitSafe' = waitSafe \ {t}
    /\ waitPending' = waitPending \ {t}
    /\ UNCHANGED <<pc, ret, local, sr, inSafe, list, locks, stwVars>>

-----------------------------------------------------------------------------
(* What a mutator does on its own account.                                 *)

\* Mutant: AddMutator without the list lock.
MutantInitYieldpoint(t) ==
    /\ t \in Mutators /\ pc[t] = "out"
    /\ list' = list \cup {t}
    /\ Call(t, "enter_inc", "native")
    /\ UNCHANGED <<local, sr, inSafe, locks, waits, stwVars>>

\* InitYieldpoint: AddMutator (blocks on the list lock), then EnterSaferegion.
InitYieldpoint(t) ==
    /\ t \in Mutators /\ pc[t] = "out"
    /\ listLock = NoOne
    /\ list' = list \cup {t}
    /\ Call(t, "enter_inc", "native")
    /\ UNCHANGED <<local, sr, inSafe, locks, waits, stwVars>>

\* Native code is called from managed code: MRT_EnterSaferegion.
EnterSaferegion(t) ==
    /\ pc[t] = "managed" /\ ~inSafe[t]
    /\ Call(t, "enter_inc", "native")
    /\ UNCHANGED <<local, sr, inSafe, list, locks, waits, stwVars>>

\* Managed code is called from native code: MRT_LeaveSaferegion.
LeaveSaferegion(t) ==
    /\ pc[t] = "native" /\ inSafe[t]
    /\ Call(t, "leave_dec", "managed")
    /\ UNCHANGED <<local, sr, inSafe, list, locks, waits, stwVars>>

\* A poll faults: YieldpointSignalHandler redirects the mutator to
\* MRT_YieldpointHandler, which enters and then leaves the saferegion.
Yieldpoint(t) ==
    /\ pc[t] = "managed" /\ ~pageReadable /\ ~inSafe[t]
    /\ Call(t, "enter_inc", "yield_leave")
    /\ UNCHANGED <<local, sr, inSafe, list, locks, waits, stwVars>>

\* Mutant: a detaching mutator does not leave the saferegion.
MutantFiniYieldpoint(t) ==
    /\ t \in Mutators /\ pc[t] = "native" /\ inSafe[t]
    /\ listLock = NoOne
    /\ list' = list \ {t}
    /\ inSafe' = [inSafe EXCEPT ![t] = FALSE]
    /\ Goto(t, "out")
    /\ UNCHANGED <<ret, local, sr, locks, waits, stwVars>>

\* FiniYieldpoint: a mutator in the saferegion removes itself from the list
\* and, holding the list lock, leaves the saferegion.
FiniYieldpoint(t) ==
    /\ t \in Mutators /\ pc[t] = "native" /\ inSafe[t]
    /\ Goto(t, "detach_lock")
    /\ UNCHANGED <<ret, local, sr, inSafe, list, locks, waits, stwVars>>

\* Mutant: the callback runs after the list lock is released.
MutantRemoveMutator(t) ==
    /\ pc[t] = "detach_lock"
    /\ listLock = NoOne
    /\ list' = list \ {t}
    /\ Call(t, "leave_dec", "detach_unlock")
    /\ UNCHANGED <<local, sr, inSafe, locks, waits, stwVars>>

RemoveMutator(t) ==
    /\ pc[t] = "detach_lock"
    /\ listLock = NoOne
    /\ listLock' = t
    /\ list' = list \ {t}
    /\ Call(t, "leave_dec", "detach_unlock")
    /\ UNCHANGED <<local, sr, inSafe, threadListLock, stwOwner, stwDepth,
                   waits, stwVars>>

DetachUnlock(t) ==
    /\ pc[t] = "detach_unlock"
    /\ listLock' = NoOne
    /\ Goto(t, "out")
    /\ UNCHANGED <<ret, local, sr, inSafe, list, threadListLock, stwOwner,
                   stwDepth, waits, stwVars>>

-----------------------------------------------------------------------------
(* StopTheWorld and WaitForAllMutatorsStopped.                             *)

\* An active mutator enters the saferegion first, unless it is inside.
StopTheWorld(t) ==
    /\ t \in Stoppers /\ pc[t] \in {"managed", "native", "idle"}
    /\ entered' = [entered EXCEPT ![t] = t \in list /\ ~inSafe[t]]
    /\ IF t \in list /\ ~inSafe[t]
       THEN Call(t, "enter_inc", "stw_lock")
       ELSE Call(t, "stw_lock", "native")
    /\ UNCHANGED <<local, sr, inSafe, list, locks, waits, worldStopped,
                   pageReadable, stateChanged, shouldLeave>>

\* stwMutex is recursive: RunFullCollection stops the world holding it.
StwLock(t) ==
    /\ pc[t] = "stw_lock"
    /\ stwOwner \in {NoOne, t}
    /\ stwOwner' = t
    /\ stwDepth' = stwDepth + 1
    /\ Goto(t, "stw_threadlist")
    /\ UNCHANGED <<ret, local, sr, inSafe, list, listLock, threadListLock,
                   waits, stwVars>>

TryAcquireThreadListLock(t) ==
    /\ pc[t] = "stw_threadlist"
    /\ threadListLock = NoOne
    /\ threadListLock' = t
    /\ Goto(t, "stw_list")
    /\ UNCHANGED <<ret, local, sr, inSafe, list, listLock, stwOwner, stwDepth,
                   waits, stwVars>>

\* With no mutator in the list the world is stopped at once.
StwTryLock(t) ==
    /\ pc[t] = "stw_list"
    /\ listLock = NoOne
    /\ listLock' = t
    /\ stateChanged' = entered[t]
    /\ Goto(t, IF Cardinality(list) = 0 THEN "stw_done" ELSE "stw_set")
    /\ UNCHANGED <<ret, local, sr, inSafe, list, threadListLock, stwOwner,
                   stwDepth, waits, worldStopped, pageReadable, entered,
                   shouldLeave>>

StwSetPending(t) ==
    /\ pc[t] = "stw_set"
    /\ sr' = SetPendingCount(sr, Cardinality(list))
    /\ Goto(t, "stw_page")
    /\ UNCHANGED <<ret, local, inSafe, list, locks, waits, stwVars>>

SetPollingPageUnreadable(t) ==
    /\ pc[t] = "stw_page"
    /\ pageReadable' = FALSE
    /\ Goto(t, "stw_check")
    /\ UNCHANGED <<ret, local, sr, inSafe, list, locks, waits, worldStopped,
                   entered, stateChanged, shouldLeave>>

\* LOG(FATAL) if more mutators are in the saferegion than are pending.
StwCheck(t) ==
    /\ pc[t] = "stw_check"
    /\ local' = [local EXCEPT ![t] = sr]
    /\ Goto(t, IF sr.pending < sr.safe THEN "fatal"
               ELSE IF AllMutatorStopped(sr) THEN "stw_done" ELSE "stw_wait")
    /\ UNCHANGED <<ret, sr, inSafe, list, locks, waits, stwVars>>

\* Mutant: sleeps whatever the count is by now.
MutantStwWait(t) ==
    /\ pc[t] = "stw_wait"
    /\ waitSafe' = waitSafe \cup {t}
    /\ Goto(t, "stw_blocked")
    /\ UNCHANGED <<ret, local, sr, inSafe, list, locks, waitPending, stwVars>>

StwWait(t) ==
    /\ pc[t] = "stw_wait"
    /\ IF sr.safe = local[t].safe
       THEN waitSafe' = waitSafe \cup {t} /\ Goto(t, "stw_blocked")
       ELSE waitSafe' = waitSafe /\ Goto(t, "stw_check")
    /\ UNCHANGED <<ret, local, sr, inSafe, list, locks, waitPending, stwVars>>

StwWoken(t) ==
    /\ pc[t] = "stw_blocked"
    /\ t \notin waitSafe
    /\ Goto(t, "stw_check")
    /\ UNCHANGED <<ret, local, sr, inSafe, list, locks, waits, stwVars>>

StwStopped(t) ==
    /\ pc[t] = "stw_done"
    /\ worldStopped' = TRUE
    /\ Goto(t, "stopped")
    /\ UNCHANGED <<ret, local, sr, inSafe, list, locks, waits, pageReadable,
                   entered, stateChanged, shouldLeave>>

-----------------------------------------------------------------------------
(* StartTheWorld.                                                          *)

StartTheWorld(t) ==
    /\ pc[t] = "stopped"
    /\ shouldLeave' = [shouldLeave EXCEPT ![t] = stateChanged]
    /\ worldStopped' = FALSE
    /\ Goto(t, "start_page")
    /\ UNCHANGED <<ret, local, sr, inSafe, list, locks, waits, pageReadable,
                   entered, stateChanged>>

SetPollingPageReadable(t) ==
    /\ pc[t] = "start_page"
    /\ pageReadable' = TRUE
    /\ Goto(t, "start_pending")
    /\ UNCHANGED <<ret, local, sr, inSafe, list, locks, waits, worldStopped,
                   entered, stateChanged, shouldLeave>>

StartClearPending(t) ==
    /\ pc[t] = "start_pending"
    /\ sr' = SetPendingCount(sr, 0)
    /\ Goto(t, "start_wake")
    /\ UNCHANGED <<ret, local, inSafe, list, locks, waits, stwVars>>

\* Mutant: FUTEX_WAKE of one waiter instead of all.
MutantStartWake(t) ==
    /\ pc[t] = "start_wake"
    /\ \/ waitPending = {} /\ waitPending' = {}
       \/ \E u \in waitPending : waitPending' = waitPending \ {u}
    /\ Goto(t, "start_list")
    /\ UNCHANGED <<ret, local, sr, inSafe, list, locks, waitSafe, stwVars>>

StartWake(t) ==
    /\ pc[t] = "start_wake"
    /\ waitPending' = {}
    /\ Goto(t, "start_list")
    /\ UNCHANGED <<ret, local, sr, inSafe, list, locks, waitSafe, stwVars>>

StartUnlockList(t) ==
    /\ pc[t] = "start_list"
    /\ listLock' = NoOne
    /\ Goto(t, "start_threadlist")
    /\ UNCHANGED <<ret, local, sr, inSafe, list, threadListLock, stwOwner,
                   stwDepth, waits, stwVars>>

ReleaseThreadListLock(t) ==
    /\ pc[t] = "start_threadlist"
    /\ threadListLock' = NoOne
    /\ Goto(t, "start_stw")
    /\ UNCHANGED <<ret, local, sr, inSafe, list, listLock, stwOwner, stwDepth,
                   waits, stwVars>>

\* Back where the thread came from; a mutator that StopTheWorld moved into
\* the saferegion leaves it.
StartUnlockStw(t) ==
    /\ pc[t] = "start_stw"
    /\ stwDepth' = stwDepth - 1
    /\ stwOwner' = IF stwDepth = 1 THEN NoOne ELSE t
    /\ IF t \in list
       THEN IF shouldLeave[t] /\ inSafe[t]
            THEN Call(t, "leave_dec", "managed")
            ELSE Goto(t, "native") /\ UNCHANGED ret
       ELSE Goto(t, "idle") /\ UNCHANGED ret
    /\ UNCHANGED <<local, sr, inSafe, list, listLock, threadListLock, waits,
                   stwVars>>

-----------------------------------------------------------------------------
(* ScopedLockStopTheWorld around a whole collection, and the other users   *)
(* of the thread list lock.                                                *)

LockStopTheWorld(t) ==
    /\ t \in Collectors /\ pc[t] = "idle"
    /\ stwOwner = NoOne
    /\ stwOwner' = t
    /\ stwDepth' = 1
    /\ UNCHANGED <<pc, ret, local, sr, inSafe, list, listLock, threadListLock,
                   waits, stwVars>>

UnlockStopTheWorld(t) ==
    /\ t \in Collectors /\ pc[t] = "idle"
    /\ stwOwner = t
    /\ stwOwner' = NoOne
    /\ stwDepth' = 0
    /\ UNCHANGED <<pc, ret, local, sr, inSafe, list, listLock, threadListLock,
                   waits, stwVars>>

RuntimeLock ==
    /\ threadListLock = NoOne
    /\ threadListLock' = Runtime
    /\ UNCHANGED <<pc, ret, local, sr, inSafe, list, listLock, stwOwner,
                   stwDepth, waits, stwVars>>

RuntimeUnlock ==
    /\ threadListLock = Runtime
    /\ threadListLock' = NoOne
    /\ UNCHANGED <<pc, ret, local, sr, inSafe, list, listLock, stwOwner,
                   stwDepth, waits, stwVars>>

-----------------------------------------------------------------------------
\* The steps a thread takes without being asked: once begun, an operation
\* runs to its end, and a running mutator reaches its next poll.
Progress(t) ==
    \/ EnterInc(t) \/ EnterFlag(t) \/ EnterWake(t)
    \/ LeaveDec(t) \/ LeaveFlag(t)
    \/ SlowInc(t) \/ SlowWake(t) \/ SlowWait(t) \/ SlowWoken(t) \/ SlowDec(t)
    \/ Yieldpoint(t)
    \/ RemoveMutator(t) \/ DetachUnlock(t)
    \/ StwLock(t) \/ TryAcquireThreadListLock(t) \/ StwTryLock(t)
    \/ StwSetPending(t) \/ SetPollingPageUnreadable(t)
    \/ StwCheck(t) \/ StwWait(t) \/ StwWoken(t) \/ StwStopped(t)
    \/ StartTheWorld(t) \/ SetPollingPageReadable(t) \/ StartClearPending(t)
    \/ StartWake(t) \/ StartUnlockList(t) \/ ReleaseThreadListLock(t)
    \/ StartUnlockStw(t)

\* The steps it takes when its program calls for them.
Choice(t) ==
    \/ InitYieldpoint(t) \/ FiniYieldpoint(t)
    \/ EnterSaferegion(t) \/ LeaveSaferegion(t)
    \/ StopTheWorld(t)
    \/ LockStopTheWorld(t) \/ UnlockStopTheWorld(t)
    \/ FutexInterrupt(t)

Next ==
    \/ \E t \in Threads : Progress(t) \/ Choice(t)
    \/ RuntimeLock \/ RuntimeUnlock

Spec == Init /\ [][Next]_vars

\* Every thread is scheduled and the collector ends its pauses; signals and
\* timeouts do not end futex sleeps for ever, so nothing relies on them.
FairSpec ==
    /\ Spec
    /\ \A t \in Threads : WF_vars(Progress(t))
    /\ <>[][\A t \in Threads : ~FutexInterrupt(t)]_vars

-----------------------------------------------------------------------------
(* Properties.                                                             *)

TypeOK ==
    /\ pc \in [Threads -> PCs]
    /\ ret \in [Threads -> {"native", "managed", "yield_leave", "stw_lock",
                            "detach_unlock"}]
    /\ local \in [Threads -> Word]
    /\ sr \in Word
    /\ inSafe \in [Threads -> BOOLEAN]
    /\ list \in SUBSET Mutators
    /\ listLock \in Threads \cup {NoOne}
    /\ threadListLock \in Threads \cup {NoOne, Runtime}
    /\ stwOwner \in Threads \cup {NoOne}
    /\ stwDepth \in 0 .. 2
    /\ worldStopped \in BOOLEAN
    /\ pageReadable \in BOOLEAN
    /\ waitSafe \in SUBSET Threads
    /\ waitPending \in SUBSET Threads
    /\ entered \in [Threads -> BOOLEAN]
    /\ stateChanged \in BOOLEAN
    /\ shouldLeave \in [Threads -> BOOLEAN]

\* While WorldStopped() answers true no mutator of the list can run managed
\* code: each is inside the saferegion or on the slow path out of it.
StoppedWorldIsQuiet == worldStopped => Running = {}

\* WaitForAllMutatorsStopped never finds more mutators in the saferegion
\* than are pending (its LOG(FATAL) "Incorrect SaferegionState!").
NeverFatal == \A t \in Threads : pc[t] # "fatal"

\* Mutators whose increment of saferegionCount has not been undone.
CountedPCs == {"enter_flag", "enter_wake", "native", "leave_dec",
               "yield_leave", "slow_wake", "slow_wait",
               "slow_blocked", "slow_dec", "detach_lock"}
              \cup StopPCs \cup StartPCs
Counted == {m \in Mutators : pc[m] \in CountedPCs}

\* Every increment is matched by one decrement on every path through
\* Enter/LeaveSaferegion, its slow path and detaching: the low counter is
\* the number of mutators inside, and never borrows from the pending count.
CountIsExact == sr.safe = Cardinality(Counted)

\* FiniYieldpoint's comment: leaving the saferegion after the removal from
\* the list "will not [be] interrupted by GC because we hold mutator list
\* lock".  A removed mutator never sees a pending stop.
DetachNotInterrupted ==
    \A m \in Mutators \ list : pc[m] \notin SlowPCs

\* StopTheWorld's comment: the number of mutators "will not be changed since
\* we hold the lock of mutator list".  Between publishing the pending count
\* and clearing it no mutator joins or leaves.
ListFrozen == [][sr.pending # 0 => list' = list]_vars

\* The threads on their way to the FUTEX_WAKE on saferegionCount.
Wakers == {t \in Threads : \/ pc[t] \in {"enter_wake", "slow_wake"}
                           \/ pc[t] = "enter_flag" /\ LastToEnter(local[t])}

\* The stopper sleeps in WaitForAllMutatorsStopped only while a mutator is
\* missing or the last one to enter is about to wake it.
StopperWoken ==
    \A t \in waitSafe : /\ pc[t] = "stw_blocked"
                        /\ AllMutatorStopped(sr) => Wakers # {}

\* A mutator sleeps in LeaveSaferegionSlowPath only while a stop is pending
\* or StartTheWorld is about to wake it.
BlockedWoken ==
    \A t \in waitPending : /\ pc[t] = "slow_blocked"
                           /\ sr.pending = 0 => \E u \in Threads : pc[u] = "start_wake"

\* No futex sleep outlasts its reason, whatever happens between loading the
\* word and FUTEX_WAIT, or between changing it and FUTEX_WAKE: the timeout of
\* the stopper's wait is never needed.  (Checked together with the types.)
NoLostWakeup == TypeOK /\ StopperWoken /\ BlockedWoken

\* A requested stop completes without the help of the futex timeout: the
\* wake-up by the last mutator to enter the saferegion is never lost.  The
\* stopper holds the locks of the protocol from "stw_page" to "stopped", so
\* the thread at the one point is the thread that was at the other.
StopCompletes ==
    (\E t \in Threads : pc[t] = "stw_page") ~> (\E t \in Threads : pc[t] = "stopped")

\* Once the world is no longer being stopped, every mutator that blocked on
\* the way out of the saferegion gets out of it.
BlockedResume ==
    <>[](sr.pending = 0) => <>[](\A m \in Mutators : pc[m] \notin SlowPCs)

-----------------------------------------------------------------------------
(* The inductive invariant behind the safety properties.                   *)

\* From publishing the pending count to clearing it.
PendingPCs == {"stw_page", "stw_check", "stw_wait", "stw_blocked", "stw_done",
               "stopped", "start_page", "start_pending"}
\* The stopper holds the list lock, and stwMutex.
ListPCs == PendingPCs \cup {"stw_set", "start_wake", "start_list"}
StwPCs  == ListPCs \cup {"stw_threadlist", "stw_list", "start_threadlist",
                         "start_stw"}
\* The stopper owns the stopped world.
OwnerPCs == {"stw_done", "stopped", "start_page", "start_pending"}
OutsidePCs == {"out", "enter_inc", "enter_flag", "managed", "detach_unlock"}

\* Removed from the list and holding its lock.
Detaching(t) ==
    \/ pc[t] = "detach_unlock"
    \/ ret[t] = "detach_unlock" /\ pc[t] \in LeavePCs

ControlInv ==
    /\ \A t \in Collectors : pc[t] \in {"idle"} \cup StopPCs \cup StartPCs
    /\ \A m \in Mutators :
        /\ pc[m] # "idle"
        /\ pc[m] \in EnterPCs => ret[m] \in {"native", "yield_leave", "stw_lock"}
        /\ pc[m] \in LeavePCs \ {"yield_leave"} =>
              ret[m] \in {"managed", "detach_unlock"}
        /\ pc[m] = "yield_leave" => ret[m] = "yield_leave"
        /\ inSafe[m] <=> pc[m] \notin OutsidePCs
        /\ m \in list <=> pc[m] # "out" /\ ~Detaching(m)

LockInv ==
    /\ \A t \in Threads : pc[t] \in ListPCs => listLock = t
    /\ \A m \in Mutators : Detaching(m) => listLock = m
    /\ \A t \in Threads : pc[t] \in StwPCs => stwOwner = t
    /\ stwOwner = NoOne => stwDepth = 0
    /\ \A m \in Mutators : stwOwner = m => pc[m] \in StwPCs /\ stwDepth = 1
    /\ \A t \in Collectors :
        stwOwner = t => IF pc[t] \in StwPCs THEN stwDepth \in 1 .. 2
                                            ELSE stwDepth = 1

PendingInv ==
    /\ \A t \in Threads : pc[t] \in PendingPCs => sr.pending = Cardinality(list)
    /\ sr.pending # 0 => \E t \in Threads : pc[t] \in PendingPCs

QuietInv ==
    /\ \A t \in Threads : pc[t] \in OwnerPCs => Running = {}
    /\ worldStopped => \E t \in Threads : pc[t] = "stopped"

IInv ==
    /\ TypeOK
    /\ NeverFatal
    /\ ControlInv
    /\ LockInv
    /\ PendingInv
    /\ CountIsExact
    /\ DetachNotInterrupted
    /\ QuietInv

\* What the two sleepers know when they go to sleep: the count that a stopper
\* has loaded is not the one it waits for, and a mutator has seen a stop.
SleepInv ==
    /\ \A t \in Threads : pc[t] = "stw_wait" => local[t].safe # sr.pending
    /\ \A t \in Threads : pc[t] = "slow_wait" => local[t].pending # 0

\* Inductive together with IInv.
WakeInv == SleepInv /\ StopperWoken /\ BlockedWoken

-----------------------------------------------------------------------------
(* Refinement.                                                             *)

\* The thread that has found all mutators stopped and has not yet cleared
\* the pending count.
Owners == {t \in Threads : pc[t] \in OwnerPCs}
Owner == IF Owners = {} THEN NoOne ELSE CHOOSE t \in Owners : TRUE

World == INSTANCE WorldControl
         WITH attached <- list, running <- Running, owner <- Owner

\* The handshake implements the abstract contract: only one thread at a time
\* owns a stopped world, it owns it only while nothing runs, and nothing
\* starts, attaches or detaches until it gives it up.
ImplementsWorldControl == World!Spec

=============================================================================
