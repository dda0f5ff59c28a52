------------------------ MODULE StopTheWorldProofs ------------------------
(***************************************************************************)
(* Proofs about StopTheWorld for any number of mutators and collectors.    *)
(*                                                                         *)
(* IInv (defined beside the specification) is shown inductive, one lemma   *)
(* per conjunct and one step per action.  Only the counting lemmas reason  *)
(* about cardinalities.  WakeInv, inductive relative to IInv, shows that   *)
(* no thread sleeps on a futex without a reason or a wake-up to come.      *)
(***************************************************************************)
EXTENDS StopTheWorld, FiniteSetTheorems, TLAPS

-----------------------------------------------------------------------------
(* Counting.                                                               *)

\* A set of mutators is finite and can be counted without wrapping around.
LEMMA MutatorSets ==
    ASSUME NEW S, S \subseteq Mutators
    PROVE  /\ IsFiniteSet(S)
           /\ Cardinality(S) \in Nat
           /\ Cardinality(S) < Width
           /\ Cardinality(S) \in Counter
<1>1. IsFiniteSet(S) /\ Cardinality(S) <= Cardinality(Mutators)
  BY FS_Subset, ThreadsAssumption
<1>2. Cardinality(S) \in Nat /\ Cardinality(Mutators) \in Nat
  BY <1>1, FS_CardinalityType, ThreadsAssumption
<1>3. QED
  BY <1>1, <1>2, WidthAssumption DEF Counter

\* A mutator that becomes counted adds one to the low counter: no carry.
LEMMA CountUp ==
    ASSUME IInv, NEW t \in Mutators, NEW p \in CountedPCs,
           pc[t] \notin CountedPCs, Goto(t, p)
    PROVE  /\ IncSaferegionCount(sr)
                = [safe |-> Cardinality(Counted'), pending |-> sr.pending]
           /\ IncSaferegionCount(sr) \in Word
<1>1. Counted' = Counted \cup {t} /\ t \notin Counted
  BY DEF Counted, Goto, IInv, TypeOK, Threads
<1>2. IsFiniteSet(Counted) /\ Counted \subseteq Mutators
      /\ Counted' \subseteq Mutators
  BY MutatorSets DEF Counted
<1>3. Cardinality(Counted') = Cardinality(Counted) + 1
  BY <1>1, <1>2, FS_AddElement
<1>4. sr.safe = Cardinality(Counted) /\ sr \in Word
  BY DEF IInv, CountIsExact, TypeOK
<1>5. Cardinality(Counted) \in Nat /\ Cardinality(Counted') < Width
  BY <1>2, MutatorSets
<1>6. QED
  BY <1>3, <1>4, <1>5, WidthAssumption
  DEF IncSaferegionCount, Succ, Word, Counter

\* A counted mutator that leaves subtracts one: no borrow.
LEMMA CountDown ==
    ASSUME IInv, NEW t \in Mutators, NEW p, p \notin CountedPCs,
           pc[t] \in CountedPCs, Goto(t, p)
    PROVE  /\ DecSaferegionCount(sr)
                = [safe |-> Cardinality(Counted'), pending |-> sr.pending]
           /\ DecSaferegionCount(sr) \in Word
<1>1. Counted' = Counted \ {t} /\ t \in Counted
  BY DEF Counted, Goto, IInv, TypeOK, Threads
<1>2. IsFiniteSet(Counted) /\ Counted \subseteq Mutators
      /\ Counted' \subseteq Mutators
  BY MutatorSets DEF Counted
<1>3. Cardinality(Counted') = Cardinality(Counted) - 1
  BY <1>1, <1>2, FS_RemoveElement
<1>4. sr.safe = Cardinality(Counted) /\ sr \in Word
  BY DEF IInv, CountIsExact, TypeOK
<1>5. Cardinality(Counted) \in Nat /\ Cardinality(Counted') \in Nat
  BY <1>2, MutatorSets
<1>6. QED
  BY <1>3, <1>4, <1>5, WidthAssumption
  DEF DecSaferegionCount, Pred, Word, Counter

\* All other steps leave the set of counted mutators alone.
LEMMA CountSame ==
    ASSUME IInv, NEW t \in Threads, NEW p, Goto(t, p),
           t \in Mutators => (pc[t] \in CountedPCs <=> p \in CountedPCs)
    PROVE  Counted' = Counted
  BY DEF Counted, Goto, IInv, TypeOK, Threads

\* What a stopper may conclude from the two counters: with a pending count
\* published and the list lock held, every counted mutator is in the list,
\* so equal counters mean that every listed mutator is counted.
LEMMA StopperView ==
    ASSUME IInv, NEW t \in Threads, pc[t] \in PendingPCs
    PROVE  /\ sr.safe <= sr.pending
           /\ AllMutatorStopped(sr) => Running = {}
<1>1. listLock = t /\ sr.pending = Cardinality(list)
  BY DEF IInv, LockInv, ListPCs, PendingInv
<1>2. Counted \subseteq list
  <2> SUFFICES ASSUME NEW m \in Mutators, pc[m] \in CountedPCs
               PROVE  m \in list
    BY DEF Counted
  <2>1. pc[m] # "out"
    BY DEF CountedPCs, StopPCs, StartPCs
  <2>2. m # t => ~Detaching(m)
    BY <1>1 DEF IInv, LockInv
  <2>3. m = t => ~Detaching(m)
    BY DEF Detaching, PendingPCs, LeavePCs, SlowPCs
  <2>4. QED
    BY <2>1, <2>2, <2>3 DEF IInv, ControlInv
<1>3. list \subseteq Mutators /\ IsFiniteSet(list)
  BY MutatorSets DEF IInv, TypeOK
<1>4. /\ Cardinality(Counted) <= Cardinality(list)
      /\ Cardinality(Counted) = Cardinality(list) => Counted = list
  BY <1>2, <1>3, FS_Subset
<1>5. Counted = list => Running = {}
  BY DEF Counted, Running, CountedPCs, Unsafe, StopPCs, StartPCs
<1>6. QED
  BY <1>1, <1>4, <1>5 DEF IInv, CountIsExact, AllMutatorStopped

\* Hence the check in WaitForAllMutatorsStopped never reports an incorrect
\* state, and it lets the stopper through only when nothing runs.
LEMMA CheckPasses ==
    ASSUME IInv, NEW t \in Threads, StwCheck(t)
    PROVE  \/ Goto(t, "stw_done") /\ Running = {}
           \/ Goto(t, "stw_wait")
<1>1. sr.safe <= sr.pending /\ (AllMutatorStopped(sr) => Running = {})
  BY StopperView DEF StwCheck, PendingPCs
<1>2. sr.safe \in Int /\ sr.pending \in Int
  BY WidthAssumption DEF IInv, TypeOK, Word, Counter
<1>3. ~(sr.pending < sr.safe)
  BY <1>1, <1>2
<1>4. QED
  BY <1>1, <1>3 DEF StwCheck

\* No pending count is visible to a mutator that left the list, nor to a
\* thread that finds the list lock free.
LEMMA NoPendingWhileUnlocked ==
    ASSUME IInv,
           listLock = NoOne \/ \E m \in Mutators : Detaching(m)
    PROVE  /\ sr.pending = 0
           /\ \A t \in Threads : pc[t] \notin ListPCs
<1>1. \A t \in Threads : pc[t] \in ListPCs => listLock = t /\ t # NoOne
  BY ThreadsAssumption DEF IInv, LockInv, Threads
<1>2. \A m \in Mutators : Detaching(m) => listLock = m /\ pc[m] \notin ListPCs
  BY DEF IInv, LockInv, Detaching, ListPCs, PendingPCs, LeavePCs, SlowPCs
<1>3. \A t \in Threads : pc[t] \notin ListPCs
  BY <1>1, <1>2 DEF Threads
<1>4. QED
  BY <1>3 DEF IInv, PendingInv, ListPCs

\* The four atomic increments and decrements change the low counter by the
\* number of mutators entering or leaving, and nothing else of the word.
LEMMA CountingActions ==
    ASSUME IInv, NEW t \in Threads,
           EnterInc(t) \/ SlowInc(t) \/ LeaveDec(t) \/ SlowDec(t)
    PROVE  sr' \in Word /\ sr'.pending = sr.pending /\ CountIsExact'
<1>1. ASSUME EnterInc(t) PROVE sr' \in Word /\ sr'.pending = sr.pending /\ CountIsExact'
  <2>1. t \in Mutators
    BY <1>1 DEF EnterInc, IInv, ControlInv, Threads, StopPCs, StartPCs
  <2>2. PICK p \in {"enter_flag"} : Goto(t, p)
    BY <1>1 DEF EnterInc
  <2>3. p \in CountedPCs /\ pc[t] \notin CountedPCs
    BY <1>1, <2>2 DEF EnterInc, CountedPCs, StopPCs, StartPCs
  <2>4. /\ IncSaferegionCount(sr) = [safe |-> Cardinality(Counted'), pending |-> sr.pending]
        /\ IncSaferegionCount(sr) \in Word
    BY <2>1, <2>2, <2>3, CountUp
  <2>5. QED
    BY <1>1, <2>4 DEF EnterInc, CountIsExact
<1>2. ASSUME SlowInc(t) PROVE sr' \in Word /\ sr'.pending = sr.pending /\ CountIsExact'
  <2>1. t \in Mutators
    BY <1>2 DEF SlowInc, IInv, ControlInv, Threads, StopPCs, StartPCs
  <2>2. PICK p \in {"slow_wake", "slow_wait", "slow_dec"} : Goto(t, p)
    BY <1>2 DEF SlowInc
  <2>3. p \in CountedPCs /\ pc[t] \notin CountedPCs
    BY <1>2, <2>2 DEF SlowInc, CountedPCs, StopPCs, StartPCs
  <2>4. /\ IncSaferegionCount(sr) = [safe |-> Cardinality(Counted'), pending |-> sr.pending]
        /\ IncSaferegionCount(sr) \in Word
    BY <2>1, <2>2, <2>3, CountUp
  <2>5. QED
    BY <1>2, <2>4 DEF SlowInc, CountIsExact
<1>3. ASSUME LeaveDec(t) PROVE sr' \in Word /\ sr'.pending = sr.pending /\ CountIsExact'
  <2>1. t \in Mutators
    BY <1>3 DEF LeaveDec, IInv, ControlInv, Threads, StopPCs, StartPCs
  <2>2. PICK p \in {"slow_inc", "leave_flag"} : Goto(t, p)
    BY <1>3 DEF LeaveDec
  <2>3. p \notin CountedPCs /\ pc[t] \in CountedPCs
    BY <1>3, <2>2 DEF LeaveDec, CountedPCs, StopPCs, StartPCs
  <2>4. /\ DecSaferegionCount(sr) = [safe |-> Cardinality(Counted'), pending |-> sr.pending]
        /\ DecSaferegionCount(sr) \in Word
    BY <2>1, <2>2, <2>3, CountDown
  <2>5. QED
    BY <1>3, <2>4 DEF LeaveDec, CountIsExact
<1>4. ASSUME SlowDec(t) PROVE sr' \in Word /\ sr'.pending = sr.pending /\ CountIsExact'
  <2>1. t \in Mutators
    BY <1>4 DEF SlowDec, IInv, ControlInv, Threads, StopPCs, StartPCs
  <2>2. PICK p \in {"slow_inc", "leave_flag"} : Goto(t, p)
    BY <1>4 DEF SlowDec
  <2>3. p \notin CountedPCs /\ pc[t] \in CountedPCs
    BY <1>4, <2>2 DEF SlowDec, CountedPCs, StopPCs, StartPCs
  <2>4. /\ DecSaferegionCount(sr) = [safe |-> Cardinality(Counted'), pending |-> sr.pending]
        /\ DecSaferegionCount(sr) \in Word
    BY <2>1, <2>2, <2>3, CountDown
  <2>5. QED
    BY <1>4, <2>4 DEF SlowDec, CountIsExact
<1>5. QED
  BY <1>1, <1>2, <1>3, <1>4

-----------------------------------------------------------------------------
(* One lemma per conjunct of the invariant.                                *)

\* Which thread can be where, with which return point and flag.
LEMMA ControlStep ==
    ASSUME IInv, [Next]_vars
    PROVE  ControlInv'
<1>0. TypeOK /\ ControlInv /\ NeverFatal /\ DetachNotInterrupted
  BY DEF IInv
<1> USE ThreadsAssumption, <1>0
    DEF Threads, TypeOK, Goto, Call, Return, locks, waits, stwVars, PCs,
        EnterPCs, SlowPCs, LeavePCs, StopPCs, StartPCs, HomePCs,
        ControlInv, NeverFatal, DetachNotInterrupted, Detaching,
        OutsidePCs
<1>1. ASSUME NEW t \in Threads, EnterInc(t) PROVE ControlInv'
  BY <1>1 DEF EnterInc
<1>2. ASSUME NEW t \in Threads, EnterFlag(t) PROVE ControlInv'
  BY <1>2 DEF EnterFlag
<1>3. ASSUME NEW t \in Threads, EnterWake(t) PROVE ControlInv'
  BY <1>3 DEF EnterWake
<1>4. ASSUME NEW t \in Threads, LeaveDec(t) PROVE ControlInv'
  BY <1>4 DEF LeaveDec
<1>5. ASSUME NEW t \in Threads, LeaveFlag(t) PROVE ControlInv'
  BY <1>5 DEF LeaveFlag
<1>6. ASSUME NEW t \in Threads, SlowInc(t) PROVE ControlInv'
  BY <1>6 DEF SlowInc
<1>7. ASSUME NEW t \in Threads, SlowWake(t) PROVE ControlInv'
  BY <1>7 DEF SlowWake
<1>8. ASSUME NEW t \in Threads, SlowWait(t) PROVE ControlInv'
  BY <1>8 DEF SlowWait
<1>9. ASSUME NEW t \in Threads, SlowWoken(t) PROVE ControlInv'
  BY <1>9 DEF SlowWoken
<1>10. ASSUME NEW t \in Threads, SlowDec(t) PROVE ControlInv'
  BY <1>10 DEF SlowDec
<1>11. ASSUME NEW t \in Threads, Yieldpoint(t) PROVE ControlInv'
  BY <1>11 DEF Yieldpoint
<1>12. ASSUME NEW t \in Threads, RemoveMutator(t) PROVE ControlInv'
  BY <1>12 DEF RemoveMutator
<1>13. ASSUME NEW t \in Threads, DetachUnlock(t) PROVE ControlInv'
  BY <1>13 DEF DetachUnlock
<1>14. ASSUME NEW t \in Threads, StwLock(t) PROVE ControlInv'
  BY <1>14 DEF StwLock
<1>15. ASSUME NEW t \in Threads, TryAcquireThreadListLock(t) PROVE ControlInv'
  BY <1>15 DEF TryAcquireThreadListLock
<1>16. ASSUME NEW t \in Threads, StwTryLock(t) PROVE ControlInv'
  BY <1>16 DEF StwTryLock
<1>17. ASSUME NEW t \in Threads, StwSetPending(t) PROVE ControlInv'
  BY <1>17 DEF StwSetPending
<1>18. ASSUME NEW t \in Threads, SetPollingPageUnreadable(t) PROVE ControlInv'
  BY <1>18 DEF SetPollingPageUnreadable
<1>19. ASSUME NEW t \in Threads, StwCheck(t) PROVE ControlInv'
  <2>1. \/ Goto(t, "stw_done") /\ Running = {}
        \/ Goto(t, "stw_wait")
    BY <1>19, CheckPasses
  <2>2. QED
    BY <1>19, <2>1 DEF StwCheck
<1>20. ASSUME NEW t \in Threads, StwWait(t) PROVE ControlInv'
  BY <1>20 DEF StwWait
<1>21. ASSUME NEW t \in Threads, StwWoken(t) PROVE ControlInv'
  BY <1>21 DEF StwWoken
<1>22. ASSUME NEW t \in Threads, StwStopped(t) PROVE ControlInv'
  BY <1>22 DEF StwStopped
<1>23. ASSUME NEW t \in Threads, StartTheWorld(t) PROVE ControlInv'
  BY <1>23 DEF StartTheWorld
<1>24. ASSUME NEW t \in Threads, SetPollingPageReadable(t) PROVE ControlInv'
  BY <1>24 DEF SetPollingPageReadable
<1>25. ASSUME NEW t \in Threads, StartClearPending(t) PROVE ControlInv'
  BY <1>25 DEF StartClearPending
<1>26. ASSUME NEW t \in Threads, StartWake(t) PROVE ControlInv'
  BY <1>26 DEF StartWake
<1>27. ASSUME NEW t \in Threads, StartUnlockList(t) PROVE ControlInv'
  BY <1>27 DEF StartUnlockList
<1>28. ASSUME NEW t \in Threads, ReleaseThreadListLock(t) PROVE ControlInv'
  BY <1>28 DEF ReleaseThreadListLock
<1>29. ASSUME NEW t \in Threads, StartUnlockStw(t) PROVE ControlInv'
  BY <1>29 DEF StartUnlockStw
<1>30. ASSUME NEW t \in Threads, InitYieldpoint(t) PROVE ControlInv'
  BY <1>30 DEF InitYieldpoint
<1>31. ASSUME NEW t \in Threads, FiniYieldpoint(t) PROVE ControlInv'
  BY <1>31 DEF FiniYieldpoint
<1>32. ASSUME NEW t \in Threads, EnterSaferegion(t) PROVE ControlInv'
  BY <1>32 DEF EnterSaferegion
<1>33. ASSUME NEW t \in Threads, LeaveSaferegion(t) PROVE ControlInv'
  BY <1>33 DEF LeaveSaferegion
<1>34. ASSUME NEW t \in Threads, StopTheWorld(t) PROVE ControlInv'
  BY <1>34 DEF StopTheWorld
<1>35. ASSUME NEW t \in Threads, LockStopTheWorld(t) PROVE ControlInv'
  BY <1>35 DEF LockStopTheWorld
<1>36. ASSUME NEW t \in Threads, UnlockStopTheWorld(t) PROVE ControlInv'
  BY <1>36 DEF UnlockStopTheWorld
<1>37. ASSUME NEW t \in Threads, FutexInterrupt(t) PROVE ControlInv'
  BY <1>37 DEF FutexInterrupt
<1>38. ASSUME RuntimeLock \/ RuntimeUnlock PROVE ControlInv'
  BY <1>38 DEF RuntimeLock, RuntimeUnlock
<1>39. ASSUME UNCHANGED vars PROVE ControlInv'
  BY <1>39 DEF vars
<1>40. QED
  BY <1>1, <1>2, <1>3, <1>4, <1>5, <1>6, <1>7, <1>8, <1>9, <1>10,
        <1>11, <1>12, <1>13, <1>14, <1>15, <1>16, <1>17, <1>18, <1>19,
        <1>20, <1>21, <1>22, <1>23, <1>24, <1>25, <1>26, <1>27, <1>28,
        <1>29, <1>30, <1>31, <1>32, <1>33, <1>34, <1>35, <1>36, <1>37,
        <1>38, <1>39
  DEF Next, Progress, Choice

\* No thread reaches the LOG(FATAL) of WaitForAllMutatorsStopped.
LEMMA NeverFatalStep ==
    ASSUME IInv, [Next]_vars
    PROVE  NeverFatal'
<1>0. TypeOK /\ ControlInv /\ NeverFatal
  BY DEF IInv
<1> USE ThreadsAssumption, <1>0
    DEF Threads, TypeOK, Goto, Call, Return, locks, waits, stwVars, PCs,
        EnterPCs, SlowPCs, LeavePCs, StopPCs, StartPCs, HomePCs,
        ControlInv, NeverFatal
<1>1. ASSUME NEW t \in Threads, EnterInc(t) PROVE NeverFatal'
  BY <1>1 DEF EnterInc
<1>2. ASSUME NEW t \in Threads, EnterFlag(t) PROVE NeverFatal'
  BY <1>2 DEF EnterFlag
<1>3. ASSUME NEW t \in Threads, EnterWake(t) PROVE NeverFatal'
  BY <1>3 DEF EnterWake
<1>4. ASSUME NEW t \in Threads, LeaveDec(t) PROVE NeverFatal'
  BY <1>4 DEF LeaveDec
<1>5. ASSUME NEW t \in Threads, LeaveFlag(t) PROVE NeverFatal'
  BY <1>5 DEF LeaveFlag
<1>6. ASSUME NEW t \in Threads, SlowInc(t) PROVE NeverFatal'
  BY <1>6 DEF SlowInc
<1>7. ASSUME NEW t \in Threads, SlowWake(t) PROVE NeverFatal'
  BY <1>7 DEF SlowWake
<1>8. ASSUME NEW t \in Threads, SlowWait(t) PROVE NeverFatal'
  BY <1>8 DEF SlowWait
<1>9. ASSUME NEW t \in Threads, SlowWoken(t) PROVE NeverFatal'
  BY <1>9 DEF SlowWoken
<1>10. ASSUME NEW t \in Threads, SlowDec(t) PROVE NeverFatal'
  BY <1>10 DEF SlowDec
<1>11. ASSUME NEW t \in Threads, Yieldpoint(t) PROVE NeverFatal'
  BY <1>11 DEF Yieldpoint
<1>12. ASSUME NEW t \in Threads, RemoveMutator(t) PROVE NeverFatal'
  BY <1>12 DEF RemoveMutator
<1>13. ASSUME NEW t \in Threads, DetachUnlock(t) PROVE NeverFatal'
  BY <1>13 DEF DetachUnlock
<1>14. ASSUME NEW t \in Threads, StwLock(t) PROVE NeverFatal'
  BY <1>14 DEF StwLock
<1>15. ASSUME NEW t \in Threads, TryAcquireThreadListLock(t) PROVE NeverFatal'
  BY <1>15 DEF TryAcquireThreadListLock
<1>16. ASSUME NEW t \in Threads, StwTryLock(t) PROVE NeverFatal'
  BY <1>16 DEF StwTryLock
<1>17. ASSUME NEW t \in Threads, StwSetPending(t) PROVE NeverFatal'
  BY <1>17 DEF StwSetPending
<1>18. ASSUME NEW t \in Threads, SetPollingPageUnreadable(t) PROVE NeverFatal'
  BY <1>18 DEF SetPollingPageUnreadable
<1>19. ASSUME NEW t \in Threads, StwCheck(t) PROVE NeverFatal'
  <2>1. \/ Goto(t, "stw_done") /\ Running = {}
        \/ Goto(t, "stw_wait")
    BY <1>19, CheckPasses
  <2>2. QED
    BY <1>19, <2>1 DEF StwCheck
<1>20. ASSUME NEW t \in Threads, StwWait(t) PROVE NeverFatal'
  BY <1>20 DEF StwWait
<1>21. ASSUME NEW t \in Threads, StwWoken(t) PROVE NeverFatal'
  BY <1>21 DEF StwWoken
<1>22. ASSUME NEW t \in Threads, StwStopped(t) PROVE NeverFatal'
  BY <1>22 DEF StwStopped
<1>23. ASSUME NEW t \in Threads, StartTheWorld(t) PROVE NeverFatal'
  BY <1>23 DEF StartTheWorld
<1>24. ASSUME NEW t \in Threads, SetPollingPageReadable(t) PROVE NeverFatal'
  BY <1>24 DEF SetPollingPageReadable
<1>25. ASSUME NEW t \in Threads, StartClearPending(t) PROVE NeverFatal'
  BY <1>25 DEF StartClearPending
<1>26. ASSUME NEW t \in Threads, StartWake(t) PROVE NeverFatal'
  BY <1>26 DEF StartWake
<1>27. ASSUME NEW t \in Threads, StartUnlockList(t) PROVE NeverFatal'
  BY <1>27 DEF StartUnlockList
<1>28. ASSUME NEW t \in Threads, ReleaseThreadListLock(t) PROVE NeverFatal'
  BY <1>28 DEF ReleaseThreadListLock
<1>29. ASSUME NEW t \in Threads, StartUnlockStw(t) PROVE NeverFatal'
  BY <1>29 DEF StartUnlockStw
<1>30. ASSUME NEW t \in Threads, InitYieldpoint(t) PROVE NeverFatal'
  BY <1>30 DEF InitYieldpoint
<1>31. ASSUME NEW t \in Threads, FiniYieldpoint(t) PROVE NeverFatal'
  BY <1>31 DEF FiniYieldpoint
<1>32. ASSUME NEW t \in Threads, EnterSaferegion(t) PROVE NeverFatal'
  BY <1>32 DEF EnterSaferegion
<1>33. ASSUME NEW t \in Threads, LeaveSaferegion(t) PROVE NeverFatal'
  BY <1>33 DEF LeaveSaferegion
<1>34. ASSUME NEW t \in Threads, StopTheWorld(t) PROVE NeverFatal'
  BY <1>34 DEF StopTheWorld
<1>35. ASSUME NEW t \in Threads, LockStopTheWorld(t) PROVE NeverFatal'
  BY <1>35 DEF LockStopTheWorld
<1>36. ASSUME NEW t \in Threads, UnlockStopTheWorld(t) PROVE NeverFatal'
  BY <1>36 DEF UnlockStopTheWorld
<1>37. ASSUME NEW t \in Threads, FutexInterrupt(t) PROVE NeverFatal'
  BY <1>37 DEF FutexInterrupt
<1>38. ASSUME RuntimeLock \/ RuntimeUnlock PROVE NeverFatal'
  BY <1>38 DEF RuntimeLock, RuntimeUnlock
<1>39. ASSUME UNCHANGED vars PROVE NeverFatal'
  BY <1>39 DEF vars
<1>40. QED
  BY <1>1, <1>2, <1>3, <1>4, <1>5, <1>6, <1>7, <1>8, <1>9, <1>10,
        <1>11, <1>12, <1>13, <1>14, <1>15, <1>16, <1>17, <1>18, <1>19,
        <1>20, <1>21, <1>22, <1>23, <1>24, <1>25, <1>26, <1>27, <1>28,
        <1>29, <1>30, <1>31, <1>32, <1>33, <1>34, <1>35, <1>36, <1>37,
        <1>38, <1>39
  DEF Next, Progress, Choice

\* Who holds the list lock and stwMutex.
LEMMA LockStep ==
    ASSUME IInv, [Next]_vars
    PROVE  LockInv'
<1>0. TypeOK /\ ControlInv /\ LockInv
  BY DEF IInv
<1> USE ThreadsAssumption, <1>0
    DEF Threads, TypeOK, Goto, Call, Return, locks, waits, stwVars, PCs,
        EnterPCs, SlowPCs, LeavePCs, StopPCs, StartPCs, HomePCs,
        ControlInv, LockInv, ListPCs, PendingPCs, StwPCs, Detaching
<1>1. ASSUME NEW t \in Threads, EnterInc(t) PROVE LockInv'
  BY <1>1 DEF EnterInc
<1>2. ASSUME NEW t \in Threads, EnterFlag(t) PROVE LockInv'
  BY <1>2 DEF EnterFlag
<1>3. ASSUME NEW t \in Threads, EnterWake(t) PROVE LockInv'
  BY <1>3 DEF EnterWake
<1>4. ASSUME NEW t \in Threads, LeaveDec(t) PROVE LockInv'
  BY <1>4 DEF LeaveDec
<1>5. ASSUME NEW t \in Threads, LeaveFlag(t) PROVE LockInv'
  BY <1>5 DEF LeaveFlag
<1>6. ASSUME NEW t \in Threads, SlowInc(t) PROVE LockInv'
  BY <1>6 DEF SlowInc
<1>7. ASSUME NEW t \in Threads, SlowWake(t) PROVE LockInv'
  BY <1>7 DEF SlowWake
<1>8. ASSUME NEW t \in Threads, SlowWait(t) PROVE LockInv'
  BY <1>8 DEF SlowWait
<1>9. ASSUME NEW t \in Threads, SlowWoken(t) PROVE LockInv'
  BY <1>9 DEF SlowWoken
<1>10. ASSUME NEW t \in Threads, SlowDec(t) PROVE LockInv'
  BY <1>10 DEF SlowDec
<1>11. ASSUME NEW t \in Threads, Yieldpoint(t) PROVE LockInv'
  BY <1>11 DEF Yieldpoint
<1>12. ASSUME NEW t \in Threads, RemoveMutator(t) PROVE LockInv'
  BY <1>12 DEF RemoveMutator
<1>13. ASSUME NEW t \in Threads, DetachUnlock(t) PROVE LockInv'
  BY <1>13 DEF DetachUnlock
<1>14. ASSUME NEW t \in Threads, StwLock(t) PROVE LockInv'
  BY <1>14 DEF StwLock
<1>15. ASSUME NEW t \in Threads, TryAcquireThreadListLock(t) PROVE LockInv'
  BY <1>15 DEF TryAcquireThreadListLock
<1>16. ASSUME NEW t \in Threads, StwTryLock(t) PROVE LockInv'
  BY <1>16 DEF StwTryLock
<1>17. ASSUME NEW t \in Threads, StwSetPending(t) PROVE LockInv'
  BY <1>17 DEF StwSetPending
<1>18. ASSUME NEW t \in Threads, SetPollingPageUnreadable(t) PROVE LockInv'
  BY <1>18 DEF SetPollingPageUnreadable
<1>19. ASSUME NEW t \in Threads, StwCheck(t) PROVE LockInv'
  <2>1. \/ Goto(t, "stw_done") /\ Running = {}
        \/ Goto(t, "stw_wait")
    BY <1>19, CheckPasses
  <2>2. QED
    BY <1>19, <2>1 DEF StwCheck
<1>20. ASSUME NEW t \in Threads, StwWait(t) PROVE LockInv'
  BY <1>20 DEF StwWait
<1>21. ASSUME NEW t \in Threads, StwWoken(t) PROVE LockInv'
  BY <1>21 DEF StwWoken
<1>22. ASSUME NEW t \in Threads, StwStopped(t) PROVE LockInv'
  BY <1>22 DEF StwStopped
<1>23. ASSUME NEW t \in Threads, StartTheWorld(t) PROVE LockInv'
  BY <1>23 DEF StartTheWorld
<1>24. ASSUME NEW t \in Threads, SetPollingPageReadable(t) PROVE LockInv'
  BY <1>24 DEF SetPollingPageReadable
<1>25. ASSUME NEW t \in Threads, StartClearPending(t) PROVE LockInv'
  BY <1>25 DEF StartClearPending
<1>26. ASSUME NEW t \in Threads, StartWake(t) PROVE LockInv'
  BY <1>26 DEF StartWake
<1>27. ASSUME NEW t \in Threads, StartUnlockList(t) PROVE LockInv'
  BY <1>27 DEF StartUnlockList
<1>28. ASSUME NEW t \in Threads, ReleaseThreadListLock(t) PROVE LockInv'
  BY <1>28 DEF ReleaseThreadListLock
<1>29. ASSUME NEW t \in Threads, StartUnlockStw(t) PROVE LockInv'
  BY <1>29 DEF StartUnlockStw
<1>30. ASSUME NEW t \in Threads, InitYieldpoint(t) PROVE LockInv'
  BY <1>30 DEF InitYieldpoint
<1>31. ASSUME NEW t \in Threads, FiniYieldpoint(t) PROVE LockInv'
  BY <1>31 DEF FiniYieldpoint
<1>32. ASSUME NEW t \in Threads, EnterSaferegion(t) PROVE LockInv'
  BY <1>32 DEF EnterSaferegion
<1>33. ASSUME NEW t \in Threads, LeaveSaferegion(t) PROVE LockInv'
  BY <1>33 DEF LeaveSaferegion
<1>34. ASSUME NEW t \in Threads, StopTheWorld(t) PROVE LockInv'
  BY <1>34 DEF StopTheWorld
<1>35. ASSUME NEW t \in Threads, LockStopTheWorld(t) PROVE LockInv'
  BY <1>35 DEF LockStopTheWorld
<1>36. ASSUME NEW t \in Threads, UnlockStopTheWorld(t) PROVE LockInv'
  BY <1>36 DEF UnlockStopTheWorld
<1>37. ASSUME NEW t \in Threads, FutexInterrupt(t) PROVE LockInv'
  BY <1>37 DEF FutexInterrupt
<1>38. ASSUME RuntimeLock \/ RuntimeUnlock PROVE LockInv'
  BY <1>38 DEF RuntimeLock, RuntimeUnlock
<1>39. ASSUME UNCHANGED vars PROVE LockInv'
  BY <1>39 DEF vars
<1>40. QED
  BY <1>1, <1>2, <1>3, <1>4, <1>5, <1>6, <1>7, <1>8, <1>9, <1>10,
        <1>11, <1>12, <1>13, <1>14, <1>15, <1>16, <1>17, <1>18, <1>19,
        <1>20, <1>21, <1>22, <1>23, <1>24, <1>25, <1>26, <1>27, <1>28,
        <1>29, <1>30, <1>31, <1>32, <1>33, <1>34, <1>35, <1>36, <1>37,
        <1>38, <1>39
  DEF Next, Progress, Choice

\* Every step keeps the low counter equal to the number of counted mutators.
LEMMA CountStep ==
    ASSUME IInv, [Next]_vars
    PROVE  CountIsExact'
<1>0. TypeOK /\ ControlInv /\ CountIsExact
  BY DEF IInv
<1> USE ThreadsAssumption, <1>0
    DEF Threads, TypeOK, Goto, Call, Return, locks, waits, stwVars, PCs,
        EnterPCs, SlowPCs, LeavePCs, StopPCs, StartPCs, HomePCs,
        ControlInv, CountedPCs, Counted, OutsidePCs, Detaching,
        SetPendingCount, Word
<1>1. ASSUME NEW t \in Threads, EnterInc(t) PROVE CountIsExact'
  BY <1>1, CountingActions
<1>2. ASSUME NEW t \in Threads, EnterFlag(t) PROVE Counted' = Counted /\ sr'.safe = sr.safe
  BY <1>2 DEF EnterFlag
<1>3. ASSUME NEW t \in Threads, EnterWake(t) PROVE Counted' = Counted /\ sr'.safe = sr.safe
  BY <1>3 DEF EnterWake
<1>4. ASSUME NEW t \in Threads, LeaveDec(t) PROVE CountIsExact'
  BY <1>4, CountingActions
<1>5. ASSUME NEW t \in Threads, LeaveFlag(t) PROVE Counted' = Counted /\ sr'.safe = sr.safe
  BY <1>5 DEF LeaveFlag
<1>6. ASSUME NEW t \in Threads, SlowInc(t) PROVE CountIsExact'
  BY <1>6, CountingActions
<1>7. ASSUME NEW t \in Threads, SlowWake(t) PROVE Counted' = Counted /\ sr'.safe = sr.safe
  BY <1>7 DEF SlowWake
<1>8. ASSUME NEW t \in Threads, SlowWait(t) PROVE Counted' = Counted /\ sr'.safe = sr.safe
  BY <1>8 DEF SlowWait
<1>9. ASSUME NEW t \in Threads, SlowWoken(t) PROVE Counted' = Counted /\ sr'.safe = sr.safe
  BY <1>9 DEF SlowWoken
<1>10. ASSUME NEW t \in Threads, SlowDec(t) PROVE CountIsExact'
  BY <1>10, CountingActions
<1>11. ASSUME NEW t \in Threads, Yieldpoint(t) PROVE Counted' = Counted /\ sr'.safe = sr.safe
  BY <1>11 DEF Yieldpoint
<1>12. ASSUME NEW t \in Threads, RemoveMutator(t) PROVE Counted' = Counted /\ sr'.safe = sr.safe
  BY <1>12 DEF RemoveMutator
<1>13. ASSUME NEW t \in Threads, DetachUnlock(t) PROVE Counted' = Counted /\ sr'.safe = sr.safe
  BY <1>13 DEF DetachUnlock
<1>14. ASSUME NEW t \in Threads, StwLock(t) PROVE Counted' = Counted /\ sr'.safe = sr.safe
  BY <1>14 DEF StwLock
<1>15. ASSUME NEW t \in Threads, TryAcquireThreadListLock(t) PROVE Counted' = Counted /\ sr'.safe = sr.safe
  BY <1>15 DEF TryAcquireThreadListLock
<1>16. ASSUME NEW t \in Threads, StwTryLock(t) PROVE Counted' = Counted /\ sr'.safe = sr.safe
  BY <1>16 DEF StwTryLock
<1>17. ASSUME NEW t \in Threads, StwSetPending(t) PROVE Counted' = Counted /\ sr'.safe = sr.safe
  BY <1>17 DEF StwSetPending
<1>18. ASSUME NEW t \in Threads, SetPollingPageUnreadable(t) PROVE Counted' = Counted /\ sr'.safe = sr.safe
  BY <1>18 DEF SetPollingPageUnreadable
<1>19. ASSUME NEW t \in Threads, StwCheck(t) PROVE Counted' = Counted /\ sr'.safe = sr.safe
  <2>1. \/ Goto(t, "stw_done") /\ Running = {}
        \/ Goto(t, "stw_wait")
    BY <1>19, CheckPasses
  <2>2. QED
    BY <1>19, <2>1 DEF StwCheck
<1>20. ASSUME NEW t \in Threads, StwWait(t) PROVE Counted' = Counted /\ sr'.safe = sr.safe
  BY <1>20 DEF StwWait
<1>21. ASSUME NEW t \in Threads, StwWoken(t) PROVE Counted' = Counted /\ sr'.safe = sr.safe
  BY <1>21 DEF StwWoken
<1>22. ASSUME NEW t \in Threads, StwStopped(t) PROVE Counted' = Counted /\ sr'.safe = sr.safe
  BY <1>22 DEF StwStopped
<1>23. ASSUME NEW t \in Threads, StartTheWorld(t) PROVE Counted' = Counted /\ sr'.safe = sr.safe
  BY <1>23 DEF StartTheWorld
<1>24. ASSUME NEW t \in Threads, SetPollingPageReadable(t) PROVE Counted' = Counted /\ sr'.safe = sr.safe
  BY <1>24 DEF SetPollingPageReadable
<1>25. ASSUME NEW t \in Threads, StartClearPending(t) PROVE Counted' = Counted /\ sr'.safe = sr.safe
  BY <1>25 DEF StartClearPending
<1>26. ASSUME NEW t \in Threads, StartWake(t) PROVE Counted' = Counted /\ sr'.safe = sr.safe
  BY <1>26 DEF StartWake
<1>27. ASSUME NEW t \in Threads, StartUnlockList(t) PROVE Counted' = Counted /\ sr'.safe = sr.safe
  BY <1>27 DEF StartUnlockList
<1>28. ASSUME NEW t \in Threads, ReleaseThreadListLock(t) PROVE Counted' = Counted /\ sr'.safe = sr.safe
  BY <1>28 DEF ReleaseThreadListLock
<1>29. ASSUME NEW t \in Threads, StartUnlockStw(t) PROVE Counted' = Counted /\ sr'.safe = sr.safe
  BY <1>29 DEF StartUnlockStw
<1>30. ASSUME NEW t \in Threads, InitYieldpoint(t) PROVE Counted' = Counted /\ sr'.safe = sr.safe
  BY <1>30 DEF InitYieldpoint
<1>31. ASSUME NEW t \in Threads, FiniYieldpoint(t) PROVE Counted' = Counted /\ sr'.safe = sr.safe
  BY <1>31 DEF FiniYieldpoint
<1>32. ASSUME NEW t \in Threads, EnterSaferegion(t) PROVE Counted' = Counted /\ sr'.safe = sr.safe
  BY <1>32 DEF EnterSaferegion
<1>33. ASSUME NEW t \in Threads, LeaveSaferegion(t) PROVE Counted' = Counted /\ sr'.safe = sr.safe
  BY <1>33 DEF LeaveSaferegion
<1>34. ASSUME NEW t \in Threads, StopTheWorld(t) PROVE Counted' = Counted /\ sr'.safe = sr.safe
  BY <1>34 DEF StopTheWorld
<1>35. ASSUME NEW t \in Threads, LockStopTheWorld(t) PROVE Counted' = Counted /\ sr'.safe = sr.safe
  BY <1>35 DEF LockStopTheWorld
<1>36. ASSUME NEW t \in Threads, UnlockStopTheWorld(t) PROVE Counted' = Counted /\ sr'.safe = sr.safe
  BY <1>36 DEF UnlockStopTheWorld
<1>37. ASSUME NEW t \in Threads, FutexInterrupt(t) PROVE Counted' = Counted /\ sr'.safe = sr.safe
  BY <1>37 DEF FutexInterrupt
<1>38. ASSUME RuntimeLock \/ RuntimeUnlock PROVE Counted' = Counted /\ sr'.safe = sr.safe
  BY <1>38 DEF RuntimeLock, RuntimeUnlock
<1>39. ASSUME UNCHANGED vars PROVE Counted' = Counted /\ sr'.safe = sr.safe
  BY <1>39 DEF vars
<1>40. Counted' = Counted /\ sr'.safe = sr.safe => CountIsExact'
  BY DEF CountIsExact
<1>41. QED
  BY <1>1, <1>2, <1>3, <1>4, <1>5, <1>6, <1>7, <1>8, <1>9, <1>10,
        <1>11, <1>12, <1>13, <1>14, <1>15, <1>16, <1>17, <1>18, <1>19,
        <1>20, <1>21, <1>22, <1>23, <1>24, <1>25, <1>26, <1>27, <1>28,
        <1>29, <1>30, <1>31, <1>32, <1>33, <1>34, <1>35, <1>36, <1>37,
        <1>38, <1>39, <1>40
  DEF Next, Progress, Choice

\* The pending count is the length of the list while a stop is in progress,
\* and zero otherwise.
LEMMA PendingStep ==
    ASSUME IInv, [Next]_vars
    PROVE  PendingInv'
<1>0. TypeOK /\ ControlInv /\ LockInv /\ PendingInv
  BY DEF IInv
<1> USE ThreadsAssumption, <1>0
    DEF Threads, TypeOK, Goto, Call, Return, locks, waits, stwVars, PCs,
        EnterPCs, SlowPCs, LeavePCs, StopPCs, StartPCs, HomePCs,
        ControlInv, LockInv, PendingInv, PendingPCs, ListPCs,
        SetPendingCount, Word
<1>1. ASSUME NEW t \in Threads, EnterInc(t) PROVE PendingInv'
  <2>1. sr'.pending = sr.pending
    BY <1>1, CountingActions
  <2>2. QED
    BY <1>1, <2>1 DEF EnterInc
<1>2. ASSUME NEW t \in Threads, EnterFlag(t) PROVE PendingInv'
  BY <1>2 DEF EnterFlag
<1>3. ASSUME NEW t \in Threads, EnterWake(t) PROVE PendingInv'
  BY <1>3 DEF EnterWake
<1>4. ASSUME NEW t \in Threads, LeaveDec(t) PROVE PendingInv'
  <2>1. sr'.pending = sr.pending
    BY <1>4, CountingActions
  <2>2. QED
    BY <1>4, <2>1 DEF LeaveDec
<1>5. ASSUME NEW t \in Threads, LeaveFlag(t) PROVE PendingInv'
  BY <1>5 DEF LeaveFlag
<1>6. ASSUME NEW t \in Threads, SlowInc(t) PROVE PendingInv'
  <2>1. sr'.pending = sr.pending
    BY <1>6, CountingActions
  <2>2. QED
    BY <1>6, <2>1 DEF SlowInc
<1>7. ASSUME NEW t \in Threads, SlowWake(t) PROVE PendingInv'
  BY <1>7 DEF SlowWake
<1>8. ASSUME NEW t \in Threads, SlowWait(t) PROVE PendingInv'
  BY <1>8 DEF SlowWait
<1>9. ASSUME NEW t \in Threads, SlowWoken(t) PROVE PendingInv'
  BY <1>9 DEF SlowWoken
<1>10. ASSUME NEW t \in Threads, SlowDec(t) PROVE PendingInv'
  <2>1. sr'.pending = sr.pending
    BY <1>10, CountingActions
  <2>2. QED
    BY <1>10, <2>1 DEF SlowDec
<1>11. ASSUME NEW t \in Threads, Yieldpoint(t) PROVE PendingInv'
  BY <1>11 DEF Yieldpoint
<1>12. ASSUME NEW t \in Threads, RemoveMutator(t) PROVE PendingInv'
  <2>1. sr.pending = 0 /\ \A u \in Threads : pc[u] \notin ListPCs
    BY <1>12, NoPendingWhileUnlocked DEF RemoveMutator
  <2>2. QED
    BY <1>12, <2>1 DEF RemoveMutator
<1>13. ASSUME NEW t \in Threads, DetachUnlock(t) PROVE PendingInv'
  BY <1>13 DEF DetachUnlock
<1>14. ASSUME NEW t \in Threads, StwLock(t) PROVE PendingInv'
  BY <1>14 DEF StwLock
<1>15. ASSUME NEW t \in Threads, TryAcquireThreadListLock(t) PROVE PendingInv'
  BY <1>15 DEF TryAcquireThreadListLock
<1>16. ASSUME NEW t \in Threads, StwTryLock(t) PROVE PendingInv'
  <2>1. sr.pending = 0 /\ \A u \in Threads : pc[u] \notin ListPCs
    BY <1>16, NoPendingWhileUnlocked DEF StwTryLock
  <2>2. QED
    BY <1>16, <2>1 DEF StwTryLock
<1>17. ASSUME NEW t \in Threads, StwSetPending(t) PROVE PendingInv'
  BY <1>17 DEF StwSetPending
<1>18. ASSUME NEW t \in Threads, SetPollingPageUnreadable(t) PROVE PendingInv'
  BY <1>18 DEF SetPollingPageUnreadable
<1>19. ASSUME NEW t \in Threads, StwCheck(t) PROVE PendingInv'
  <2>1. \/ Goto(t, "stw_done") /\ Running = {}
        \/ Goto(t, "stw_wait")
    BY <1>19, CheckPasses
  <2>2. QED
    BY <1>19, <2>1 DEF StwCheck
<1>20. ASSUME NEW t \in Threads, StwWait(t) PROVE PendingInv'
  BY <1>20 DEF StwWait
<1>21. ASSUME NEW t \in Threads, StwWoken(t) PROVE PendingInv'
  BY <1>21 DEF StwWoken
<1>22. ASSUME NEW t \in Threads, StwStopped(t) PROVE PendingInv'
  BY <1>22 DEF StwStopped
<1>23. ASSUME NEW t \in Threads, StartTheWorld(t) PROVE PendingInv'
  BY <1>23 DEF StartTheWorld
<1>24. ASSUME NEW t \in Threads, SetPollingPageReadable(t) PROVE PendingInv'
  BY <1>24 DEF SetPollingPageReadable
<1>25. ASSUME NEW t \in Threads, StartClearPending(t) PROVE PendingInv'
  BY <1>25 DEF StartClearPending
<1>26. ASSUME NEW t \in Threads, StartWake(t) PROVE PendingInv'
  BY <1>26 DEF StartWake
<1>27. ASSUME NEW t \in Threads, StartUnlockList(t) PROVE PendingInv'
  BY <1>27 DEF StartUnlockList
<1>28. ASSUME NEW t \in Threads, ReleaseThreadListLock(t) PROVE PendingInv'
  BY <1>28 DEF ReleaseThreadListLock
<1>29. ASSUME NEW t \in Threads, StartUnlockStw(t) PROVE PendingInv'
  BY <1>29 DEF StartUnlockStw
<1>30. ASSUME NEW t \in Threads, InitYieldpoint(t) PROVE PendingInv'
  <2>1. sr.pending = 0 /\ \A u \in Threads : pc[u] \notin ListPCs
    BY <1>30, NoPendingWhileUnlocked DEF InitYieldpoint
  <2>2. QED
    BY <1>30, <2>1 DEF InitYieldpoint
<1>31. ASSUME NEW t \in Threads, FiniYieldpoint(t) PROVE PendingInv'
  BY <1>31 DEF FiniYieldpoint
<1>32. ASSUME NEW t \in Threads, EnterSaferegion(t) PROVE PendingInv'
  BY <1>32 DEF EnterSaferegion
<1>33. ASSUME NEW t \in Threads, LeaveSaferegion(t) PROVE PendingInv'
  BY <1>33 DEF LeaveSaferegion
<1>34. ASSUME NEW t \in Threads, StopTheWorld(t) PROVE PendingInv'
  BY <1>34 DEF StopTheWorld
<1>35. ASSUME NEW t \in Threads, LockStopTheWorld(t) PROVE PendingInv'
  BY <1>35 DEF LockStopTheWorld
<1>36. ASSUME NEW t \in Threads, UnlockStopTheWorld(t) PROVE PendingInv'
  BY <1>36 DEF UnlockStopTheWorld
<1>37. ASSUME NEW t \in Threads, FutexInterrupt(t) PROVE PendingInv'
  BY <1>37 DEF FutexInterrupt
<1>38. ASSUME RuntimeLock \/ RuntimeUnlock PROVE PendingInv'
  BY <1>38 DEF RuntimeLock, RuntimeUnlock
<1>39. ASSUME UNCHANGED vars PROVE PendingInv'
  BY <1>39 DEF vars
<1>40. QED
  BY <1>1, <1>2, <1>3, <1>4, <1>5, <1>6, <1>7, <1>8, <1>9, <1>10,
        <1>11, <1>12, <1>13, <1>14, <1>15, <1>16, <1>17, <1>18, <1>19,
        <1>20, <1>21, <1>22, <1>23, <1>24, <1>25, <1>26, <1>27, <1>28,
        <1>29, <1>30, <1>31, <1>32, <1>33, <1>34, <1>35, <1>36, <1>37,
        <1>38, <1>39
  DEF Next, Progress, Choice

\* A mutator that left the list is never sent to the slow path.
LEMMA DetachStep ==
    ASSUME IInv, [Next]_vars
    PROVE  DetachNotInterrupted'
<1>0. TypeOK /\ ControlInv /\ LockInv /\ DetachNotInterrupted
  BY DEF IInv
<1> USE ThreadsAssumption, <1>0
    DEF Threads, TypeOK, Goto, Call, Return, locks, waits, stwVars, PCs,
        EnterPCs, SlowPCs, LeavePCs, StopPCs, StartPCs, HomePCs,
        ControlInv, LockInv, DetachNotInterrupted, Detaching
<1>1. ASSUME NEW t \in Threads, EnterInc(t) PROVE DetachNotInterrupted'
  BY <1>1 DEF EnterInc
<1>2. ASSUME NEW t \in Threads, EnterFlag(t) PROVE DetachNotInterrupted'
  BY <1>2 DEF EnterFlag
<1>3. ASSUME NEW t \in Threads, EnterWake(t) PROVE DetachNotInterrupted'
  BY <1>3 DEF EnterWake
<1>4. ASSUME NEW t \in Threads, LeaveDec(t) PROVE DetachNotInterrupted'
  <2>1. Detaching(t) => sr.pending = 0
    BY <1>4, NoPendingWhileUnlocked DEF LeaveDec, Detaching
  <2>2. QED
    BY <1>4, <2>1 DEF LeaveDec
<1>5. ASSUME NEW t \in Threads, LeaveFlag(t) PROVE DetachNotInterrupted'
  BY <1>5 DEF LeaveFlag
<1>6. ASSUME NEW t \in Threads, SlowInc(t) PROVE DetachNotInterrupted'
  BY <1>6 DEF SlowInc
<1>7. ASSUME NEW t \in Threads, SlowWake(t) PROVE DetachNotInterrupted'
  BY <1>7 DEF SlowWake
<1>8. ASSUME NEW t \in Threads, SlowWait(t) PROVE DetachNotInterrupted'
  BY <1>8 DEF SlowWait
<1>9. ASSUME NEW t \in Threads, SlowWoken(t) PROVE DetachNotInterrupted'
  BY <1>9 DEF SlowWoken
<1>10. ASSUME NEW t \in Threads, SlowDec(t) PROVE DetachNotInterrupted'
  BY <1>10 DEF SlowDec
<1>11. ASSUME NEW t \in Threads, Yieldpoint(t) PROVE DetachNotInterrupted'
  BY <1>11 DEF Yieldpoint
<1>12. ASSUME NEW t \in Threads, RemoveMutator(t) PROVE DetachNotInterrupted'
  BY <1>12 DEF RemoveMutator
<1>13. ASSUME NEW t \in Threads, DetachUnlock(t) PROVE DetachNotInterrupted'
  BY <1>13 DEF DetachUnlock
<1>14. ASSUME NEW t \in Threads, StwLock(t) PROVE DetachNotInterrupted'
  BY <1>14 DEF StwLock
<1>15. ASSUME NEW t \in Threads, TryAcquireThreadListLock(t) PROVE DetachNotInterrupted'
  BY <1>15 DEF TryAcquireThreadListLock
<1>16. ASSUME NEW t \in Threads, StwTryLock(t) PROVE DetachNotInterrupted'
  BY <1>16 DEF StwTryLock
<1>17. ASSUME NEW t \in Threads, StwSetPending(t) PROVE DetachNotInterrupted'
  BY <1>17 DEF StwSetPending
<1>18. ASSUME NEW t \in Threads, SetPollingPageUnreadable(t) PROVE DetachNotInterrupted'
  BY <1>18 DEF SetPollingPageUnreadable
<1>19. ASSUME NEW t \in Threads, StwCheck(t) PROVE DetachNotInterrupted'
  <2>1. \/ Goto(t, "stw_done") /\ Running = {}
        \/ Goto(t, "stw_wait")
    BY <1>19, CheckPasses
  <2>2. QED
    BY <1>19, <2>1 DEF StwCheck
<1>20. ASSUME NEW t \in Threads, StwWait(t) PROVE DetachNotInterrupted'
  BY <1>20 DEF StwWait
<1>21. ASSUME NEW t \in Threads, StwWoken(t) PROVE DetachNotInterrupted'
  BY <1>21 DEF StwWoken
<1>22. ASSUME NEW t \in Threads, StwStopped(t) PROVE DetachNotInterrupted'
  BY <1>22 DEF StwStopped
<1>23. ASSUME NEW t \in Threads, StartTheWorld(t) PROVE DetachNotInterrupted'
  BY <1>23 DEF StartTheWorld
<1>24. ASSUME NEW t \in Threads, SetPollingPageReadable(t) PROVE DetachNotInterrupted'
  BY <1>24 DEF SetPollingPageReadable
<1>25. ASSUME NEW t \in Threads, StartClearPending(t) PROVE DetachNotInterrupted'
  BY <1>25 DEF StartClearPending
<1>26. ASSUME NEW t \in Threads, StartWake(t) PROVE DetachNotInterrupted'
  BY <1>26 DEF StartWake
<1>27. ASSUME NEW t \in Threads, StartUnlockList(t) PROVE DetachNotInterrupted'
  BY <1>27 DEF StartUnlockList
<1>28. ASSUME NEW t \in Threads, ReleaseThreadListLock(t) PROVE DetachNotInterrupted'
  BY <1>28 DEF ReleaseThreadListLock
<1>29. ASSUME NEW t \in Threads, StartUnlockStw(t) PROVE DetachNotInterrupted'
  BY <1>29 DEF StartUnlockStw
<1>30. ASSUME NEW t \in Threads, InitYieldpoint(t) PROVE DetachNotInterrupted'
  BY <1>30 DEF InitYieldpoint
<1>31. ASSUME NEW t \in Threads, FiniYieldpoint(t) PROVE DetachNotInterrupted'
  BY <1>31 DEF FiniYieldpoint
<1>32. ASSUME NEW t \in Threads, EnterSaferegion(t) PROVE DetachNotInterrupted'
  BY <1>32 DEF EnterSaferegion
<1>33. ASSUME NEW t \in Threads, LeaveSaferegion(t) PROVE DetachNotInterrupted'
  BY <1>33 DEF LeaveSaferegion
<1>34. ASSUME NEW t \in Threads, StopTheWorld(t) PROVE DetachNotInterrupted'
  BY <1>34 DEF StopTheWorld
<1>35. ASSUME NEW t \in Threads, LockStopTheWorld(t) PROVE DetachNotInterrupted'
  BY <1>35 DEF LockStopTheWorld
<1>36. ASSUME NEW t \in Threads, UnlockStopTheWorld(t) PROVE DetachNotInterrupted'
  BY <1>36 DEF UnlockStopTheWorld
<1>37. ASSUME NEW t \in Threads, FutexInterrupt(t) PROVE DetachNotInterrupted'
  BY <1>37 DEF FutexInterrupt
<1>38. ASSUME RuntimeLock \/ RuntimeUnlock PROVE DetachNotInterrupted'
  BY <1>38 DEF RuntimeLock, RuntimeUnlock
<1>39. ASSUME UNCHANGED vars PROVE DetachNotInterrupted'
  BY <1>39 DEF vars
<1>40. QED
  BY <1>1, <1>2, <1>3, <1>4, <1>5, <1>6, <1>7, <1>8, <1>9, <1>10,
        <1>11, <1>12, <1>13, <1>14, <1>15, <1>16, <1>17, <1>18, <1>19,
        <1>20, <1>21, <1>22, <1>23, <1>24, <1>25, <1>26, <1>27, <1>28,
        <1>29, <1>30, <1>31, <1>32, <1>33, <1>34, <1>35, <1>36, <1>37,
        <1>38, <1>39
  DEF Next, Progress, Choice

\* While a thread owns the stopped world nothing starts to run.
LEMMA QuietStep ==
    ASSUME IInv, [Next]_vars
    PROVE  QuietInv'
<1>0. TypeOK /\ ControlInv /\ LockInv /\ PendingInv /\ QuietInv
  BY DEF IInv
<1> USE ThreadsAssumption, <1>0
    DEF Threads, TypeOK, Goto, Call, Return, locks, waits, stwVars, PCs,
        EnterPCs, SlowPCs, LeavePCs, StopPCs, StartPCs, HomePCs,
        ControlInv, QuietInv, OwnerPCs, OutsidePCs, Unsafe, Running,
        Detaching
<1>1. ASSUME NEW t \in Threads, EnterInc(t) PROVE QuietInv'
  BY <1>1 DEF EnterInc
<1>2. ASSUME NEW t \in Threads, EnterFlag(t) PROVE QuietInv'
  BY <1>2 DEF EnterFlag
<1>3. ASSUME NEW t \in Threads, EnterWake(t) PROVE QuietInv'
  BY <1>3 DEF EnterWake
<1>4. ASSUME NEW t \in Threads, LeaveDec(t) PROVE QuietInv'
  <2>1. ASSUME NEW u \in Threads, pc[u] \in OwnerPCs, sr.pending = 0
        PROVE  list = {}
    BY <2>1, MutatorSets, FS_EmptySet DEF PendingInv, OwnerPCs, PendingPCs
  <2>2. QED
    BY <1>4, <2>1 DEF LeaveDec
<1>5. ASSUME NEW t \in Threads, LeaveFlag(t) PROVE QuietInv'
  BY <1>5 DEF LeaveFlag
<1>6. ASSUME NEW t \in Threads, SlowInc(t) PROVE QuietInv'
  BY <1>6 DEF SlowInc
<1>7. ASSUME NEW t \in Threads, SlowWake(t) PROVE QuietInv'
  BY <1>7 DEF SlowWake
<1>8. ASSUME NEW t \in Threads, SlowWait(t) PROVE QuietInv'
  BY <1>8 DEF SlowWait
<1>9. ASSUME NEW t \in Threads, SlowWoken(t) PROVE QuietInv'
  BY <1>9 DEF SlowWoken
<1>10. ASSUME NEW t \in Threads, SlowDec(t) PROVE QuietInv'
  <2>1. ASSUME NEW u \in Threads, pc[u] \in OwnerPCs, sr.pending = 0
        PROVE  list = {}
    BY <2>1, MutatorSets, FS_EmptySet DEF PendingInv, OwnerPCs, PendingPCs
  <2>2. QED
    BY <1>10, <2>1 DEF SlowDec
<1>11. ASSUME NEW t \in Threads, Yieldpoint(t) PROVE QuietInv'
  BY <1>11 DEF Yieldpoint
<1>12. ASSUME NEW t \in Threads, RemoveMutator(t) PROVE QuietInv'
  BY <1>12 DEF RemoveMutator
<1>13. ASSUME NEW t \in Threads, DetachUnlock(t) PROVE QuietInv'
  BY <1>13 DEF DetachUnlock
<1>14. ASSUME NEW t \in Threads, StwLock(t) PROVE QuietInv'
  BY <1>14 DEF StwLock
<1>15. ASSUME NEW t \in Threads, TryAcquireThreadListLock(t) PROVE QuietInv'
  BY <1>15 DEF TryAcquireThreadListLock
<1>16. ASSUME NEW t \in Threads, StwTryLock(t) PROVE QuietInv'
  <2>1. Cardinality(list) = 0 => list = {}
    BY MutatorSets, FS_EmptySet
  <2>2. QED
    BY <1>16, <2>1 DEF StwTryLock
<1>17. ASSUME NEW t \in Threads, StwSetPending(t) PROVE QuietInv'
  BY <1>17 DEF StwSetPending
<1>18. ASSUME NEW t \in Threads, SetPollingPageUnreadable(t) PROVE QuietInv'
  BY <1>18 DEF SetPollingPageUnreadable
<1>19. ASSUME NEW t \in Threads, StwCheck(t) PROVE QuietInv'
  <2>1. \/ Goto(t, "stw_done") /\ Running = {}
        \/ Goto(t, "stw_wait")
    BY <1>19, CheckPasses
  <2>2. QED
    BY <1>19, <2>1 DEF StwCheck
<1>20. ASSUME NEW t \in Threads, StwWait(t) PROVE QuietInv'
  BY <1>20 DEF StwWait
<1>21. ASSUME NEW t \in Threads, StwWoken(t) PROVE QuietInv'
  BY <1>21 DEF StwWoken
<1>22. ASSUME NEW t \in Threads, StwStopped(t) PROVE QuietInv'
  BY <1>22 DEF StwStopped
<1>23. ASSUME NEW t \in Threads, StartTheWorld(t) PROVE QuietInv'
  BY <1>23 DEF StartTheWorld
<1>24. ASSUME NEW t \in Threads, SetPollingPageReadable(t) PROVE QuietInv'
  BY <1>24 DEF SetPollingPageReadable
<1>25. ASSUME NEW t \in Threads, StartClearPending(t) PROVE QuietInv'
  BY <1>25 DEF StartClearPending
<1>26. ASSUME NEW t \in Threads, StartWake(t) PROVE QuietInv'
  BY <1>26 DEF StartWake
<1>27. ASSUME NEW t \in Threads, StartUnlockList(t) PROVE QuietInv'
  BY <1>27 DEF StartUnlockList
<1>28. ASSUME NEW t \in Threads, ReleaseThreadListLock(t) PROVE QuietInv'
  BY <1>28 DEF ReleaseThreadListLock
<1>29. ASSUME NEW t \in Threads, StartUnlockStw(t) PROVE QuietInv'
  BY <1>29 DEF StartUnlockStw
<1>30. ASSUME NEW t \in Threads, InitYieldpoint(t) PROVE QuietInv'
  <2>1. \A u \in Threads : pc[u] \notin ListPCs
    BY <1>30, NoPendingWhileUnlocked DEF InitYieldpoint
  <2>2. QED
    BY <1>30, <2>1 DEF InitYieldpoint, ListPCs, PendingPCs
<1>31. ASSUME NEW t \in Threads, FiniYieldpoint(t) PROVE QuietInv'
  BY <1>31 DEF FiniYieldpoint
<1>32. ASSUME NEW t \in Threads, EnterSaferegion(t) PROVE QuietInv'
  BY <1>32 DEF EnterSaferegion
<1>33. ASSUME NEW t \in Threads, LeaveSaferegion(t) PROVE QuietInv'
  BY <1>33 DEF LeaveSaferegion
<1>34. ASSUME NEW t \in Threads, StopTheWorld(t) PROVE QuietInv'
  BY <1>34 DEF StopTheWorld
<1>35. ASSUME NEW t \in Threads, LockStopTheWorld(t) PROVE QuietInv'
  BY <1>35 DEF LockStopTheWorld
<1>36. ASSUME NEW t \in Threads, UnlockStopTheWorld(t) PROVE QuietInv'
  BY <1>36 DEF UnlockStopTheWorld
<1>37. ASSUME NEW t \in Threads, FutexInterrupt(t) PROVE QuietInv'
  BY <1>37 DEF FutexInterrupt
<1>38. ASSUME RuntimeLock \/ RuntimeUnlock PROVE QuietInv'
  BY <1>38 DEF RuntimeLock, RuntimeUnlock
<1>39. ASSUME UNCHANGED vars PROVE QuietInv'
  BY <1>39 DEF vars
<1>40. QED
  BY <1>1, <1>2, <1>3, <1>4, <1>5, <1>6, <1>7, <1>8, <1>9, <1>10,
        <1>11, <1>12, <1>13, <1>14, <1>15, <1>16, <1>17, <1>18, <1>19,
        <1>20, <1>21, <1>22, <1>23, <1>24, <1>25, <1>26, <1>27, <1>28,
        <1>29, <1>30, <1>31, <1>32, <1>33, <1>34, <1>35, <1>36, <1>37,
        <1>38, <1>39
  DEF Next, Progress, Choice

\* Types are preserved; the recursion depth of stwMutex is at most two.
LEMMA TypeStep ==
    ASSUME IInv, [Next]_vars
    PROVE  TypeOK'
<1>0. TypeOK /\ ControlInv /\ LockInv /\ NeverFatal
  BY DEF IInv
<1> USE ThreadsAssumption, <1>0
    DEF Threads, TypeOK, Goto, Call, Return, locks, waits, stwVars, PCs,
        EnterPCs, SlowPCs, LeavePCs, StopPCs, StartPCs, HomePCs,
        ControlInv, LockInv, StwPCs, ListPCs, PendingPCs
<1>1. ASSUME NEW t \in Threads, EnterInc(t) PROVE TypeOK'
  <2>1. sr' \in Word
    BY <1>1, CountingActions
  <2>2. QED
    BY <1>1, <2>1 DEF EnterInc
<1>2. ASSUME NEW t \in Threads, EnterFlag(t) PROVE TypeOK'
  BY <1>2 DEF EnterFlag
<1>3. ASSUME NEW t \in Threads, EnterWake(t) PROVE TypeOK'
  BY <1>3 DEF EnterWake
<1>4. ASSUME NEW t \in Threads, LeaveDec(t) PROVE TypeOK'
  <2>1. sr' \in Word
    BY <1>4, CountingActions
  <2>2. QED
    BY <1>4, <2>1 DEF LeaveDec
<1>5. ASSUME NEW t \in Threads, LeaveFlag(t) PROVE TypeOK'
  BY <1>5 DEF LeaveFlag
<1>6. ASSUME NEW t \in Threads, SlowInc(t) PROVE TypeOK'
  <2>1. sr' \in Word
    BY <1>6, CountingActions
  <2>2. QED
    BY <1>6, <2>1 DEF SlowInc
<1>7. ASSUME NEW t \in Threads, SlowWake(t) PROVE TypeOK'
  BY <1>7 DEF SlowWake
<1>8. ASSUME NEW t \in Threads, SlowWait(t) PROVE TypeOK'
  BY <1>8 DEF SlowWait
<1>9. ASSUME NEW t \in Threads, SlowWoken(t) PROVE TypeOK'
  BY <1>9 DEF SlowWoken
<1>10. ASSUME NEW t \in Threads, SlowDec(t) PROVE TypeOK'
  <2>1. sr' \in Word
    BY <1>10, CountingActions
  <2>2. QED
    BY <1>10, <2>1 DEF SlowDec
<1>11. ASSUME NEW t \in Threads, Yieldpoint(t) PROVE TypeOK'
  BY <1>11 DEF Yieldpoint
<1>12. ASSUME NEW t \in Threads, RemoveMutator(t) PROVE TypeOK'
  BY <1>12 DEF RemoveMutator
<1>13. ASSUME NEW t \in Threads, DetachUnlock(t) PROVE TypeOK'
  BY <1>13 DEF DetachUnlock
<1>14. ASSUME NEW t \in Threads, StwLock(t) PROVE TypeOK'
  BY <1>14 DEF StwLock
<1>15. ASSUME NEW t \in Threads, TryAcquireThreadListLock(t) PROVE TypeOK'
  BY <1>15 DEF TryAcquireThreadListLock
<1>16. ASSUME NEW t \in Threads, StwTryLock(t) PROVE TypeOK'
  BY <1>16 DEF StwTryLock
<1>17. ASSUME NEW t \in Threads, StwSetPending(t) PROVE TypeOK'
  <2>1. Cardinality(list) \in Counter
    BY MutatorSets
  <2>2. QED
    BY <1>17, <2>1 DEF StwSetPending, SetPendingCount, Word
<1>18. ASSUME NEW t \in Threads, SetPollingPageUnreadable(t) PROVE TypeOK'
  BY <1>18 DEF SetPollingPageUnreadable
<1>19. ASSUME NEW t \in Threads, StwCheck(t) PROVE TypeOK'
  <2>1. \/ Goto(t, "stw_done") /\ Running = {}
        \/ Goto(t, "stw_wait")
    BY <1>19, CheckPasses
  <2>2. QED
    BY <1>19, <2>1 DEF StwCheck
<1>20. ASSUME NEW t \in Threads, StwWait(t) PROVE TypeOK'
  BY <1>20 DEF StwWait
<1>21. ASSUME NEW t \in Threads, StwWoken(t) PROVE TypeOK'
  BY <1>21 DEF StwWoken
<1>22. ASSUME NEW t \in Threads, StwStopped(t) PROVE TypeOK'
  BY <1>22 DEF StwStopped
<1>23. ASSUME NEW t \in Threads, StartTheWorld(t) PROVE TypeOK'
  BY <1>23 DEF StartTheWorld
<1>24. ASSUME NEW t \in Threads, SetPollingPageReadable(t) PROVE TypeOK'
  BY <1>24 DEF SetPollingPageReadable
<1>25. ASSUME NEW t \in Threads, StartClearPending(t) PROVE TypeOK'
  <2>1. 0 \in Counter
    BY MutatorSets, FS_EmptySet
  <2>2. QED
    BY <1>25, <2>1 DEF StartClearPending, SetPendingCount, Word
<1>26. ASSUME NEW t \in Threads, StartWake(t) PROVE TypeOK'
  BY <1>26 DEF StartWake
<1>27. ASSUME NEW t \in Threads, StartUnlockList(t) PROVE TypeOK'
  BY <1>27 DEF StartUnlockList
<1>28. ASSUME NEW t \in Threads, ReleaseThreadListLock(t) PROVE TypeOK'
  BY <1>28 DEF ReleaseThreadListLock
<1>29. ASSUME NEW t \in Threads, StartUnlockStw(t) PROVE TypeOK'
  BY <1>29 DEF StartUnlockStw
<1>30. ASSUME NEW t \in Threads, InitYieldpoint(t) PROVE TypeOK'
  BY <1>30 DEF InitYieldpoint
<1>31. ASSUME NEW t \in Threads, FiniYieldpoint(t) PROVE TypeOK'
  BY <1>31 DEF FiniYieldpoint
<1>32. ASSUME NEW t \in Threads, EnterSaferegion(t) PROVE TypeOK'
  BY <1>32 DEF EnterSaferegion
<1>33. ASSUME NEW t \in Threads, LeaveSaferegion(t) PROVE TypeOK'
  BY <1>33 DEF LeaveSaferegion
<1>34. ASSUME NEW t \in Threads, StopTheWorld(t) PROVE TypeOK'
  BY <1>34 DEF StopTheWorld
<1>35. ASSUME NEW t \in Threads, LockStopTheWorld(t) PROVE TypeOK'
  BY <1>35 DEF LockStopTheWorld
<1>36. ASSUME NEW t \in Threads, UnlockStopTheWorld(t) PROVE TypeOK'
  BY <1>36 DEF UnlockStopTheWorld
<1>37. ASSUME NEW t \in Threads, FutexInterrupt(t) PROVE TypeOK'
  BY <1>37 DEF FutexInterrupt
<1>38. ASSUME RuntimeLock \/ RuntimeUnlock PROVE TypeOK'
  BY <1>38 DEF RuntimeLock, RuntimeUnlock
<1>39. ASSUME UNCHANGED vars PROVE TypeOK'
  BY <1>39 DEF vars
<1>40. QED
  BY <1>1, <1>2, <1>3, <1>4, <1>5, <1>6, <1>7, <1>8, <1>9, <1>10,
        <1>11, <1>12, <1>13, <1>14, <1>15, <1>16, <1>17, <1>18, <1>19,
        <1>20, <1>21, <1>22, <1>23, <1>24, <1>25, <1>26, <1>27, <1>28,
        <1>29, <1>30, <1>31, <1>32, <1>33, <1>34, <1>35, <1>36, <1>37,
        <1>38, <1>39
  DEF Next, Progress, Choice

-----------------------------------------------------------------------------
(* The results.                                                            *)

LEMMA InitIInv == Init => IInv
<1> SUFFICES ASSUME Init PROVE IInv
  OBVIOUS
<1> USE ThreadsAssumption DEF Init, Threads
<1>1. 0 \in Counter
  BY MutatorSets, FS_EmptySet
<1>2. TypeOK
  <2>1. sr \in Word /\ local \in [Threads -> Word]
    BY <1>1 DEF Word
  <2>2. pc \in [Threads -> PCs]
    BY DEF PCs, HomePCs
  <2>3. /\ inSafe \in [Threads -> BOOLEAN]
        /\ entered \in [Threads -> BOOLEAN]
        /\ shouldLeave \in [Threads -> BOOLEAN]
        /\ worldStopped \in BOOLEAN
        /\ pageReadable \in BOOLEAN
        /\ stateChanged \in BOOLEAN
    BY Zenon
  <2>4. stwDepth \in 0 .. 2
    BY SMT
  <2>5. QED
    BY <2>1, <2>2, <2>3, <2>4 DEF TypeOK
<1>3. NeverFatal /\ ControlInv /\ DetachNotInterrupted
  BY DEF NeverFatal, ControlInv, DetachNotInterrupted, Detaching, EnterPCs,
         LeavePCs, SlowPCs, OutsidePCs
<1>4. LockInv /\ PendingInv /\ QuietInv
  BY DEF LockInv, PendingInv, QuietInv, Detaching, LeavePCs, SlowPCs, StwPCs,
         ListPCs, PendingPCs, OwnerPCs
<1>5. Counted = {}
  BY DEF Counted, CountedPCs, StopPCs, StartPCs
<1>6. CountIsExact
  BY <1>5, FS_EmptySet DEF CountIsExact
<1>7. QED
  BY <1>2, <1>3, <1>4, <1>6 DEF IInv

\* The invariant is inductive.
THEOREM InductiveInvariant == Spec => []IInv
<1>1. IInv /\ [Next]_vars => IInv'
  BY TypeStep, NeverFatalStep, ControlStep, LockStep, PendingStep, CountStep,
     DetachStep, QuietStep DEF IInv
<1>2. QED
  BY <1>1, InitIInv, PTL DEF Spec

\* Type correctness of the handshake.
THEOREM TypeCorrect == Spec => []TypeOK
<1>1. IInv => TypeOK
  BY DEF IInv
<1>2. QED
  BY <1>1, InductiveInvariant, PTL

\* For any number of mutators, while WorldStopped() answers true no listed
\* mutator is in managed code.
THEOREM StopIsSafe == Spec => []StoppedWorldIsQuiet
<1>1. IInv => StoppedWorldIsQuiet
  BY DEF IInv, QuietInv, StoppedWorldIsQuiet, OwnerPCs
<1>2. QED
  BY <1>1, InductiveInvariant, PTL

\* saferegionCount is exact: no increment or decrement is missed or doubled,
\* and no 32-bit carry or borrow ever reaches the pending count.
THEOREM CountCorrect == Spec => []CountIsExact
<1>1. IInv => CountIsExact
  BY DEF IInv
<1>2. QED
  BY <1>1, InductiveInvariant, PTL

\* The LOG(FATAL) in WaitForAllMutatorsStopped is unreachable.
THEOREM FatalUnreachable == Spec => []NeverFatal
<1>1. IInv => NeverFatal
  BY DEF IInv
<1>2. QED
  BY <1>1, InductiveInvariant, PTL

\* A detaching mutator is not interrupted by a stop.
THEOREM DetachIsSafe == Spec => []DetachNotInterrupted
<1>1. IInv => DetachNotInterrupted
  BY DEF IInv
<1>2. QED
  BY <1>1, InductiveInvariant, PTL

-----------------------------------------------------------------------------
(* No wake-up is lost.                                                     *)

\* The stopper of the moment holds the list lock: nobody else is between
\* taking it for a stop and giving it back.
LEMMA OneStopper ==
    ASSUME IInv, NEW t \in Threads, pc[t] \in ListPCs, NEW u \in Threads, pc[u] \in ListPCs
    PROVE  t = u
  BY DEF IInv, LockInv

\* A step that leaves the word and the sleepers alone, is not a wake-up and
\* does not lead to a sleep.
LEMMA WakeFrame ==
    ASSUME IInv, WakeInv, NEW t \in Threads, NEW q, Goto(t, q),
           local' = local, sr' = sr, waitSafe' = waitSafe, waitPending' = waitPending,
           pc[t] \notin {"enter_flag", "enter_wake", "slow_wake", "start_wake"},
           pc[t] = "stw_blocked" => t \notin waitSafe,
           pc[t] = "slow_blocked" => t \notin waitPending,
           q \notin {"stw_wait", "slow_wait"}
    PROVE  WakeInv'
<1>1. pc'[t] = q /\ \A u \in Threads \ {t} : pc'[u] = pc[u]
  BY DEF IInv, TypeOK, Goto
<1>2. waitSafe \subseteq Threads /\ waitPending \subseteq Threads
  BY DEF IInv, TypeOK
<1>3. SleepInv'
  BY <1>1 DEF WakeInv, SleepInv
<1>4. Wakers \subseteq Wakers'
  BY <1>1 DEF Wakers
<1>5. StopperWoken'
  BY <1>1, <1>2, <1>4 DEF WakeInv, StopperWoken
<1>6. BlockedWoken'
  BY <1>1, <1>2 DEF WakeInv, BlockedWoken
<1>7. QED
  BY <1>3, <1>5, <1>6 DEF WakeInv

\* The last mutator to enter the saferegion will wake the stopper: its
\* increment is the only step that can complete the count.
LEMMA IncrementWakes ==
    ASSUME IInv, WakeInv, NEW t \in Threads, EnterInc(t) \/ SlowInc(t)
    PROVE  WakeInv'
<1>1. sr \in Word /\ sr' \in Word /\ sr'.pending = sr.pending /\ sr'.safe = Succ(sr.safe)
  <2>1. sr' = IncSaferegionCount(sr)
    BY DEF EnterInc, SlowInc
  <2>2. QED
    BY <2>1, CountingActions DEF IncSaferegionCount, IInv, TypeOK
<1>2. /\ local' = [local EXCEPT ![t] = sr] /\ waitSafe' = waitSafe /\ waitPending' = waitPending
      /\ pc[t] \in {"enter_inc", "slow_inc"}
  BY DEF EnterInc, SlowInc, waits
<1>3. PICK q : /\ Goto(t, q) /\ q \in {"enter_flag", "slow_wake", "slow_wait", "slow_dec"}
               /\ q = "slow_wait" => sr.pending > 0
               /\ LastToEnter(sr) => q \in {"enter_flag", "slow_wake"}
  BY DEF EnterInc, SlowInc
<1>4. /\ pc'[t] = q /\ local'[t] = sr
      /\ \A u \in Threads \ {t} : pc'[u] = pc[u] /\ local'[u] = local[u]
  BY <1>2, <1>3 DEF IInv, TypeOK, Goto
<1>5. waitSafe \subseteq Threads /\ waitPending \subseteq Threads /\ sr.pending \in Int
  BY WidthAssumption DEF IInv, TypeOK, Word, Counter
<1>6. SleepInv'
  <2>1. ASSUME NEW u \in Threads, pc'[u] = "stw_wait" PROVE local'[u].safe # sr'.pending
    BY <1>1, <1>3, <1>4, <2>1 DEF WakeInv, SleepInv
  <2>2. ASSUME NEW u \in Threads, pc'[u] = "slow_wait" PROVE local'[u].pending # 0
    <3>1. CASE u = t
      BY <1>3, <1>4, <1>5, <2>2, <3>1
    <3>2. CASE u # t
      BY <1>4, <2>2, <3>2 DEF WakeInv, SleepInv
    <3>3. QED
      BY <3>1, <3>2
  <2>3. QED
    BY <2>1, <2>2 DEF SleepInv
<1>7. StopperWoken'
  <2>1. AllMutatorStopped(sr)' => t \in Wakers'
    BY <1>1, <1>3, <1>4 DEF AllMutatorStopped, LastToEnter, Wakers
  <2>2. QED
    BY <1>2, <1>4, <1>5, <2>1 DEF WakeInv, StopperWoken
<1>8. BlockedWoken'
  BY <1>1, <1>2, <1>4, <1>5 DEF WakeInv, BlockedWoken
<1>9. QED
  BY <1>6, <1>7, <1>8 DEF WakeInv

\* A mutator that leaves, even only for the slow path, is missing again: the
\* stopper that sleeps has reason to.
LEMMA DecrementKeepsWaiting ==
    ASSUME IInv, WakeInv, NEW t \in Threads, LeaveDec(t) \/ SlowDec(t)
    PROVE  WakeInv'
<1>1. sr \in Word /\ sr'.pending = sr.pending /\ sr'.safe = Pred(sr.safe)
  <2>1. sr' = DecSaferegionCount(sr)
    BY DEF LeaveDec, SlowDec
  <2>2. QED
    BY <2>1, CountingActions DEF DecSaferegionCount, IInv, TypeOK
<1>2. /\ local' = local /\ waitSafe' = waitSafe /\ waitPending' = waitPending
      /\ pc[t] \in {"leave_dec", "yield_leave", "slow_dec"}
  BY DEF LeaveDec, SlowDec, waits
<1>3. PICK q \in {"slow_inc", "leave_flag"} : Goto(t, q)
  BY DEF LeaveDec, SlowDec
<1>4. pc'[t] = q /\ \A u \in Threads \ {t} : pc'[u] = pc[u]
  BY <1>3 DEF IInv, TypeOK, Goto
<1>5. /\ waitSafe \subseteq Threads /\ waitPending \subseteq Threads
      /\ sr.safe \in Int /\ sr.pending \in Int
  BY WidthAssumption DEF IInv, TypeOK, Word, Counter
<1>6. sr.safe # 0
  <2>1. t \in Counted
    BY <1>2 DEF IInv, ControlInv, Threads, StopPCs, StartPCs, Counted, CountedPCs
  <2>2. IsFiniteSet(Counted)
    BY MutatorSets DEF Counted
  <2>3. Cardinality(Counted) # 0
    BY <2>1, <2>2, FS_EmptySet
  <2>4. QED
    BY <2>3 DEF IInv, CountIsExact
<1>7. SleepInv'
  BY <1>1, <1>2, <1>4 DEF WakeInv, SleepInv
<1>8. StopperWoken'
  <2> SUFFICES ASSUME NEW u \in waitSafe
               PROVE  pc'[u] = "stw_blocked" /\ ~AllMutatorStopped(sr')
    BY <1>2 DEF StopperWoken
  <2>1. u \in Threads /\ pc[u] = "stw_blocked"
    BY <1>5 DEF WakeInv, StopperWoken
  <2>2. sr.safe <= sr.pending
    BY <2>1, StopperView DEF PendingPCs
  <2>3. QED
    BY <1>1, <1>2, <1>4, <1>5, <1>6, <2>1, <2>2 DEF AllMutatorStopped, Pred
<1>9. BlockedWoken'
  BY <1>1, <1>2, <1>4, <1>5 DEF WakeInv, BlockedWoken
<1>10. QED
  BY <1>7, <1>8, <1>9 DEF WakeInv

\* Publishing the pending count finds nobody asleep; clearing it is followed
\* by the wake-up of all who sleep.
LEMMA PendingChangeWakes ==
    ASSUME IInv, WakeInv, NEW t \in Threads, StwSetPending(t) \/ StartClearPending(t)
    PROVE  WakeInv'
<1>1. /\ local' = local /\ waitSafe' = waitSafe /\ waitPending' = waitPending
      /\ pc[t] \in {"stw_set", "start_pending"}
  BY DEF StwSetPending, StartClearPending, waits
<1>2. PICK q \in {"stw_page", "start_wake"} : Goto(t, q) /\ (q = "stw_page" <=> pc[t] = "stw_set")
  BY DEF StwSetPending, StartClearPending
<1>3. pc'[t] = q /\ \A u \in Threads \ {t} : pc'[u] = pc[u]
  BY <1>2 DEF IInv, TypeOK, Goto
<1>4. waitSafe \subseteq Threads /\ waitPending \subseteq Threads
  BY DEF IInv, TypeOK
<1>5. \A u \in Threads \ {t} : pc[u] \notin ListPCs
  BY <1>1, OneStopper DEF ListPCs, PendingPCs
<1>6. waitSafe = {} /\ \A u \in Threads : pc'[u] # "stw_wait"
  BY <1>1, <1>2, <1>3, <1>4, <1>5 DEF ListPCs, PendingPCs, WakeInv, StopperWoken
<1>7. SleepInv' /\ StopperWoken'
  BY <1>1, <1>2, <1>3, <1>6 DEF WakeInv, SleepInv, StopperWoken
<1>8. BlockedWoken'
  <2>1. CASE pc[t] = "start_pending"
    BY <1>1, <1>2, <1>3, <1>4, <2>1 DEF WakeInv, BlockedWoken
  <2>2. CASE pc[t] = "stw_set"
    <3>1. \A u \in Threads : pc[u] \notin PendingPCs \cup {"start_wake"}
      BY <1>5, <2>2 DEF ListPCs, PendingPCs
    <3>2. sr.pending = 0
      BY <3>1 DEF IInv, PendingInv
    <3>3. waitPending = {}
      BY <3>1, <3>2 DEF WakeInv, BlockedWoken
    <3>4. QED
      BY <1>1, <3>3 DEF BlockedWoken
  <2>3. QED
    BY <1>1, <2>1, <2>2
<1>9. QED
  BY <1>7, <1>8 DEF WakeInv

\* FUTEX_WAIT: a thread goes to sleep only if the word is still the one that
\* it has found wanting.
LEMMA SleepStep ==
    ASSUME IInv, WakeInv, NEW t \in Threads, StwWait(t) \/ SlowWait(t) \/ StwCheck(t)
    PROVE  WakeInv'
<1>1. sr' = sr /\ sr \in Word
  BY DEF StwWait, SlowWait, StwCheck, IInv, TypeOK
<1>2. PICK q : Goto(t, q)
  BY DEF StwWait, SlowWait, StwCheck
<1>3. pc'[t] = q /\ \A u \in Threads \ {t} : pc'[u] = pc[u]
  BY <1>2 DEF IInv, TypeOK, Goto
<1>4. waitSafe \subseteq Threads /\ waitPending \subseteq Threads
  BY DEF IInv, TypeOK
<1>5. /\ pc[t] \in {"stw_wait", "slow_wait", "stw_check"}
      /\ \A u \in Threads \ {t} : local'[u] = local[u]
  BY DEF StwWait, SlowWait, StwCheck, IInv, TypeOK
<1>6. t \notin waitSafe /\ t \notin waitPending
  BY <1>5 DEF WakeInv, StopperWoken, BlockedWoken
<1>7. Wakers \subseteq Wakers'
  BY <1>3, <1>5 DEF Wakers
<1>8. \A u \in Threads : pc[u] = "start_wake" => pc'[u] = "start_wake"
  BY <1>3, <1>5
<1>9. CASE StwWait(t)
  <2>1. local' = local /\ waitPending' = waitPending /\ pc[t] = "stw_wait"
    BY <1>9 DEF StwWait
  <2>2. \/ waitSafe' = waitSafe \cup {t} /\ q = "stw_blocked" /\ sr.safe = local[t].safe
        \/ waitSafe' = waitSafe /\ q = "stw_check"
    BY <1>3, <1>9 DEF StwWait, IInv, TypeOK, Goto
  <2>3. t \in waitSafe' => ~AllMutatorStopped(sr)
    BY <1>6, <2>1, <2>2 DEF WakeInv, SleepInv, AllMutatorStopped
  <2>4. SleepInv'
    BY <1>1, <1>3, <2>1, <2>2 DEF WakeInv, SleepInv
  <2>5. StopperWoken'
    BY <1>1, <1>3, <1>4, <1>6, <1>7, <2>2, <2>3 DEF WakeInv, StopperWoken
  <2>6. BlockedWoken'
    BY <1>1, <1>3, <1>4, <1>6, <1>8, <2>1 DEF WakeInv, BlockedWoken
  <2>7. QED
    BY <2>4, <2>5, <2>6 DEF WakeInv
<1>10. CASE SlowWait(t)
  <2>1. local' = local /\ waitSafe' = waitSafe /\ pc[t] = "slow_wait"
    BY <1>10 DEF SlowWait
  <2>2. \/ /\ waitPending' = waitPending \cup {t} /\ q = "slow_blocked"
           /\ sr.pending = local[t].pending
        \/ waitPending' = waitPending /\ q = "slow_dec"
    BY <1>3, <1>10 DEF SlowWait, IInv, TypeOK, Goto
  <2>3. t \in waitPending' => sr.pending # 0
    BY <1>6, <2>1, <2>2 DEF WakeInv, SleepInv
  <2>4. SleepInv'
    BY <1>1, <1>3, <2>1, <2>2 DEF WakeInv, SleepInv
  <2>5. StopperWoken'
    BY <1>1, <1>3, <1>4, <1>6, <1>7, <2>1 DEF WakeInv, StopperWoken
  <2>6. BlockedWoken'
    BY <1>1, <1>3, <1>4, <1>6, <1>8, <2>2, <2>3 DEF WakeInv, BlockedWoken
  <2>7. QED
    BY <2>4, <2>5, <2>6 DEF WakeInv
<1>11. CASE StwCheck(t)
  <2>1. waitPending' = waitPending /\ waitSafe' = waitSafe
    BY <1>11 DEF StwCheck, waits
  <2>2. local'[t] = sr /\ q # "slow_wait" /\ (q = "stw_wait" => ~AllMutatorStopped(sr))
    BY <1>3, <1>11 DEF StwCheck, IInv, TypeOK, Goto
  <2>3. SleepInv'
    BY <1>1, <1>3, <1>5, <2>2 DEF WakeInv, SleepInv, AllMutatorStopped
  <2>4. StopperWoken' /\ BlockedWoken'
    BY <1>1, <1>3, <1>4, <1>6, <1>7, <1>8, <2>1 DEF WakeInv, StopperWoken, BlockedWoken
  <2>5. QED
    BY <2>3, <2>4 DEF WakeInv
<1>12. QED
  BY <1>9, <1>10, <1>11

\* FUTEX_WAKE, and the decision to issue it.
LEMMA WakeUpStep ==
    ASSUME IInv, WakeInv, NEW t \in Threads,
           EnterFlag(t) \/ EnterWake(t) \/ SlowWake(t) \/ StartWake(t)
    PROVE  WakeInv'
<1>1. sr' = sr /\ local' = local
  BY DEF EnterFlag, EnterWake, SlowWake, StartWake
<1>2. PICK q : Goto(t, q)
  BY DEF EnterFlag, EnterWake, SlowWake, StartWake, Return
<1>3. pc'[t] = q /\ \A u \in Threads \ {t} : pc'[u] = pc[u]
  BY <1>2 DEF IInv, TypeOK, Goto
<1>4. waitSafe \subseteq Threads /\ waitPending \subseteq Threads
  BY DEF IInv, TypeOK
<1>5. pc[t] \in {"enter_flag", "enter_wake", "slow_wake", "start_wake"}
  BY DEF EnterFlag, EnterWake, SlowWake, StartWake
<1>6. q # "stw_wait" /\ (q = "slow_wait" => local[t].pending # 0)
  <2>1. ret[t] \notin {"stw_wait", "slow_wait"} /\ local[t].pending \in Int
    BY WidthAssumption DEF IInv, TypeOK, Word, Counter
  <2>2. CASE EnterFlag(t) \/ EnterWake(t)
    BY <1>3, <2>1, <2>2 DEF EnterFlag, EnterWake, Return, Goto, IInv, TypeOK
  <2>3. CASE SlowWake(t)
    BY <1>3, <2>1, <2>3 DEF SlowWake, Goto, IInv, TypeOK
  <2>4. CASE StartWake(t)
    BY <1>3, <2>4 DEF StartWake, Goto, IInv, TypeOK
  <2>5. QED
    BY <2>2, <2>3, <2>4
<1>7. SleepInv'
  BY <1>1, <1>3, <1>6 DEF WakeInv, SleepInv
<1>8. t \notin waitSafe /\ t \notin waitPending
  BY <1>5 DEF WakeInv, StopperWoken, BlockedWoken
<1>9. CASE EnterWake(t) \/ SlowWake(t)
  <2>1. waitSafe' = {} /\ waitPending' = waitPending /\ pc[t] # "start_wake"
    BY <1>9 DEF EnterWake, SlowWake
  <2>2. StopperWoken' /\ BlockedWoken'
    BY <1>1, <1>3, <1>4, <1>8, <2>1 DEF WakeInv, StopperWoken, BlockedWoken
  <2>3. QED
    BY <1>7, <2>2 DEF WakeInv
<1>10. CASE StartWake(t)
  <2>1. waitSafe' = waitSafe /\ waitPending' = {} /\ pc[t] = "start_wake"
    BY <1>10 DEF StartWake
  <2>2. Wakers \subseteq Wakers'
    BY <1>1, <1>3, <2>1 DEF Wakers
  <2>3. StopperWoken' /\ BlockedWoken'
    BY <1>1, <1>3, <1>4, <1>8, <2>1, <2>2 DEF WakeInv, StopperWoken, BlockedWoken
  <2>4. QED
    BY <1>7, <2>3 DEF WakeInv
<1>11. CASE EnterFlag(t)
  <2>1. waitSafe' = waitSafe /\ waitPending' = waitPending /\ pc[t] = "enter_flag"
    BY <1>11 DEF EnterFlag, waits
  <2>2. LastToEnter(local[t]) => q = "enter_wake"
    BY <1>3, <1>11 DEF EnterFlag, Goto, IInv, TypeOK
  <2>3. Wakers \subseteq Wakers'
    BY <1>1, <1>3, <2>1, <2>2 DEF Wakers
  <2>4. StopperWoken' /\ BlockedWoken'
    BY <1>1, <1>3, <1>4, <1>8, <2>1, <2>3 DEF WakeInv, StopperWoken, BlockedWoken
  <2>5. QED
    BY <1>7, <2>4 DEF WakeInv
<1>12. QED
  BY <1>9, <1>10, <1>11

\* All other steps of a thread.
LEMMA OtherStep ==
    ASSUME IInv, WakeInv, NEW t \in Threads,
           \/ LeaveFlag(t) \/ SlowWoken(t) \/ Yieldpoint(t) \/ RemoveMutator(t) \/ DetachUnlock(t)
           \/ StwLock(t) \/ TryAcquireThreadListLock(t) \/ StwTryLock(t)
           \/ SetPollingPageUnreadable(t) \/ StwWoken(t) \/ StwStopped(t) \/ StartTheWorld(t)
           \/ SetPollingPageReadable(t) \/ StartUnlockList(t) \/ ReleaseThreadListLock(t)
           \/ StartUnlockStw(t) \/ InitYieldpoint(t) \/ FiniYieldpoint(t) \/ EnterSaferegion(t)
           \/ LeaveSaferegion(t) \/ StopTheWorld(t)
    PROVE  WakeInv'
<1>1. ret[t] \notin {"stw_wait", "slow_wait"}
  BY DEF IInv, TypeOK
<1>2. CASE \/ LeaveFlag(t) \/ SlowWoken(t) \/ StwWoken(t)
  BY <1>1, <1>2, WakeFrame DEF LeaveFlag, SlowWoken, StwWoken, Return, waits
<1>3. CASE \/ Yieldpoint(t) \/ RemoveMutator(t) \/ DetachUnlock(t)
  BY <1>3, WakeFrame DEF Yieldpoint, RemoveMutator, DetachUnlock, Call, waits
<1>4. CASE \/ StwLock(t) \/ TryAcquireThreadListLock(t) \/ StwTryLock(t)
  BY <1>4, WakeFrame DEF StwLock, TryAcquireThreadListLock, StwTryLock, waits
<1>5. CASE \/ SetPollingPageUnreadable(t) \/ StwStopped(t) \/ StartTheWorld(t)
  BY <1>5, WakeFrame DEF SetPollingPageUnreadable, StwStopped, StartTheWorld, waits
<1>6. CASE \/ SetPollingPageReadable(t) \/ StartUnlockList(t) \/ ReleaseThreadListLock(t)
  BY <1>6, WakeFrame DEF SetPollingPageReadable, StartUnlockList, ReleaseThreadListLock, waits
<1>7. CASE StartUnlockStw(t)
  BY <1>7, WakeFrame DEF StartUnlockStw, Call, waits
<1>8. CASE \/ InitYieldpoint(t) \/ FiniYieldpoint(t) \/ EnterSaferegion(t) \/ LeaveSaferegion(t)
  BY <1>8, WakeFrame DEF InitYieldpoint, FiniYieldpoint, EnterSaferegion, LeaveSaferegion, Call, waits
<1>9. CASE StopTheWorld(t)
  BY <1>9, WakeFrame DEF StopTheWorld, Call, waits
<1>10. QED
  BY <1>2, <1>3, <1>4, <1>5, <1>6, <1>7, <1>8, <1>9

LEMMA WakeStep == IInv /\ WakeInv /\ [Next]_vars => WakeInv'
<1> SUFFICES ASSUME IInv, WakeInv, [Next]_vars PROVE WakeInv'
  OBVIOUS
<1>1. ASSUME pc' = pc, local' = local, sr' = sr,
             waitSafe' \subseteq waitSafe, waitPending' \subseteq waitPending
      PROVE  WakeInv'
  BY <1>1 DEF WakeInv, SleepInv, StopperWoken, BlockedWoken, Wakers
<1>2. ASSUME NEW t \in Threads,
             FutexInterrupt(t) \/ LockStopTheWorld(t) \/ UnlockStopTheWorld(t)
      PROVE  WakeInv'
  BY <1>1, <1>2 DEF FutexInterrupt, LockStopTheWorld, UnlockStopTheWorld, waits
<1>3. CASE RuntimeLock \/ RuntimeUnlock
  BY <1>1, <1>3 DEF RuntimeLock, RuntimeUnlock, waits
<1>4. CASE UNCHANGED vars
  BY <1>1, <1>4 DEF vars, waits
<1>5. ASSUME NEW t \in Threads, Progress(t) PROVE WakeInv'
  BY <1>5, OtherStep, WakeUpStep, SleepStep, PendingChangeWakes, IncrementWakes,
     DecrementKeepsWaiting DEF Progress
<1>6. ASSUME NEW t \in Threads, Choice(t) PROVE WakeInv'
  BY <1>2, <1>6, OtherStep DEF Choice
<1>7. QED
  BY <1>3, <1>4, <1>5, <1>6 DEF Next

\* Whenever a thread sleeps on the futex there is still a reason to, or its
\* wake-up is on the way: WaitForAllMutatorsStopped and
\* LeaveSaferegionSlowPath lose no wake-up, for any number of threads.
THEOREM WakeupsArrive == Spec => []NoLostWakeup
<1>1. Init => WakeInv
  BY DEF Init, WakeInv, SleepInv, StopperWoken, BlockedWoken
<1>2. IInv /\ WakeInv => NoLostWakeup
  BY DEF IInv, WakeInv, NoLostWakeup
<1>3. QED
  BY <1>1, <1>2, WakeStep, InductiveInvariant, PTL DEF Spec

-----------------------------------------------------------------------------
(* The list does not change while a stop is pending.                       *)

\* Only attaching and detaching change the list, and both wait for its lock.
LEMMA ListStep ==
    ASSUME IInv, [Next]_vars
    PROVE  sr.pending # 0 => list' = list
<1>0. TypeOK
  BY DEF IInv
<1> USE ThreadsAssumption, <1>0
    DEF locks, waits, stwVars
<1>1. ASSUME NEW t \in Threads, EnterInc(t) PROVE sr.pending # 0 => list' = list
  BY <1>1 DEF EnterInc
<1>2. ASSUME NEW t \in Threads, EnterFlag(t) PROVE sr.pending # 0 => list' = list
  BY <1>2 DEF EnterFlag
<1>3. ASSUME NEW t \in Threads, EnterWake(t) PROVE sr.pending # 0 => list' = list
  BY <1>3 DEF EnterWake
<1>4. ASSUME NEW t \in Threads, LeaveDec(t) PROVE sr.pending # 0 => list' = list
  BY <1>4 DEF LeaveDec
<1>5. ASSUME NEW t \in Threads, LeaveFlag(t) PROVE sr.pending # 0 => list' = list
  BY <1>5 DEF LeaveFlag
<1>6. ASSUME NEW t \in Threads, SlowInc(t) PROVE sr.pending # 0 => list' = list
  BY <1>6 DEF SlowInc
<1>7. ASSUME NEW t \in Threads, SlowWake(t) PROVE sr.pending # 0 => list' = list
  BY <1>7 DEF SlowWake
<1>8. ASSUME NEW t \in Threads, SlowWait(t) PROVE sr.pending # 0 => list' = list
  BY <1>8 DEF SlowWait
<1>9. ASSUME NEW t \in Threads, SlowWoken(t) PROVE sr.pending # 0 => list' = list
  BY <1>9 DEF SlowWoken
<1>10. ASSUME NEW t \in Threads, SlowDec(t) PROVE sr.pending # 0 => list' = list
  BY <1>10 DEF SlowDec
<1>11. ASSUME NEW t \in Threads, Yieldpoint(t) PROVE sr.pending # 0 => list' = list
  BY <1>11 DEF Yieldpoint
<1>12. ASSUME NEW t \in Threads, RemoveMutator(t) PROVE sr.pending # 0 => list' = list
  <2>1. sr.pending = 0
    BY <1>12, NoPendingWhileUnlocked DEF RemoveMutator
  <2>2. QED
    BY <2>1
<1>13. ASSUME NEW t \in Threads, DetachUnlock(t) PROVE sr.pending # 0 => list' = list
  BY <1>13 DEF DetachUnlock
<1>14. ASSUME NEW t \in Threads, StwLock(t) PROVE sr.pending # 0 => list' = list
  BY <1>14 DEF StwLock
<1>15. ASSUME NEW t \in Threads, TryAcquireThreadListLock(t) PROVE sr.pending # 0 => list' = list
  BY <1>15 DEF TryAcquireThreadListLock
<1>16. ASSUME NEW t \in Threads, StwTryLock(t) PROVE sr.pending # 0 => list' = list
  BY <1>16 DEF StwTryLock
<1>17. ASSUME NEW t \in Threads, StwSetPending(t) PROVE sr.pending # 0 => list' = list
  BY <1>17 DEF StwSetPending
<1>18. ASSUME NEW t \in Threads, SetPollingPageUnreadable(t) PROVE sr.pending # 0 => list' = list
  BY <1>18 DEF SetPollingPageUnreadable
<1>19. ASSUME NEW t \in Threads, StwCheck(t) PROVE sr.pending # 0 => list' = list
  BY <1>19 DEF StwCheck
<1>20. ASSUME NEW t \in Threads, StwWait(t) PROVE sr.pending # 0 => list' = list
  BY <1>20 DEF StwWait
<1>21. ASSUME NEW t \in Threads, StwWoken(t) PROVE sr.pending # 0 => list' = list
  BY <1>21 DEF StwWoken
<1>22. ASSUME NEW t \in Threads, StwStopped(t) PROVE sr.pending # 0 => list' = list
  BY <1>22 DEF StwStopped
<1>23. ASSUME NEW t \in Threads, StartTheWorld(t) PROVE sr.pending # 0 => list' = list
  BY <1>23 DEF StartTheWorld
<1>24. ASSUME NEW t \in Threads, SetPollingPageReadable(t) PROVE sr.pending # 0 => list' = list
  BY <1>24 DEF SetPollingPageReadable
<1>25. ASSUME NEW t \in Threads, StartClearPending(t) PROVE sr.pending # 0 => list' = list
  BY <1>25 DEF StartClearPending
<1>26. ASSUME NEW t \in Threads, StartWake(t) PROVE sr.pending # 0 => list' = list
  BY <1>26 DEF StartWake
<1>27. ASSUME NEW t \in Threads, StartUnlockList(t) PROVE sr.pending # 0 => list' = list
  BY <1>27 DEF StartUnlockList
<1>28. ASSUME NEW t \in Threads, ReleaseThreadListLock(t) PROVE sr.pending # 0 => list' = list
  BY <1>28 DEF ReleaseThreadListLock
<1>29. ASSUME NEW t \in Threads, StartUnlockStw(t) PROVE sr.pending # 0 => list' = list
  BY <1>29 DEF StartUnlockStw
<1>30. ASSUME NEW t \in Threads, InitYieldpoint(t) PROVE sr.pending # 0 => list' = list
  <2>1. sr.pending = 0
    BY <1>30, NoPendingWhileUnlocked DEF InitYieldpoint
  <2>2. QED
    BY <2>1
<1>31. ASSUME NEW t \in Threads, FiniYieldpoint(t) PROVE sr.pending # 0 => list' = list
  BY <1>31 DEF FiniYieldpoint
<1>32. ASSUME NEW t \in Threads, EnterSaferegion(t) PROVE sr.pending # 0 => list' = list
  BY <1>32 DEF EnterSaferegion
<1>33. ASSUME NEW t \in Threads, LeaveSaferegion(t) PROVE sr.pending # 0 => list' = list
  BY <1>33 DEF LeaveSaferegion
<1>34. ASSUME NEW t \in Threads, StopTheWorld(t) PROVE sr.pending # 0 => list' = list
  BY <1>34 DEF StopTheWorld
<1>35. ASSUME NEW t \in Threads, LockStopTheWorld(t) PROVE sr.pending # 0 => list' = list
  BY <1>35 DEF LockStopTheWorld
<1>36. ASSUME NEW t \in Threads, UnlockStopTheWorld(t) PROVE sr.pending # 0 => list' = list
  BY <1>36 DEF UnlockStopTheWorld
<1>37. ASSUME NEW t \in Threads, FutexInterrupt(t) PROVE sr.pending # 0 => list' = list
  BY <1>37 DEF FutexInterrupt
<1>38. ASSUME RuntimeLock \/ RuntimeUnlock PROVE sr.pending # 0 => list' = list
  BY <1>38 DEF RuntimeLock, RuntimeUnlock
<1>39. ASSUME UNCHANGED vars PROVE sr.pending # 0 => list' = list
  BY <1>39 DEF vars
<1>40. QED
  BY <1>1, <1>2, <1>3, <1>4, <1>5, <1>6, <1>7, <1>8, <1>9, <1>10,
        <1>11, <1>12, <1>13, <1>14, <1>15, <1>16, <1>17, <1>18, <1>19,
        <1>20, <1>21, <1>22, <1>23, <1>24, <1>25, <1>26, <1>27, <1>28,
        <1>29, <1>30, <1>31, <1>32, <1>33, <1>34, <1>35, <1>36, <1>37,
        <1>38, <1>39
  DEF Next, Progress, Choice

\* Between publishing the pending count and clearing it the mutator list is
\* frozen, as StopTheWorld's use of the list size requires.
THEOREM ListIsFrozen == Spec => ListFrozen
<1>1. IInv /\ [Next]_vars => [sr.pending # 0 => list' = list]_vars
  BY ListStep
<1>2. QED
  BY <1>1, InductiveInvariant, PTL DEF Spec, ListFrozen

-----------------------------------------------------------------------------
(* Refinement of WorldControl.                                             *)

\* At most one thread owns the stopped world.
LEMMA OwnerUnique ==
    ASSUME IInv, NEW t \in Owners
    PROVE  Owners = {t}
  BY DEF IInv, LockInv, Owners, OwnerPCs, ListPCs, PendingPCs

\* The owner is determined by the set of owners.
LEMMA OwnerSame == UNCHANGED Owners => UNCHANGED Owner
  BY DEF Owner

\* A mutator of the list can see no pending count only if no thread owns the
\* stopped world.
LEMMA NoOwner ==
    ASSUME IInv, NEW m \in list, sr.pending = 0
    PROVE  Owners = {}
<1>1. IsFiniteSet(list) /\ Cardinality(list) # 0
  BY MutatorSets, FS_EmptySet DEF IInv, TypeOK
<1>2. QED
  BY <1>1 DEF IInv, PendingInv, Owners, OwnerPCs, PendingPCs

\* Every step of the handshake is a step of WorldControl or changes nothing
\* that WorldControl sees.
LEMMA RefinementStep ==
    ASSUME IInv, [Next]_vars
    PROVE  World!Next \/ UNCHANGED World!vars
<1>0. TypeOK /\ ControlInv /\ LockInv
  BY DEF IInv
<1> USE ThreadsAssumption, <1>0
    DEF Threads, TypeOK, Goto, Call, Return, locks, waits, stwVars, PCs,
        EnterPCs, SlowPCs, LeavePCs, StopPCs, StartPCs, HomePCs,
        ControlInv, Detaching, OutsidePCs, Running, Owners, OwnerPCs,
        Unsafe
<1>1. ASSUME NEW t \in Threads, EnterInc(t) PROVE World!Next
  <2>1. t \in Mutators /\ t \in Running
    BY <1>1 DEF EnterInc
  <2>2. UNCHANGED <<list, Owners>> /\ Running' = Running \ {t}
    BY <1>1, <2>1 DEF EnterInc
  <2>3. World!Pause(t)
    BY <2>1, <2>2, OwnerSame DEF World!Pause
  <2>4. QED
    BY <2>1, <2>3 DEF World!Next
<1>2. ASSUME NEW t \in Threads, EnterFlag(t) PROVE UNCHANGED <<list, Running, Owners>>
  BY <1>2 DEF EnterFlag
<1>3. ASSUME NEW t \in Threads, EnterWake(t) PROVE UNCHANGED <<list, Running, Owners>>
  BY <1>3 DEF EnterWake
<1>4. ASSUME NEW t \in Threads, LeaveDec(t) PROVE World!Next \/ UNCHANGED <<list, Running, Owners>>
  <2>1. CASE t \in list /\ sr.pending = 0
    <3>1. Owners = {} /\ t \in Mutators /\ t \notin Running
      BY <1>4, <2>1, NoOwner DEF LeaveDec
    <3>2. UNCHANGED <<list, Owners>> /\ Running' = Running \cup {t}
      BY <1>4, <2>1 DEF LeaveDec
    <3>3. World!Run(t)
      BY <2>1, <3>1, <3>2 DEF World!Run, Owner
    <3>4. QED
      BY <3>1, <3>3 DEF World!Next
  <2>2. CASE t \notin list \/ sr.pending # 0
    BY <1>4, <2>2 DEF LeaveDec
  <2>3. QED
    BY <2>1, <2>2
<1>5. ASSUME NEW t \in Threads, LeaveFlag(t) PROVE UNCHANGED <<list, Running, Owners>>
  BY <1>5 DEF LeaveFlag
<1>6. ASSUME NEW t \in Threads, SlowInc(t) PROVE UNCHANGED <<list, Running, Owners>>
  BY <1>6 DEF SlowInc
<1>7. ASSUME NEW t \in Threads, SlowWake(t) PROVE UNCHANGED <<list, Running, Owners>>
  BY <1>7 DEF SlowWake
<1>8. ASSUME NEW t \in Threads, SlowWait(t) PROVE UNCHANGED <<list, Running, Owners>>
  BY <1>8 DEF SlowWait
<1>9. ASSUME NEW t \in Threads, SlowWoken(t) PROVE UNCHANGED <<list, Running, Owners>>
  BY <1>9 DEF SlowWoken
<1>10. ASSUME NEW t \in Threads, SlowDec(t) PROVE World!Next \/ UNCHANGED <<list, Running, Owners>>
  <2>1. CASE t \in list /\ sr.pending = 0
    <3>1. Owners = {} /\ t \in Mutators /\ t \notin Running
      BY <1>10, <2>1, NoOwner DEF SlowDec
    <3>2. UNCHANGED <<list, Owners>> /\ Running' = Running \cup {t}
      BY <1>10, <2>1 DEF SlowDec
    <3>3. World!Run(t)
      BY <2>1, <3>1, <3>2 DEF World!Run, Owner
    <3>4. QED
      BY <3>1, <3>3 DEF World!Next
  <2>2. CASE t \notin list \/ sr.pending # 0
    BY <1>10, <2>2 DEF SlowDec
  <2>3. QED
    BY <2>1, <2>2
<1>11. ASSUME NEW t \in Threads, Yieldpoint(t) PROVE UNCHANGED <<list, Running, Owners>>
  BY <1>11 DEF Yieldpoint
<1>12. ASSUME NEW t \in Threads, RemoveMutator(t) PROVE World!Next
  <2>1. Owners = {} /\ t \in Mutators /\ t \in list \ Running
    BY <1>12, NoPendingWhileUnlocked DEF RemoveMutator, ListPCs, PendingPCs
  <2>2. list' = list \ {t} /\ UNCHANGED <<Running, Owners>>
    BY <1>12 DEF RemoveMutator
  <2>3. World!Detach(t)
    BY <2>1, <2>2 DEF World!Detach, Owner
  <2>4. QED
    BY <2>1, <2>3 DEF World!Next
<1>13. ASSUME NEW t \in Threads, DetachUnlock(t) PROVE UNCHANGED <<list, Running, Owners>>
  BY <1>13 DEF DetachUnlock
<1>14. ASSUME NEW t \in Threads, StwLock(t) PROVE UNCHANGED <<list, Running, Owners>>
  BY <1>14 DEF StwLock
<1>15. ASSUME NEW t \in Threads, TryAcquireThreadListLock(t) PROVE UNCHANGED <<list, Running, Owners>>
  BY <1>15 DEF TryAcquireThreadListLock
<1>16. ASSUME NEW t \in Threads, StwTryLock(t) PROVE World!Next \/ UNCHANGED <<list, Running, Owners>>
  <2>1. CASE Cardinality(list) = 0
    <3>1. Owners = {} /\ Running = {}
      BY <1>16, <2>1, NoPendingWhileUnlocked, MutatorSets, FS_EmptySet
      DEF StwTryLock, ListPCs, PendingPCs
    <3>2. UNCHANGED <<list, Running>> /\ Owners' = {t}
      BY <1>16, <2>1, <3>1 DEF StwTryLock
    <3>3. World!Stop(t)
      BY <3>1, <3>2 DEF World!Stop, Owner
    <3>4. QED
      BY <3>3 DEF World!Next
  <2>2. CASE Cardinality(list) # 0
    BY <1>16, <2>2 DEF StwTryLock
  <2>3. QED
    BY <1>16, <2>1, <2>2
<1>17. ASSUME NEW t \in Threads, StwSetPending(t) PROVE UNCHANGED <<list, Running, Owners>>
  BY <1>17 DEF StwSetPending
<1>18. ASSUME NEW t \in Threads, SetPollingPageUnreadable(t) PROVE UNCHANGED <<list, Running, Owners>>
  BY <1>18 DEF SetPollingPageUnreadable
<1>19. ASSUME NEW t \in Threads, StwCheck(t) PROVE World!Next \/ UNCHANGED <<list, Running, Owners>>
  <2>1. CASE Goto(t, "stw_done") /\ Running = {}
    <3>1. Owners = {} /\ Running = {}
      BY <1>19, <2>1 DEF StwCheck, LockInv, ListPCs, PendingPCs
    <3>2. UNCHANGED <<list, Running>> /\ Owners' = {t}
      BY <1>19, <2>1, <3>1 DEF StwCheck
    <3>3. World!Stop(t)
      BY <3>1, <3>2 DEF World!Stop, Owner
    <3>4. QED
      BY <3>3 DEF World!Next
  <2>2. CASE Goto(t, "stw_wait")
    BY <1>19, <2>2 DEF StwCheck
  <2>3. QED
    BY <1>19, <2>1, <2>2, CheckPasses
<1>20. ASSUME NEW t \in Threads, StwWait(t) PROVE UNCHANGED <<list, Running, Owners>>
  BY <1>20 DEF StwWait
<1>21. ASSUME NEW t \in Threads, StwWoken(t) PROVE UNCHANGED <<list, Running, Owners>>
  BY <1>21 DEF StwWoken
<1>22. ASSUME NEW t \in Threads, StwStopped(t) PROVE UNCHANGED <<list, Running, Owners>>
  BY <1>22 DEF StwStopped
<1>23. ASSUME NEW t \in Threads, StartTheWorld(t) PROVE UNCHANGED <<list, Running, Owners>>
  BY <1>23 DEF StartTheWorld
<1>24. ASSUME NEW t \in Threads, SetPollingPageReadable(t) PROVE UNCHANGED <<list, Running, Owners>>
  BY <1>24 DEF SetPollingPageReadable
<1>25. ASSUME NEW t \in Threads, StartClearPending(t) PROVE World!Next
  <2>1. t \in Owners
    BY <1>25 DEF StartClearPending
  <2>2. Owners = {t}
    BY <2>1, OwnerUnique
  <2>3. UNCHANGED <<list, Running>> /\ Owners' = {}
    BY <1>25, <2>2 DEF StartClearPending
  <2>4. World!Start(t)
    BY <2>2, <2>3 DEF World!Start, Owner
  <2>5. QED
    BY <2>4 DEF World!Next
<1>26. ASSUME NEW t \in Threads, StartWake(t) PROVE UNCHANGED <<list, Running, Owners>>
  BY <1>26 DEF StartWake
<1>27. ASSUME NEW t \in Threads, StartUnlockList(t) PROVE UNCHANGED <<list, Running, Owners>>
  BY <1>27 DEF StartUnlockList
<1>28. ASSUME NEW t \in Threads, ReleaseThreadListLock(t) PROVE UNCHANGED <<list, Running, Owners>>
  BY <1>28 DEF ReleaseThreadListLock
<1>29. ASSUME NEW t \in Threads, StartUnlockStw(t) PROVE UNCHANGED <<list, Running, Owners>>
  BY <1>29 DEF StartUnlockStw
<1>30. ASSUME NEW t \in Threads, InitYieldpoint(t) PROVE World!Next
  <2>1. Owners = {} /\ t \in Mutators /\ t \notin list
    BY <1>30, NoPendingWhileUnlocked DEF InitYieldpoint, ListPCs, PendingPCs
  <2>2. /\ list' = list \cup {t}
        /\ Running' = Running \cup {t}
        /\ Owners' = Owners
    BY <1>30 DEF InitYieldpoint
  <2>3. World!Attach(t)
    BY <2>1, <2>2 DEF World!Attach, Owner
  <2>4. QED
    BY <2>1, <2>3 DEF World!Next
<1>31. ASSUME NEW t \in Threads, FiniYieldpoint(t) PROVE UNCHANGED <<list, Running, Owners>>
  BY <1>31 DEF FiniYieldpoint
<1>32. ASSUME NEW t \in Threads, EnterSaferegion(t) PROVE UNCHANGED <<list, Running, Owners>>
  BY <1>32 DEF EnterSaferegion
<1>33. ASSUME NEW t \in Threads, LeaveSaferegion(t) PROVE UNCHANGED <<list, Running, Owners>>
  BY <1>33 DEF LeaveSaferegion
<1>34. ASSUME NEW t \in Threads, StopTheWorld(t) PROVE UNCHANGED <<list, Running, Owners>>
  BY <1>34 DEF StopTheWorld
<1>35. ASSUME NEW t \in Threads, LockStopTheWorld(t) PROVE UNCHANGED <<list, Running, Owners>>
  BY <1>35 DEF LockStopTheWorld
<1>36. ASSUME NEW t \in Threads, UnlockStopTheWorld(t) PROVE UNCHANGED <<list, Running, Owners>>
  BY <1>36 DEF UnlockStopTheWorld
<1>37. ASSUME NEW t \in Threads, FutexInterrupt(t) PROVE UNCHANGED <<list, Running, Owners>>
  BY <1>37 DEF FutexInterrupt
<1>38. ASSUME RuntimeLock \/ RuntimeUnlock PROVE UNCHANGED <<list, Running, Owners>>
  BY <1>38 DEF RuntimeLock, RuntimeUnlock
<1>39. ASSUME UNCHANGED vars PROVE UNCHANGED <<list, Running, Owners>>
  BY <1>39 DEF vars
<1>40. UNCHANGED <<list, Running, Owners>> => UNCHANGED World!vars
  BY OwnerSame DEF World!vars
<1>41. QED
  BY <1>1, <1>2, <1>3, <1>4, <1>5, <1>6, <1>7, <1>8, <1>9, <1>10,
        <1>11, <1>12, <1>13, <1>14, <1>15, <1>16, <1>17, <1>18, <1>19,
        <1>20, <1>21, <1>22, <1>23, <1>24, <1>25, <1>26, <1>27, <1>28,
        <1>29, <1>30, <1>31, <1>32, <1>33, <1>34, <1>35, <1>36, <1>37,
        <1>38, <1>39, <1>40
  DEF Next, Progress, Choice

\* The stop-the-world handshake implements the contract of WorldControl.
THEOREM Refinement == Spec => ImplementsWorldControl
<1>1. Init => World!Init
  <2> SUFFICES ASSUME Init PROVE World!Init
    OBVIOUS
  <2>1. Owners = {} /\ Running = {}
    BY DEF Init, Owners, Running, OwnerPCs, Threads
  <2>2. QED
    BY <2>1 DEF Init, World!Init, Owner
<1>2. IInv /\ [Next]_vars => [World!Next]_World!vars
  BY RefinementStep
<1>3. QED
  BY <1>1, <1>2, InductiveInvariant, PTL
  DEF Spec, ImplementsWorldControl, World!Spec

=============================================================================
