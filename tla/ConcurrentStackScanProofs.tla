--------------------- MODULE ConcurrentStackScanProofs ---------------------
(***************************************************************************)
(* Proofs about ConcurrentStackScan for any finite set of mutators.        *)
(*                                                                         *)
(* Who may touch a stack is decided by scanState: while it is kInScan,     *)
(* exactly one of the two sides, the mutator in its barrier or the GC      *)
(* thread, is between its claim and FinishStackScan.  IInv says so, says   *)
(* where a mutator whose stack is not scanned can be, and follows every    *)
(* stack of the snapshot to its mark task.                                 *)
(***************************************************************************)
EXTENDS ConcurrentStackScan, FiniteSetTheorems, TLAPS

-----------------------------------------------------------------------------
(* The inductive invariant.                                                *)

\* The mutator has claimed its own stack and not stored kFinishScan yet.
Claimed(m) == mpc[m] \in {"bar_scan", "bar_sub", "bar_notify", "bar_finish"}

\* The GC thread has claimed the stack of m and not stored kFinishScan yet.
GcScans(m) == cur = m /\ gpc \in {"scan", "sub", "finish"}

PickPCs == {"pick", "scan", "sub", "finish", "wake"}

\* The list holds the mutators that are neither exiting nor gone, and the
\* snapshot is empty outside ConcurrentStackScan.
ControlInv ==
    /\ gpc \in {"scan", "sub", "finish", "wake"} => cur \in Mutators
    /\ gpc \notin PickPCs => snapshot = {}
    /\ \A m \in Mutators :
          m \in list <=> \/ mpc[m] \in {"native", "managed"}
                         \/ mpc[m] \in BarrierPCs /\ after[m] = "managed"

\* scanState tells who is at work on a stack, and where its mutator can be.
ClaimInv ==
    \A m \in Mutators :
        /\ scanState[m] = kNeedScan =>
              m \in snapshot /\ mpc[m] \in {"native", "bar_try"}
        /\ scanState[m] = kInScan <=> Claimed(m) \/ GcScans(m)
        /\ GcScans(m) => mpc[m] \in {"native", "bar_try", "bar_wait"}
        /\ m \in snapshot =>
              scanState[m] = kNeedScan \/ Claimed(m) \/ mpc[m] = "bar_erase"

\* Every stack of this collection is on its way to a mark task, or is one.
TargetInv ==
    /\ \A m \in target :
          \/ scanState[m] = kNeedScan
          \/ mpc[m] = "bar_scan"
          \/ cur = m /\ gpc = "scan"
          \/ m \in tasks \cup traced
    /\ gpc = "sweep" => target \subseteq traced

IInv == TypeOK /\ NumIsExact /\ ControlInv /\ ClaimInv /\ TargetInv

-----------------------------------------------------------------------------
(* Counting.                                                               *)

\* Sets of mutators are finite.
LEMMA MutatorSets ==
    ASSUME NEW S, S \subseteq Mutators
    PROVE  IsFiniteSet(S) /\ Cardinality(S) \in Nat
  BY FS_Subset, FS_CardinalityType, MutatorsAssumption

\* A stack that leaves the unscanned ones was counted: the unsigned counter
\* is decremented by one and does not pass zero.
LEMMA CountDown ==
    ASSUME IInv, NEW m \in Mutators, m \in Unscanned, Unscanned' = Unscanned \ {m},
           num' = num - 1
    PROVE  num' = Cardinality(Unscanned')
<1>1. IsFiniteSet(Unscanned)
  BY MutatorSets DEF Unscanned
<1>2. Cardinality(Unscanned \ {m}) = Cardinality(Unscanned) - 1
  BY <1>1, FS_RemoveElement
<1>3. QED
  BY <1>2 DEF IInv, NumIsExact

-----------------------------------------------------------------------------
(* Each conjunct is preserved by every action.                             *)

\* numMutatorToBeScan follows the set of unscanned stacks through each step.
LEMMA CountStep ==
    ASSUME IInv, [Next]_vars
    PROVE  num' = Cardinality(Unscanned')
<1> USE DEF IInv, TypeOK, NumIsExact
<1>1. ASSUME NEW m \in Mutators, Attach(m) PROVE num' = Cardinality(Unscanned')
  BY <1>1
  DEF Attach, Goto, gcVars, markVars, Unscanned, ControlInv, ClaimInv,
      Claimed, GcScans, kNeedScan, kInScan, kFinishScan
<1>2. ASSUME NEW m \in Mutators, EnterSaferegion(m) PROVE num' = Cardinality(Unscanned')
  BY <1>2
  DEF EnterSaferegion, Goto, gcVars, markVars, Unscanned, ControlInv,
      ClaimInv, Claimed, GcScans, kNeedScan, kInScan, kFinishScan
<1>3. ASSUME NEW m \in Mutators, LeaveSaferegion(m) PROVE num' = Cardinality(Unscanned')
  BY <1>3
  DEF LeaveSaferegion, Goto, gcVars, markVars, Unscanned, ControlInv,
      ClaimInv, Claimed, GcScans, kNeedScan, kInScan, kFinishScan
<1>4. ASSUME NEW m \in Mutators, Detach(m) PROVE num' = Cardinality(Unscanned')
  BY <1>4
  DEF Detach, Goto, gcVars, markVars, Unscanned, ControlInv, ClaimInv,
      Claimed, GcScans, kNeedScan, kInScan, kFinishScan
<1>5. ASSUME NEW m \in Mutators, Delete(m) PROVE num' = Cardinality(Unscanned')
  BY <1>5
  DEF Delete, Goto, gcVars, markVars, Unscanned, ControlInv, ClaimInv,
      Claimed, GcScans, kNeedScan, kInScan, kFinishScan
<1>6. ASSUME NEW m \in Mutators, BarrierTry(m) PROVE num' = Cardinality(Unscanned')
  <2>1. Unscanned' = Unscanned
    BY <1>6
    DEF BarrierTry, Goto, gcVars, Unscanned, ClaimInv, Claimed, GcScans, kNeedScan, kInScan,
        kFinishScan
  <2>2. QED
    BY <1>6, <2>1 DEF BarrierTry
<1>7. ASSUME NEW m \in Mutators, BarrierWoken(m) PROVE num' = Cardinality(Unscanned')
  BY <1>7
  DEF BarrierWoken, Goto, gcVars, markVars, Unscanned, ControlInv, ClaimInv,
      Claimed, GcScans, kNeedScan, kInScan, kFinishScan
<1>8. ASSUME NEW m \in Mutators, BarrierScan(m) PROVE num' = Cardinality(Unscanned')
  BY <1>8
  DEF BarrierScan, Goto, gcVars, Unscanned, ControlInv, ClaimInv, Claimed,
      GcScans, kNeedScan, kInScan, kFinishScan
<1>9. ASSUME NEW m \in Mutators, BarrierSub(m) PROVE num' = Cardinality(Unscanned')
  <2>1. m \in Unscanned /\ Unscanned' = Unscanned \ {m} /\ num' = num - 1
    BY <1>9
    DEF BarrierSub, Goto, gcVars, Unscanned, ClaimInv, Claimed, GcScans,
        kNeedScan, kInScan
  <2>2. QED
    BY <2>1, CountDown DEF IInv
<1>10. ASSUME NEW m \in Mutators, BarrierNotify(m) PROVE num' = Cardinality(Unscanned')
  BY <1>10
  DEF BarrierNotify, Goto, markVars, Unscanned, ControlInv, ClaimInv,
      Claimed, GcScans, kNeedScan, kInScan, kFinishScan
<1>11. ASSUME NEW m \in Mutators, BarrierFinish(m) PROVE num' = Cardinality(Unscanned')
  BY <1>11
  DEF BarrierFinish, Goto, gcVars, markVars, Unscanned, ControlInv,
      ClaimInv, Claimed, GcScans, kNeedScan, kInScan, kFinishScan
<1>12. ASSUME NEW m \in Mutators, BarrierErase(m) PROVE num' = Cardinality(Unscanned')
  BY <1>12
  DEF BarrierErase, Goto, gcVars, markVars, Unscanned, ControlInv, ClaimInv,
      Claimed, GcScans, kNeedScan, kInScan, kFinishScan
<1>13. ASSUME NEW m \in Mutators, GcPick(m) PROVE num' = Cardinality(Unscanned')
  BY <1>13
  DEF GcPick, mutVars, markVars, Unscanned, ControlInv, ClaimInv, Claimed,
      GcScans, kNeedScan, kInScan, kFinishScan
<1>14. CASE FastScanRoots
  <2>1. \A m \in Mutators : mpc[m] \notin {"bar_scan", "bar_sub"}
    BY <1>14 DEF FastScanRoots, CanStop, ListLocked, BarrierPCs, ControlInv
  <2>2. \A m \in Mutators : scanState[m] # kNeedScan
    BY <1>14 DEF FastScanRoots, ControlInv, ClaimInv, PickPCs
  <2>3. Unscanned' = list
    BY <1>14, <2>1, <2>2
    DEF FastScanRoots, mutVars, Unscanned, kNeedScan, kFinishScan
  <2>4. QED
    BY <1>14, <2>3 DEF FastScanRoots
<1>15. CASE GcPickDone
  BY <1>15
  DEF GcPickDone, mutVars, markVars, Unscanned, ControlInv, ClaimInv,
      Claimed, GcScans, kNeedScan, kInScan, kFinishScan
<1>16. CASE GcScan
  BY <1>16
  DEF GcScan, mutVars, Unscanned, ControlInv, ClaimInv, Claimed, GcScans,
      kNeedScan, kInScan, kFinishScan
<1>17. CASE GcSub
  <2>1. cur \in Unscanned /\ Unscanned' = Unscanned \ {cur} /\ num' = num - 1
    BY <1>17
    DEF GcSub, mutVars, Unscanned, ControlInv, ClaimInv, Claimed, GcScans,
        kNeedScan, kInScan
  <2>2. cur \in Mutators
    BY <1>17 DEF GcSub, ControlInv
  <2>3. QED
    BY <2>1, <2>2, CountDown DEF IInv
<1>18. CASE GcFinish
  BY <1>18
  DEF GcFinish, mutVars, markVars, Unscanned, ControlInv, ClaimInv, Claimed,
      GcScans, kNeedScan, kInScan, kFinishScan
<1>19. CASE GcWake
  BY <1>19
  DEF GcWake, mutVars, markVars, Unscanned, ControlInv, ClaimInv, Claimed,
      GcScans, kNeedScan, kInScan, kFinishScan
<1>20. CASE GcDrain
  BY <1>20
  DEF GcDrain, mutVars, Unscanned, ControlInv, ClaimInv, Claimed, GcScans,
      kNeedScan, kInScan, kFinishScan
<1>21. CASE GcCheck
  BY <1>21
  DEF GcCheck, mutVars, markVars, Unscanned, ControlInv, ClaimInv, Claimed,
      GcScans, kNeedScan, kInScan, kFinishScan
<1>22. CASE GcCvPred
  BY <1>22
  DEF GcCvPred, mutVars, markVars, Unscanned, ControlInv, ClaimInv, Claimed,
      GcScans, kNeedScan, kInScan, kFinishScan
<1>23. CASE GcCvSleep
  BY <1>23
  DEF GcCvSleep, mutVars, markVars, Unscanned, ControlInv, ClaimInv,
      Claimed, GcScans, kNeedScan, kInScan, kFinishScan
<1>24. CASE GcCvWoken
  BY <1>24
  DEF GcCvWoken, mutVars, markVars, Unscanned, ControlInv, ClaimInv,
      Claimed, GcScans, kNeedScan, kInScan, kFinishScan
<1>25. CASE GcReMark
  BY <1>25
  DEF GcReMark, mutVars, markVars, Unscanned, ControlInv, ClaimInv, Claimed,
      GcScans, kNeedScan, kInScan, kFinishScan
<1>26. CASE ConcurrentMarkCleanup
  BY <1>26
  DEF ConcurrentMarkCleanup, mutVars, CanStop, Unscanned, ControlInv,
      ClaimInv, Claimed, GcScans, kNeedScan, kInScan, kFinishScan
<1>27. CASE GcSweep
  BY <1>27
  DEF GcSweep, mutVars, markVars, Unscanned, ControlInv, ClaimInv, Claimed,
      GcScans, kNeedScan, kInScan, kFinishScan
<1>28. CASE UNCHANGED vars
  BY <1>28
  DEF vars, mutVars, gcVars, markVars, Unscanned, ControlInv, ClaimInv,
      Claimed, GcScans, kNeedScan, kInScan, kFinishScan
<1>29. QED
  BY <1>1, <1>2, <1>3, <1>4, <1>5, <1>6, <1>7, <1>8, <1>9, <1>10, <1>11,
      <1>12, <1>13, <1>14, <1>15, <1>16, <1>17, <1>18, <1>19, <1>20, <1>21,
      <1>22, <1>23, <1>24, <1>25, <1>26, <1>27, <1>28
  DEF Next, GcStep, BarrierStep, MutatorStep

\* Every variable keeps its type.
LEMMA TypeStep ==
    ASSUME IInv, [Next]_vars
    PROVE  TypeOK'
<1> USE DEF IInv, TypeOK, MutatorPCs, BarrierPCs, kReMarkRounds, kNeedScan,
            kInScan, kFinishScan
<1> USE MutatorsAssumption
<1>0. num' \in Nat
  <2>1. Unscanned' \subseteq Mutators
    BY DEF Unscanned
  <2>2. QED
    BY <2>1, CountStep, MutatorSets
<1>1. ASSUME NEW m \in Mutators, Attach(m) PROVE TypeOK'
  BY <1>1, <1>0
  DEF Attach, Goto, gcVars, markVars
<1>2. ASSUME NEW m \in Mutators, EnterSaferegion(m) PROVE TypeOK'
  BY <1>2, <1>0
  DEF EnterSaferegion, Goto, gcVars, markVars
<1>3. ASSUME NEW m \in Mutators, LeaveSaferegion(m) PROVE TypeOK'
  BY <1>3, <1>0
  DEF LeaveSaferegion, Goto, gcVars, markVars
<1>4. ASSUME NEW m \in Mutators, Detach(m) PROVE TypeOK'
  BY <1>4, <1>0
  DEF Detach, Goto, gcVars, markVars
<1>5. ASSUME NEW m \in Mutators, Delete(m) PROVE TypeOK'
  BY <1>5, <1>0
  DEF Delete, Goto, gcVars, markVars
<1>6. ASSUME NEW m \in Mutators, BarrierTry(m) PROVE TypeOK'
  BY <1>6, <1>0
  DEF BarrierTry, Goto, gcVars, markVars
<1>7. ASSUME NEW m \in Mutators, BarrierWoken(m) PROVE TypeOK'
  BY <1>7, <1>0
  DEF BarrierWoken, Goto, gcVars, markVars
<1>8. ASSUME NEW m \in Mutators, BarrierScan(m) PROVE TypeOK'
  BY <1>8, <1>0
  DEF BarrierScan, Goto, gcVars
<1>9. ASSUME NEW m \in Mutators, BarrierSub(m) PROVE TypeOK'
  BY <1>9, <1>0
  DEF BarrierSub, Goto, gcVars, markVars
<1>10. ASSUME NEW m \in Mutators, BarrierNotify(m) PROVE TypeOK'
  BY <1>10, <1>0
  DEF BarrierNotify, Goto, markVars
<1>11. ASSUME NEW m \in Mutators, BarrierFinish(m) PROVE TypeOK'
  BY <1>11, <1>0
  DEF BarrierFinish, Goto, gcVars, markVars
<1>12. ASSUME NEW m \in Mutators, BarrierErase(m) PROVE TypeOK'
  BY <1>12, <1>0
  DEF BarrierErase, Goto, gcVars, markVars
<1>13. ASSUME NEW m \in Mutators, GcPick(m) PROVE TypeOK'
  BY <1>13, <1>0
  DEF GcPick, mutVars, markVars
<1>14. CASE FastScanRoots
  BY <1>14, <1>0
  DEF FastScanRoots, mutVars, CanStop
<1>15. CASE GcPickDone
  BY <1>15, <1>0
  DEF GcPickDone, mutVars, markVars
<1>16. CASE GcScan
  BY <1>16, <1>0 DEF GcScan, mutVars, ControlInv
<1>17. CASE GcSub
  BY <1>17, <1>0
  DEF GcSub, mutVars, markVars
<1>18. CASE GcFinish
  BY <1>18, <1>0
  DEF GcFinish, mutVars, markVars
<1>19. CASE GcWake
  BY <1>19, <1>0
  DEF GcWake, mutVars, markVars
<1>20. CASE GcDrain
  BY <1>20, <1>0
  DEF GcDrain, mutVars
<1>21. CASE GcCheck
  BY <1>21, <1>0
  DEF GcCheck, mutVars, markVars
<1>22. CASE GcCvPred
  BY <1>22, <1>0
  DEF GcCvPred, mutVars, markVars
<1>23. CASE GcCvSleep
  BY <1>23, <1>0
  DEF GcCvSleep, mutVars, markVars
<1>24. CASE GcCvWoken
  BY <1>24, <1>0
  DEF GcCvWoken, mutVars, markVars
<1>25. CASE GcReMark
  BY <1>25, <1>0
  DEF GcReMark, mutVars, markVars
<1>26. CASE ConcurrentMarkCleanup
  BY <1>26, <1>0
  DEF ConcurrentMarkCleanup, mutVars, CanStop
<1>27. CASE GcSweep
  BY <1>27, <1>0
  DEF GcSweep, mutVars, markVars
<1>28. CASE UNCHANGED vars
  BY <1>28, <1>0
  DEF vars, mutVars, gcVars, markVars
<1>29. QED
  BY <1>1, <1>2, <1>3, <1>4, <1>5, <1>6, <1>7, <1>8, <1>9, <1>10, <1>11,
      <1>12, <1>13, <1>14, <1>15, <1>16, <1>17, <1>18, <1>19, <1>20, <1>21,
      <1>22, <1>23, <1>24, <1>25, <1>26, <1>27, <1>28
  DEF Next, GcStep, BarrierStep, MutatorStep

\* List, snapshot and the GC thread's current mutator.
LEMMA ControlStep ==
    ASSUME IInv, [Next]_vars
    PROVE  ControlInv'
<1> USE DEF IInv, TypeOK, ControlInv, PickPCs, BarrierPCs
<1>1. ASSUME NEW m \in Mutators, Attach(m) PROVE ControlInv'
  BY <1>1
  DEF Attach, Goto, gcVars, markVars
<1>2. ASSUME NEW m \in Mutators, EnterSaferegion(m) PROVE ControlInv'
  BY <1>2
  DEF EnterSaferegion, Goto, gcVars, markVars
<1>3. ASSUME NEW m \in Mutators, LeaveSaferegion(m) PROVE ControlInv'
  BY <1>3
  DEF LeaveSaferegion, Goto, gcVars, markVars
<1>4. ASSUME NEW m \in Mutators, Detach(m) PROVE ControlInv'
  BY <1>4
  DEF Detach, Goto, gcVars, markVars
<1>5. ASSUME NEW m \in Mutators, Delete(m) PROVE ControlInv'
  BY <1>5
  DEF Delete, Goto, gcVars, markVars
<1>6. ASSUME NEW m \in Mutators, BarrierTry(m) PROVE ControlInv'
  BY <1>6
  DEF BarrierTry, Goto, gcVars, markVars
<1>7. ASSUME NEW m \in Mutators, BarrierWoken(m) PROVE ControlInv'
  BY <1>7
  DEF BarrierWoken, Goto, gcVars, markVars
<1>8. ASSUME NEW m \in Mutators, BarrierScan(m) PROVE ControlInv'
  BY <1>8
  DEF BarrierScan, Goto, gcVars
<1>9. ASSUME NEW m \in Mutators, BarrierSub(m) PROVE ControlInv'
  BY <1>9
  DEF BarrierSub, Goto, gcVars, markVars
<1>10. ASSUME NEW m \in Mutators, BarrierNotify(m) PROVE ControlInv'
  BY <1>10
  DEF BarrierNotify, Goto, markVars
<1>11. ASSUME NEW m \in Mutators, BarrierFinish(m) PROVE ControlInv'
  BY <1>11
  DEF BarrierFinish, Goto, gcVars, markVars
<1>12. ASSUME NEW m \in Mutators, BarrierErase(m) PROVE ControlInv'
  BY <1>12
  DEF BarrierErase, Goto, gcVars, markVars
<1>13. ASSUME NEW m \in Mutators, GcPick(m) PROVE ControlInv'
  BY <1>13
  DEF GcPick, mutVars, markVars
<1>14. CASE FastScanRoots
  BY <1>14
  DEF FastScanRoots, mutVars, CanStop
<1>15. CASE GcPickDone
  BY <1>15
  DEF GcPickDone, mutVars, markVars
<1>16. CASE GcScan
  BY <1>16
  DEF GcScan, mutVars
<1>17. CASE GcSub
  BY <1>17
  DEF GcSub, mutVars, markVars
<1>18. CASE GcFinish
  BY <1>18
  DEF GcFinish, mutVars, markVars
<1>19. CASE GcWake
  BY <1>19
  DEF GcWake, mutVars, markVars
<1>20. CASE GcDrain
  BY <1>20
  DEF GcDrain, mutVars
<1>21. CASE GcCheck
  BY <1>21
  DEF GcCheck, mutVars, markVars
<1>22. CASE GcCvPred
  BY <1>22
  DEF GcCvPred, mutVars, markVars
<1>23. CASE GcCvSleep
  BY <1>23
  DEF GcCvSleep, mutVars, markVars
<1>24. CASE GcCvWoken
  BY <1>24
  DEF GcCvWoken, mutVars, markVars
<1>25. CASE GcReMark
  BY <1>25
  DEF GcReMark, mutVars, markVars
<1>26. CASE ConcurrentMarkCleanup
  BY <1>26
  DEF ConcurrentMarkCleanup, mutVars, CanStop
<1>27. CASE GcSweep
  BY <1>27
  DEF GcSweep, mutVars, markVars
<1>28. CASE UNCHANGED vars
  BY <1>28
  DEF vars, mutVars, gcVars, markVars
<1>29. QED
  BY <1>1, <1>2, <1>3, <1>4, <1>5, <1>6, <1>7, <1>8, <1>9, <1>10, <1>11,
      <1>12, <1>13, <1>14, <1>15, <1>16, <1>17, <1>18, <1>19, <1>20, <1>21,
      <1>22, <1>23, <1>24, <1>25, <1>26, <1>27, <1>28
  DEF Next, GcStep, BarrierStep, MutatorStep

\* A stack has one scanner, and its mutator does not get away meanwhile.
LEMMA ClaimStep ==
    ASSUME IInv, [Next]_vars
    PROVE  ClaimInv'
<1> USE DEF IInv, TypeOK, ClaimInv, Claimed, GcScans, kNeedScan, kInScan,
            kFinishScan
<1>1. ASSUME NEW m \in Mutators, Attach(m) PROVE ClaimInv'
  BY <1>1
  DEF Attach, Goto, gcVars, markVars, ControlInv, PickPCs
<1>2. ASSUME NEW m \in Mutators, EnterSaferegion(m) PROVE ClaimInv'
  BY <1>2
  DEF EnterSaferegion, Goto, gcVars, markVars, ControlInv, PickPCs
<1>3. ASSUME NEW m \in Mutators, LeaveSaferegion(m) PROVE ClaimInv'
  BY <1>3
  DEF LeaveSaferegion, Goto, gcVars, markVars, ControlInv, PickPCs
<1>4. ASSUME NEW m \in Mutators, Detach(m) PROVE ClaimInv'
  BY <1>4
  DEF Detach, Goto, gcVars, markVars, ControlInv, PickPCs
<1>5. ASSUME NEW m \in Mutators, Delete(m) PROVE ClaimInv'
  BY <1>5
  DEF Delete, Goto, gcVars, markVars, ControlInv, PickPCs
<1>6. ASSUME NEW m \in Mutators, BarrierTry(m) PROVE ClaimInv'
  BY <1>6
  DEF BarrierTry, Goto, gcVars, markVars, ControlInv, PickPCs
<1>7. ASSUME NEW m \in Mutators, BarrierWoken(m) PROVE ClaimInv'
  BY <1>7
  DEF BarrierWoken, Goto, gcVars, markVars, ControlInv, PickPCs
<1>8. ASSUME NEW m \in Mutators, BarrierScan(m) PROVE ClaimInv'
  BY <1>8
  DEF BarrierScan, Goto, gcVars, ControlInv, PickPCs
<1>9. ASSUME NEW m \in Mutators, BarrierSub(m) PROVE ClaimInv'
  BY <1>9
  DEF BarrierSub, Goto, gcVars, markVars, ControlInv, PickPCs
<1>10. ASSUME NEW m \in Mutators, BarrierNotify(m) PROVE ClaimInv'
  BY <1>10
  DEF BarrierNotify, Goto, markVars, ControlInv, PickPCs
<1>11. ASSUME NEW m \in Mutators, BarrierFinish(m) PROVE ClaimInv'
  BY <1>11
  DEF BarrierFinish, Goto, gcVars, markVars, ControlInv, PickPCs
<1>12. ASSUME NEW m \in Mutators, BarrierErase(m) PROVE ClaimInv'
  BY <1>12
  DEF BarrierErase, Goto, gcVars, markVars, ControlInv, PickPCs
<1>13. ASSUME NEW m \in Mutators, GcPick(m) PROVE ClaimInv'
  BY <1>13
  DEF GcPick, mutVars, markVars, ControlInv, PickPCs
<1>14. CASE FastScanRoots
  <2>1. \A m \in Mutators : scanState[m] = kFinishScan /\ ~Claimed(m)
    BY <1>14
    DEF FastScanRoots, CanStop, ListLocked, BarrierPCs, ControlInv, PickPCs
  <2>2. QED
    BY <1>14, <2>1 DEF FastScanRoots, CanStop, mutVars, gcVars, ControlInv
<1>15. CASE GcPickDone
  BY <1>15
  DEF GcPickDone, mutVars, markVars, ControlInv, PickPCs
<1>16. CASE GcScan
  BY <1>16
  DEF GcScan, mutVars, ControlInv, PickPCs
<1>17. CASE GcSub
  BY <1>17
  DEF GcSub, mutVars, markVars, ControlInv, PickPCs
<1>18. CASE GcFinish
  BY <1>18
  DEF GcFinish, mutVars, markVars, ControlInv, PickPCs
<1>19. CASE GcWake
  BY <1>19
  DEF GcWake, mutVars, markVars, ControlInv, PickPCs
<1>20. CASE GcDrain
  BY <1>20
  DEF GcDrain, mutVars, ControlInv, PickPCs
<1>21. CASE GcCheck
  BY <1>21
  DEF GcCheck, mutVars, markVars, ControlInv, PickPCs
<1>22. CASE GcCvPred
  BY <1>22
  DEF GcCvPred, mutVars, markVars, ControlInv, PickPCs
<1>23. CASE GcCvSleep
  BY <1>23
  DEF GcCvSleep, mutVars, markVars, ControlInv, PickPCs
<1>24. CASE GcCvWoken
  BY <1>24
  DEF GcCvWoken, mutVars, markVars, ControlInv, PickPCs
<1>25. CASE GcReMark
  BY <1>25
  DEF GcReMark, mutVars, markVars, ControlInv, PickPCs
<1>26. CASE ConcurrentMarkCleanup
  BY <1>26
  DEF ConcurrentMarkCleanup, mutVars, CanStop, ControlInv, PickPCs
<1>27. CASE GcSweep
  BY <1>27
  DEF GcSweep, mutVars, markVars, ControlInv, PickPCs
<1>28. CASE UNCHANGED vars
  BY <1>28
  DEF vars, mutVars, gcVars, markVars, ControlInv, PickPCs
<1>29. QED
  BY <1>1, <1>2, <1>3, <1>4, <1>5, <1>6, <1>7, <1>8, <1>9, <1>10, <1>11,
      <1>12, <1>13, <1>14, <1>15, <1>16, <1>17, <1>18, <1>19, <1>20, <1>21,
      <1>22, <1>23, <1>24, <1>25, <1>26, <1>27, <1>28
  DEF Next, GcStep, BarrierStep, MutatorStep

\* No stack of the snapshot is lost on the way to the mark tasks.
LEMMA TargetStep ==
    ASSUME IInv, [Next]_vars
    PROVE  TargetInv'
<1> USE DEF IInv, TypeOK, TargetInv, kNeedScan, kInScan, kFinishScan
<1>1. ASSUME NEW m \in Mutators, Attach(m) PROVE TargetInv'
  BY <1>1
  DEF Attach, Goto, gcVars, markVars, ControlInv, ClaimInv, Claimed, GcScans
<1>2. ASSUME NEW m \in Mutators, EnterSaferegion(m) PROVE TargetInv'
  BY <1>2
  DEF EnterSaferegion, Goto, gcVars, markVars, ControlInv, ClaimInv,
      Claimed, GcScans
<1>3. ASSUME NEW m \in Mutators, LeaveSaferegion(m) PROVE TargetInv'
  BY <1>3
  DEF LeaveSaferegion, Goto, gcVars, markVars, ControlInv, ClaimInv,
      Claimed, GcScans
<1>4. ASSUME NEW m \in Mutators, Detach(m) PROVE TargetInv'
  BY <1>4
  DEF Detach, Goto, gcVars, markVars, ControlInv, ClaimInv, Claimed, GcScans
<1>5. ASSUME NEW m \in Mutators, Delete(m) PROVE TargetInv'
  BY <1>5
  DEF Delete, Goto, gcVars, markVars, ControlInv, ClaimInv, Claimed, GcScans
<1>6. ASSUME NEW m \in Mutators, BarrierTry(m) PROVE TargetInv'
  BY <1>6
  DEF BarrierTry, Goto, gcVars, markVars, ControlInv, ClaimInv, Claimed,
      GcScans
<1>7. ASSUME NEW m \in Mutators, BarrierWoken(m) PROVE TargetInv'
  BY <1>7
  DEF BarrierWoken, Goto, gcVars, markVars, ControlInv, ClaimInv, Claimed,
      GcScans
<1>8. ASSUME NEW m \in Mutators, BarrierScan(m) PROVE TargetInv'
  BY <1>8
  DEF BarrierScan, Goto, gcVars, ControlInv, ClaimInv, Claimed, GcScans
<1>9. ASSUME NEW m \in Mutators, BarrierSub(m) PROVE TargetInv'
  BY <1>9
  DEF BarrierSub, Goto, gcVars, markVars, ControlInv, ClaimInv, Claimed,
      GcScans
<1>10. ASSUME NEW m \in Mutators, BarrierNotify(m) PROVE TargetInv'
  BY <1>10
  DEF BarrierNotify, Goto, markVars, ControlInv, ClaimInv, Claimed, GcScans
<1>11. ASSUME NEW m \in Mutators, BarrierFinish(m) PROVE TargetInv'
  BY <1>11
  DEF BarrierFinish, Goto, gcVars, markVars, ControlInv, ClaimInv, Claimed,
      GcScans
<1>12. ASSUME NEW m \in Mutators, BarrierErase(m) PROVE TargetInv'
  BY <1>12
  DEF BarrierErase, Goto, gcVars, markVars, ControlInv, ClaimInv, Claimed,
      GcScans
<1>13. ASSUME NEW m \in Mutators, GcPick(m) PROVE TargetInv'
  BY <1>13
  DEF GcPick, mutVars, markVars, ControlInv, ClaimInv, Claimed, GcScans
<1>14. CASE FastScanRoots
  BY <1>14
  DEF FastScanRoots, mutVars, CanStop, ControlInv, ClaimInv, Claimed,
      GcScans
<1>15. CASE GcPickDone
  BY <1>15
  DEF GcPickDone, mutVars, markVars, ControlInv, ClaimInv, Claimed, GcScans
<1>16. CASE GcScan
  BY <1>16
  DEF GcScan, mutVars, ControlInv, ClaimInv, Claimed, GcScans
<1>17. CASE GcSub
  BY <1>17
  DEF GcSub, mutVars, markVars, ControlInv, ClaimInv, Claimed, GcScans
<1>18. CASE GcFinish
  BY <1>18
  DEF GcFinish, mutVars, markVars, ControlInv, ClaimInv, Claimed, GcScans
<1>19. CASE GcWake
  BY <1>19
  DEF GcWake, mutVars, markVars, ControlInv, ClaimInv, Claimed, GcScans
<1>20. CASE GcDrain
  BY <1>20
  DEF GcDrain, mutVars, ControlInv, ClaimInv, Claimed, GcScans
<1>21. CASE GcCheck
  BY <1>21
  DEF GcCheck, mutVars, markVars, ControlInv, ClaimInv, Claimed, GcScans
<1>22. CASE GcCvPred
  BY <1>22
  DEF GcCvPred, mutVars, markVars, ControlInv, ClaimInv, Claimed, GcScans
<1>23. CASE GcCvSleep
  BY <1>23
  DEF GcCvSleep, mutVars, markVars, ControlInv, ClaimInv, Claimed, GcScans
<1>24. CASE GcCvWoken
  BY <1>24
  DEF GcCvWoken, mutVars, markVars, ControlInv, ClaimInv, Claimed, GcScans
<1>25. CASE GcReMark
  BY <1>25
  DEF GcReMark, mutVars, markVars, ControlInv, ClaimInv, Claimed, GcScans
<1>26. CASE ConcurrentMarkCleanup
  <2>1. \A m \in target : mpc[m] # "bar_scan"
    BY <1>26
    DEF ConcurrentMarkCleanup, CanStop, ListLocked, BarrierPCs, ControlInv
  <2>2. \A m \in target : scanState[m] # kNeedScan
    BY <1>26 DEF ConcurrentMarkCleanup, ControlInv, PickPCs, ClaimInv
  <2>3. QED
    BY <1>26, <2>1, <2>2 DEF ConcurrentMarkCleanup, mutVars
<1>27. CASE GcSweep
  BY <1>27
  DEF GcSweep, mutVars, markVars, ControlInv, ClaimInv, Claimed, GcScans
<1>28. CASE UNCHANGED vars
  BY <1>28
  DEF vars, mutVars, gcVars, markVars, ControlInv, ClaimInv, Claimed,
      GcScans
<1>29. QED
  BY <1>1, <1>2, <1>3, <1>4, <1>5, <1>6, <1>7, <1>8, <1>9, <1>10, <1>11,
      <1>12, <1>13, <1>14, <1>15, <1>16, <1>17, <1>18, <1>19, <1>20, <1>21,
      <1>22, <1>23, <1>24, <1>25, <1>26, <1>27, <1>28
  DEF Next, GcStep, BarrierStep, MutatorStep

\* Whoever falls asleep on its scanState is the one the GC thread works on, and
\* GcWake comes before the GC thread turns to the next.
LEMMA FutexStep ==
    ASSUME IInv, [Next]_vars
    PROVE  FutexWoken'
<1> USE DEF FutexWoken
<1>0. /\ FutexWoken /\ scanWait \subseteq Mutators /\ mpc \in [Mutators -> MutatorPCs]
      /\ cur \in Mutators \cup {NoOne}
  BY DEF IInv, TypeOK, NumIsExact
<1>1. ASSUME NEW m \in Mutators, UNCHANGED <<scanWait, gpc, cur>>,
             \A n \in Mutators \ {m} : mpc'[n] = mpc[n], m \notin scanWait
      PROVE  FutexWoken'
  BY <1>0, <1>1
<1>2. ASSUME NEW m \in Mutators, MutatorStep(m) PROVE FutexWoken'
  <2>1. /\ UNCHANGED <<scanWait, gpc, cur>> /\ mpc[m] # "bar_wait"
        /\ \A n \in Mutators \ {m} : mpc'[n] = mpc[n]
    BY <1>0, <1>2
    DEF MutatorStep, Attach, EnterSaferegion, LeaveSaferegion, Detach, Goto, gcVars
  <2>2. m \notin scanWait
    BY <1>0, <2>1
  <2>3. QED
    BY <1>1, <2>1, <2>2
<1>3. ASSUME NEW m \in Mutators, BarrierStep(m), ~BarrierTry(m) PROVE FutexWoken'
  <2>1. /\ UNCHANGED <<scanWait, gpc, cur>>
        /\ mpc[m] # "bar_wait" \/ m \notin scanWait
        /\ \A n \in Mutators \ {m} : mpc'[n] = mpc[n]
    BY <1>0, <1>3
    DEF BarrierStep, BarrierWoken, BarrierScan, BarrierSub, BarrierNotify, BarrierFinish,
        BarrierErase, Delete, Goto, gcVars
  <2>2. m \notin scanWait
    BY <1>0, <2>1
  <2>3. QED
    BY <1>1, <2>1, <2>2
<1>4. ASSUME NEW m \in Mutators, BarrierTry(m) PROVE FutexWoken'
  <2>1. mpc[m] = "bar_try" /\ m \notin scanWait /\ UNCHANGED <<gpc, cur>>
    BY <1>0, <1>4 DEF BarrierTry, gcVars
  <2>2. CASE scanState[m] # kInScan
    <3>1. UNCHANGED scanWait /\ \A n \in Mutators \ {m} : mpc'[n] = mpc[n]
      BY <1>0, <1>4, <2>2 DEF BarrierTry, Goto, kInScan, kFinishScan, kNeedScan
    <3>2. QED
      BY <1>1, <2>1, <3>1
  <2>3. CASE scanState[m] = kInScan
    <3>1. GcScans(m)
      BY <2>1, <2>3 DEF IInv, ClaimInv, Claimed
    <3>2. scanWait' = scanWait \cup {m} /\ mpc' = [mpc EXCEPT ![m] = "bar_wait"]
      BY <1>4, <2>3 DEF BarrierTry, Goto, kInScan, kFinishScan, kNeedScan
    <3>3. QED
      BY <1>0, <2>1, <3>1, <3>2 DEF GcScans
  <2>4. QED
    BY <2>2, <2>3
<1>5. CASE FastScanRoots
  BY <1>0, <1>5 DEF FastScanRoots, mutVars
<1>6. ASSUME NEW m \in Mutators, GcPick(m) PROVE FutexWoken'
  BY <1>0, <1>6 DEF GcPick, mutVars
<1>7. CASE GcPickDone \/ GcScan \/ GcSub \/ GcFinish
  BY <1>0, <1>7 DEF GcPickDone, GcScan, GcSub, GcFinish, mutVars
<1>8. CASE GcWake
  BY <1>0, <1>8 DEF GcWake, mutVars
<1>9. CASE GcDrain \/ GcCheck \/ GcCvPred \/ GcCvSleep \/ GcCvWoken
  BY <1>0, <1>9 DEF GcDrain, GcCheck, GcCvPred, GcCvSleep, GcCvWoken, mutVars
<1>10. CASE GcReMark \/ ConcurrentMarkCleanup \/ GcSweep
  BY <1>0, <1>10 DEF GcReMark, ConcurrentMarkCleanup, GcSweep, mutVars
<1>11. CASE UNCHANGED vars
  BY <1>0, <1>11 DEF vars, mutVars, gcVars
<1>12. QED
  BY <1>2, <1>3, <1>4, <1>5, <1>6, <1>7, <1>8, <1>9, <1>10, <1>11 DEF Next, GcStep

-----------------------------------------------------------------------------
(* Theorems.                                                               *)

\* IInv holds in every reachable state of the stack scan, for any finite set
\* of mutators.
THEOREM InductiveInvariant == Spec => []IInv
<1>1. Init => IInv
  <2> SUFFICES ASSUME Init PROVE IInv
    OBVIOUS
  <2>1. TypeOK
    <3>1. mpc \in [Mutators -> MutatorPCs]
      BY DEF Init, MutatorPCs
    <3>2. /\ after \in [Mutators -> {"managed", "delete"}]
          /\ scanState \in [Mutators -> {kNeedScan, kInScan, kFinishScan}]
      BY DEF Init
    <3>3. num \in Nat /\ round \in 0 .. kReMarkRounds
      BY DEF Init, kReMarkRounds
    <3>4. cvWait \in BOOLEAN
      BY DEF Init
    <3>5. QED
      BY <3>1, <3>2, <3>3, <3>4 DEF Init, TypeOK
  <2>2. Unscanned = {}
    BY DEF Init, Unscanned, kNeedScan, kFinishScan
  <2>3. NumIsExact
    BY <2>1, <2>2, FS_EmptySet DEF Init, NumIsExact, FutexWoken
  <2>4. ControlInv /\ ClaimInv /\ TargetInv
    BY DEF Init, ControlInv, ClaimInv, TargetInv, Claimed, GcScans, PickPCs,
           BarrierPCs, kNeedScan, kInScan, kFinishScan
  <2>5. QED
    BY <2>1, <2>3, <2>4 DEF IInv
<1>2. IInv /\ [Next]_vars => IInv'
  BY CountStep, TypeStep, ControlStep, ClaimStep, TargetStep, FutexStep
  DEF IInv, NumIsExact
<1>3. QED
  BY <1>1, <1>2, PTL DEF Spec

\* numMutatorToBeScan is the number of stacks still to be scanned, so that
\* neither side scans a stack twice and the counter never wraps around
\* (Mutator::TrySetScanState, ScanStackAndMark).
THEOREM NumCorrect == Spec => []NumIsExact
<1>1. IInv => NumIsExact
  BY DEF IInv
<1>2. QED
  BY <1>1, InductiveInvariant, PTL

\* FUTEX_WAKE reaches every mutator that sleeps in StackScanBarrier: it sleeps
\* only while the GC thread is between its claim of that mutator's stack and the
\* wake-up (TrySetScanState, FinishStackScan).
THEOREM WakeupsArrive == Spec => []FutexWoken
<1>1. IInv => FutexWoken
  BY DEF IInv, NumIsExact
<1>2. QED
  BY <1>1, InductiveInvariant, PTL

\* StackScanBarrier keeps a mutator of the snapshot from managed code until
\* its stack is a mark task.
THEOREM RunsAfterScan == Spec => []ScannedBeforeRun
<1>1. IInv => ScannedBeforeRun
  <2> SUFFICES ASSUME IInv, NEW m \in target, mpc[m] = "managed"
               PROVE  m \in tasks \cup traced
    BY DEF ScannedBeforeRun
  <2>1. m \in Mutators
    BY DEF IInv, TypeOK
  <2>2. scanState[m] # kNeedScan /\ ~GcScans(m)
    BY <2>1 DEF IInv, ClaimInv
  <2>3. QED
    BY <2>2 DEF IInv, TargetInv, GcScans
<1>2. QED
  BY <1>1, InductiveInvariant, PTL

\* At the end of the second pause every stack of the snapshot is traced.
THEOREM AllStacksTraced == Spec => []StacksComplete
<1>1. IInv => StacksComplete
  BY DEF IInv, TargetInv, StacksComplete
<1>2. QED
  BY <1>1, InductiveInvariant, PTL

\* ConcurrentStackScan never works on a Mutator object that its thread has
\* deleted.
THEOREM MutatorAlive == Spec => []NoUseAfterFree
<1>1. IInv => NoUseAfterFree
  <2> SUFFICES ASSUME IInv PROVE NoUseAfterFree
    OBVIOUS
  <2>1. \A m \in snapshot : mpc[m] # "out"
    BY DEF IInv, TypeOK, ClaimInv, Claimed
  <2>2. gpc \in {"scan", "sub", "finish"} => mpc[cur] # "out"
    BY DEF IInv, ControlInv, ClaimInv, GcScans
  <2>3. QED
    BY <2>1, <2>2 DEF NoUseAfterFree
<1>2. QED
  BY <1>1, InductiveInvariant, PTL

=============================================================================
