------------------------- MODULE FinalizationProofs -------------------------
(***************************************************************************)
(* Proofs about Finalization for any finite set of objects and any         *)
(* mutators.                                                               *)
(*                                                                         *)
(* Each of the two working lists belongs to the holder of its lock and is  *)
(* empty when the lock is free, so a swap hands an empty list back and no  *)
(* object returns to finalizables.  What was queued at a moment is from    *)
(* then on finalized, dropped as an object of the zygote, or in one of the *)
(* lists it can still be in; each lock that RunFinalization takes, and the *)
(* last round of the RP thread, rules one of these lists out.              *)
(***************************************************************************)
EXTENDS Finalization, FiniteSetTheorems, TLAPS

-----------------------------------------------------------------------------
(* The inductive invariant.                                                *)

Lists == {"finalizables", "working", "run"}
Callers == Mutators \cup {"ctl"}

TypeInv ==
    /\ rp \in [pc : RpPcs, started : BOOLEAN, running : BOOLEAN, finalizeOnStop : BOOLEAN,
               processAll : BOOLEAN, last : BOOLEAN]
    /\ ctl \in {"create", "waitStarted", "up", "stop", "waitStop", "fork", "done"}
    /\ fin \in [Lists -> Seq(Objs)]
    /\ finalized \in [Objs -> Nat]
    /\ lock \in [processing : Mutators \cup {"rp", NoOne}, run : Mutators \cup {NoOne}]
    /\ mpc \in [Mutators -> MPcs] /\ gc \in {"idle", "notify"}
    /\ due \in [Callers -> SUBSET Objs]
    /\ zygote \in [hasForked : BOOLEAN, mygote : SUBSET Objs]

Distinct(s) == \A i, j \in 1 .. Len(s) : s[i] = s[j] => i = j

\* The lists hold each object at most once, and in one of them only.
ListInv ==
    /\ \A l \in Lists : Distinct(fin[l])
    /\ \A k, l \in Lists : k # l => ToSet(fin[k]) \cap ToSet(fin[l]) = {}

\* Who processes a list holds its lock.
LockInv ==
    /\ lock.processing = "rp" <=> rp.pc \in {"swap", "finalize", "finalizing"}
    /\ \A m \in Mutators : lock.processing = m <=> mpc[m] = "synced"
    /\ \A m \in Mutators : lock.run = m <=> mpc[m] \in {"swap", "finalize", "finalizing"}
    /\ rp.pc \notin {"finalize", "finalizing"} => fin.working = << >>
    /\ fin.run # << >> => \E m \in Mutators : mpc[m] \in {"finalize", "finalizing"}

\* A queued object is not finalized yet, except the first of a list whose
\* finalize() is running or has just run.
OnceInv ==
    /\ \A o \in Objs : finalized[o] <= 1
    /\ \A o \in ToSet(fin.finalizables) : finalized[o] = 0
    /\ \A i \in 1 .. Len(fin.working) :
          finalized[fin.working[i]] = IF i = 1 /\ rp.pc = "finalizing" THEN 1 ELSE 0
    /\ \A i \in 1 .. Len(fin.run) :
          finalized[fin.run[i]] =
             IF i = 1 /\ \E m \in Mutators : mpc[m] = "finalizing" THEN 1 ELSE 0

\* Where an object that RunFinalization, or Stop, has found queued can be.
DueInv ==
    /\ \A t \in Callers : \A o \in due[t] :
          o \in Queued \/ finalized[o] >= 1 \/ IsMygoteObj(o)
    /\ \A m \in Mutators :
          /\ mpc[m] \in {"finalize", "finalizing", "sync", "synced"} =>
                due[m] \cap ToSet(fin.finalizables) = {}
          /\ mpc[m] \in {"sync", "synced"} => due[m] \cap ToSet(fin.run) = {}
          /\ mpc[m] = "synced" => due[m] \cap ToSet(fin.working) = {}
    /\ rp.pc = "exited" \/ (rp.last /\ rp.pc \in {"finalize", "finalizing"}) =>
          due["ctl"] \cap ToSet(fin.finalizables) = {}

NotYet == {"off", "init", "notify"}

\* The flags of the RP thread and the thread that stops it.
StopInv ==
    /\ ctl \notin {"stop", "waitStop"} => due["ctl"] = {}
    /\ ctl \in {"stop", "waitStop"} => due["ctl"] = {} \/ rp.finalizeOnStop
    /\ ctl \in {"up", "stop", "waitStop"} \/ rp.started => rp.pc \notin NotYet
    /\ ctl \in {"waitStarted", "up", "stop"} => rp.pc = "init" \/ rp.running
    /\ ctl \in {"create", "fork", "done"} => rp.pc = "off"
    /\ rp.last => ctl = "waitStop" \/ rp.pc \in {"off", "init"}
    /\ rp.pc = "exited" => ctl = "waitStop"
    /\ ~zygote.hasForked => zygote.mygote = {}

IInv == TypeInv /\ ListInv /\ LockInv /\ OnceInv /\ DueInv /\ StopInv

-----------------------------------------------------------------------------
(* Lists.                                                                  *)

\* The lists are among the fields of fin.
LEMMA ListNames ==
    ASSUME NEW f \in [Lists -> Seq(Objs)]
    PROVE  /\ UNION {ToSet(f[l]) : l \in DOMAIN f} =
                ToSet(f.finalizables) \cup ToSet(f.working) \cup ToSet(f.run)
           /\ f.finalizables \in Seq(Objs) /\ f.working \in Seq(Objs) /\ f.run \in Seq(Objs)
  BY DEF Lists

\* The empty list, the rest of a list, a longer list.
LEMMA ListFacts ==
    ASSUME NEW s \in Seq(Objs), NEW o \in Objs
    PROVE  /\ ToSet(s) = {s[i] : i \in 1 .. Len(s)} /\ ToSet(s) \subseteq Objs
           /\ s = << >> => ToSet(s) = {}
           /\ ToSet(Append(s, o)) = ToSet(s) \cup {o} /\ Append(s, o) \in Seq(Objs)
           /\ Distinct(s) /\ o \notin ToSet(s) => Distinct(Append(s, o))
<1>1. DOMAIN s = 1 .. Len(s) /\ Len(s) \in Nat
  OBVIOUS
<1>2. ToSet(s) = {s[i] : i \in 1 .. Len(s)} /\ ToSet(s) \subseteq Objs
  BY <1>1 DEF ToSet
<1>3. s = << >> => ToSet(s) = {}
  BY DEF ToSet
<1> DEFINE a == Append(s, o)
<1>4. /\ a \in Seq(Objs) /\ Len(a) = Len(s) + 1 /\ a[Len(s) + 1] = o
      /\ \A i \in 1 .. Len(s) : a[i] = s[i]
      /\ DOMAIN a = 1 .. Len(s) + 1
  OBVIOUS
<1> HIDE DEF a
<1>5. ToSet(a) = ToSet(s) \cup {o}
  BY <1>1, <1>4 DEF ToSet
<1>6. Distinct(s) /\ o \notin ToSet(s) => Distinct(a)
  BY <1>1, <1>2, <1>4 DEF Distinct
<1>7. QED
  BY <1>2, <1>3, <1>4, <1>5, <1>6 DEF a

LEMMA TailFacts ==
    ASSUME NEW s \in Seq(Objs), s # << >>
    PROVE  /\ Len(s) \in Nat /\ Len(s) >= 1 /\ Head(s) = s[1] /\ Head(s) \in Objs
           /\ Tail(s) \in Seq(Objs) /\ Len(Tail(s)) = Len(s) - 1
           /\ \A i \in 1 .. Len(Tail(s)) : Tail(s)[i] = s[i + 1]
           /\ ToSet(s) = {Head(s)} \cup ToSet(Tail(s))
           /\ Distinct(s) => Distinct(Tail(s)) /\ Head(s) \notin ToSet(Tail(s))
<1> DEFINE u == Tail(s)
<1>1. /\ Len(s) \in Nat /\ Len(s) >= 1 /\ DOMAIN s = 1 .. Len(s) /\ Head(s) = s[1]
      /\ Head(s) \in Objs
  OBVIOUS
<1>2. /\ u \in Seq(Objs) /\ Len(u) = Len(s) - 1 /\ DOMAIN u = 1 .. Len(u)
      /\ \A i \in 1 .. Len(u) : u[i] = s[i + 1]
  BY <1>1
<1> HIDE DEF u
<1>3. ToSet(s) = {Head(s)} \cup ToSet(u)
  <2>1. ASSUME NEW i \in 2 .. Len(s) PROVE i - 1 \in 1 .. Len(u) /\ s[i] = u[i - 1]
    BY <1>1, <1>2
  <2>2. ASSUME NEW i \in 1 .. Len(s) PROVE s[i] \in {Head(s)} \cup ToSet(u)
    <3>1. CASE i = 1
      BY <1>1, <3>1
    <3>2. CASE i # 1
      <4>1. i \in 2 .. Len(s)
        BY <1>1, <3>2
      <4>2. i - 1 \in DOMAIN u /\ s[i] = u[i - 1]
        BY <1>2, <2>1, <4>1
      <4>3. QED
        BY <4>2 DEF ToSet
    <3>3. QED
      BY <3>1, <3>2
  <2>3. {Head(s)} \cup ToSet(u) \subseteq ToSet(s)
    <3>1. ASSUME NEW i \in 1 .. Len(u) PROVE i + 1 \in DOMAIN s /\ u[i] = s[i + 1]
      BY <1>1, <1>2
    <3>2. 1 \in DOMAIN s
      BY <1>1
    <3>3. QED
      BY <1>1, <1>2, <3>1, <3>2 DEF ToSet
  <2>4. QED
    BY <1>1, <2>2, <2>3 DEF ToSet
<1>4. Distinct(s) => Distinct(u) /\ Head(s) \notin ToSet(u)
  BY <1>1, <1>2 DEF Distinct, ToSet
<1>5. QED
  BY <1>1, <1>2, <1>3, <1>4 DEF u

\* A list without repetition is as long as the set of its objects.
LEMMA DistinctLength ==
    ASSUME NEW s \in Seq(Objs), Distinct(s)
    PROVE  /\ IsFiniteSet(ToSet(s)) /\ Cardinality(ToSet(s)) = Len(s)
           /\ Len(s) <= Cardinality(Objs) /\ Cardinality(Objs) \in Nat
<1>1. DOMAIN s = 1 .. Len(s) /\ Len(s) \in Nat /\ s \in [1 .. Len(s) -> Objs]
  OBVIOUS
<1>2. IsFiniteSet(1 .. Len(s)) /\ Cardinality(1 .. Len(s)) = Len(s)
  BY <1>1, FS_Interval
<1>3. s \in Bijection(1 .. Len(s), ToSet(s))
  <2>1. s \in [1 .. Len(s) -> ToSet(s)]
    BY <1>1 DEF ToSet
  <2>2. s \in Injection(1 .. Len(s), ToSet(s))
    BY <1>1, <2>1 DEF Injection, IsInjective, Distinct
  <2>3. s \in Surjection(1 .. Len(s), ToSet(s))
    BY <1>1, <2>1 DEF Surjection, ToSet
  <2>4. QED
    BY <2>2, <2>3 DEF Bijection
<1>4. ExistsBijection(1 .. Len(s), ToSet(s))
  BY <1>3 DEF ExistsBijection
<1>5. IsFiniteSet(ToSet(s)) /\ Cardinality(ToSet(s)) = Len(s)
  BY <1>2, <1>4, FS_Bijection
<1>6. ToSet(s) \subseteq Objs
  BY <1>1 DEF ToSet
<1>7. Cardinality(ToSet(s)) <= Cardinality(Objs)
  BY <1>6, FS_Subset, NamesAssumption
<1>8. Cardinality(Objs) \in Nat
  BY FS_CardinalityType, NamesAssumption
<1>9. QED
  BY <1>5, <1>7, <1>8

-----------------------------------------------------------------------------
(* Steps.                                                                  *)

\* What a list and the names of the threads are.
LEMMA FinType ==
    ASSUME TypeInv
    PROVE  /\ fin.finalizables \in Seq(Objs) /\ fin.working \in Seq(Objs)
           /\ fin.run \in Seq(Objs) /\ DOMAIN fin = Lists
           /\ Queued = ToSet(fin.finalizables) \cup ToSet(fin.working) \cup ToSet(fin.run)
           /\ ToSet(fin.finalizables) \subseteq Objs /\ ToSet(fin.working) \subseteq Objs
           /\ ToSet(fin.run) \subseteq Objs
<1>1. fin \in [Lists -> Seq(Objs)]
  BY DEF TypeInv
<1>2. /\ fin.finalizables \in Seq(Objs) /\ fin.working \in Seq(Objs)
      /\ fin.run \in Seq(Objs) /\ DOMAIN fin = Lists
      /\ Queued = ToSet(fin.finalizables) \cup ToSet(fin.working) \cup ToSet(fin.run)
  BY <1>1, ListNames DEF Queued
<1>3. ASSUME NEW s \in Seq(Objs) PROVE ToSet(s) \subseteq Objs
  BY <1>3 DEF ToSet
<1>4. QED
  BY <1>2, <1>3

\* finalize() of the first object of a list.
LEMMA FinalizeStep ==
    ASSUME TypeInv, NEW l \in {"working", "run"}, Finalize(l)
    PROVE  /\ fin' = fin /\ finalized' \in [Objs -> Nat]
           /\ Len(fin[l]) \in Nat /\ Len(fin[l]) >= 1 /\ fin[l][1] \in Objs
           /\ fin[l][1] \in ToSet(fin[l])
           /\ finalized'[fin[l][1]] = finalized[fin[l][1]] + 1
           /\ \A o \in Objs : o # fin[l][1] => finalized'[o] = finalized[o]
<1>1. fin[l] \in Seq(Objs) /\ finalized \in [Objs -> Nat]
  BY DEF TypeInv, Lists
<1>2. fin[l] # << >> /\ fin' = fin
  BY DEF Finalize
<1>3. /\ Head(fin[l]) = fin[l][1] /\ Head(fin[l]) \in Objs /\ Len(fin[l]) \in Nat
      /\ Len(fin[l]) >= 1 /\ ToSet(fin[l]) = {Head(fin[l])} \cup ToSet(Tail(fin[l]))
  BY <1>1, <1>2, TailFacts
<1>4. finalized' = [finalized EXCEPT ![fin[l][1]] = @ + 1]
  BY <1>3 DEF Finalize
<1>5. QED
  BY <1>1, <1>2, <1>3, <1>4

\* The first object leaves its list, the other lists stay as they are.
LEMMA PopStep ==
    ASSUME TypeInv, ListInv, NEW l \in {"working", "run"}, PopFront(l)
    PROVE  /\ finalized' = finalized /\ fin' \in [Lists -> Seq(Objs)]
           /\ Len(fin[l]) \in Nat /\ Len(fin[l]) >= 1 /\ fin[l][1] \in Objs
           /\ Len(fin'[l]) = Len(fin[l]) - 1 /\ Distinct(fin'[l])
           /\ \A i \in 1 .. Len(fin'[l]) : fin'[l][i] = fin[l][i + 1]
           /\ ToSet(fin[l]) = {fin[l][1]} \cup ToSet(fin'[l])
           /\ fin[l][1] \notin ToSet(fin'[l])
           /\ \A k \in Lists \ {l} : fin'[k] = fin[k]
<1>1. fin \in [Lists -> Seq(Objs)] /\ l \in Lists /\ fin[l] \in Seq(Objs) /\ Distinct(fin[l])
  BY DEF TypeInv, ListInv, Lists
<1>2. fin[l] # << >> /\ finalized' = finalized /\ fin' = [fin EXCEPT ![l] = Tail(fin[l])]
  BY DEF PopFront
<1>3. /\ Head(fin[l]) = fin[l][1] /\ Head(fin[l]) \in Objs /\ Len(fin[l]) \in Nat
      /\ Len(fin[l]) >= 1 /\ Tail(fin[l]) \in Seq(Objs)
      /\ Len(Tail(fin[l])) = Len(fin[l]) - 1
      /\ \A i \in 1 .. Len(Tail(fin[l])) : Tail(fin[l])[i] = fin[l][i + 1]
      /\ ToSet(fin[l]) = {Head(fin[l])} \cup ToSet(Tail(fin[l]))
      /\ Distinct(Tail(fin[l])) /\ Head(fin[l]) \notin ToSet(Tail(fin[l]))
  BY <1>1, <1>2, TailFacts
<1>4. /\ fin'[l] = Tail(fin[l]) /\ fin' \in [Lists -> Seq(Objs)]
      /\ \A k \in Lists \ {l} : fin'[k] = fin[k]
  BY <1>1, <1>2, <1>3
<1>5. QED
  BY <1>1, <1>2, <1>3, <1>4

\* The empty list.
LEMMA EmptyList ==
    \A s \in Seq(Objs) : s = << >> => ToSet(s) = {}
  BY DEF ToSet

\* A swap moves the finalizables into an empty list.
LEMMA SwapStep ==
    ASSUME TypeInv, NEW l \in {"working", "run"}, fin[l] = << >>,
           fin' = [fin EXCEPT ![l] = fin.finalizables, !.finalizables = fin[l]]
    PROVE  /\ fin' \in [Lists -> Seq(Objs)]
           /\ fin'[l] = fin.finalizables /\ fin'.finalizables = << >>
           /\ ToSet(fin'.finalizables) = {} /\ ToSet(fin[l]) = {}
           /\ \A k \in Lists \ {l, "finalizables"} : fin'[k] = fin[k]
<1>1. fin \in [Lists -> Seq(Objs)] /\ l \in Lists /\ l # "finalizables" /\ "finalizables" \in Lists
  BY DEF TypeInv, Lists
<1>2. \A s \in Seq(Objs) : s = << >> => ToSet(s) = {}
  BY EmptyList
<1>3. /\ fin' \in [Lists -> Seq(Objs)]
      /\ fin'[l] = fin.finalizables /\ fin'.finalizables = << >>
      /\ \A k \in Lists \ {l, "finalizables"} : fin'[k] = fin[k]
  BY <1>1
<1>4. fin[l] \in Seq(Objs) /\ fin'.finalizables \in Seq(Objs)
  BY <1>1, <1>3
<1>5. QED
  BY <1>2, <1>3, <1>4

\* The GC thread adds an object that is in no list.
LEMMA AddStep ==
    ASSUME TypeInv, ListInv, AddFinalizable
    PROVE  \E dead \in Objs :
              /\ finalized[dead] = 0 /\ dead \notin Queued /\ ~IsMygoteObj(dead)
              /\ fin' \in [Lists -> Seq(Objs)]
              /\ ToSet(fin'.finalizables) = ToSet(fin.finalizables) \cup {dead}
              /\ Distinct(fin'.finalizables)
              /\ fin'.working = fin.working /\ fin'.run = fin.run
<1>1. PICK dead \in Resurrectable : fin' = [fin EXCEPT !.finalizables = Append(@, dead)]
  BY DEF AddFinalizable
<1>2. dead \in Objs /\ finalized[dead] = 0 /\ dead \notin Queued /\ ~IsMygoteObj(dead)
  BY DEF Resurrectable
<1>3. /\ fin \in [Lists -> Seq(Objs)] /\ "finalizables" \in Lists /\ "working" \in Lists
      /\ "run" \in Lists
  BY DEF TypeInv, Lists
<1>4. /\ fin.finalizables \in Seq(Objs) /\ Distinct(fin.finalizables)
      /\ dead \notin ToSet(fin.finalizables)
  BY <1>2, <1>3, FinType DEF ListInv
<1> DEFINE a == Append(fin.finalizables, dead)
<1>5. ToSet(a) = ToSet(fin.finalizables) \cup {dead} /\ a \in Seq(Objs) /\ Distinct(a)
  BY <1>2, <1>4, ListFacts
<1>6. fin' = [fin EXCEPT !.finalizables = a]
  BY <1>1
<1> HIDE DEF a
<1>7. /\ fin'.finalizables = a /\ fin' \in [Lists -> Seq(Objs)]
      /\ fin'.working = fin.working /\ fin'.run = fin.run
  BY <1>3, <1>5, <1>6
<1>8. QED
  BY <1>2, <1>5, <1>7

\* The list of the mutators is empty before it is filled.
LEMMA RunEmpty ==
    ASSUME TypeInv, LockInv, NEW m \in Mutators, mpc[m] = "swap"
    PROVE  fin.run = << >>
<1>1. \A n \in Mutators : mpc[n] \in {"finalize", "finalizing"} => n = m
  BY DEF LockInv
<1>2. QED
  BY <1>1 DEF LockInv

\* Types.
LEMMA TypeStep ==
    ASSUME IInv, [Next]_vars
    PROVE  TypeInv'
<1> TypeInv /\ ListInv /\ LockInv
  BY DEF IInv
<1>1. ASSUME Create PROVE TypeInv'
  BY <1>1 DEF Create, TypeInv, RpPcs, MPcs, Callers
<1>2. ASSUME WaitStarted PROVE TypeInv'
  BY <1>2 DEF WaitStarted, TypeInv, RpPcs, MPcs, Callers
<1>3. ASSUME Stop PROVE TypeInv'
  <2>1. Queued \in SUBSET Objs
    BY FinType
  <2>2. QED
    BY <1>3, <2>1 DEF Stop, TypeInv, Callers
<1>4. ASSUME WaitStop PROVE TypeInv'
  BY <1>4 DEF WaitStop, TypeInv, RpPcs, MPcs, Callers
<1>5. ASSUME RpInit PROVE TypeInv'
  BY <1>5 DEF RpInit, TypeInv, RpPcs, MPcs, Callers
<1>6. ASSUME NotifyStarted PROVE TypeInv'
  BY <1>6 DEF NotifyStarted, TypeInv, RpPcs, MPcs, Callers
<1>7. ASSUME Run PROVE TypeInv'
  BY <1>7 DEF Run, TypeInv, RpPcs, MPcs, Callers
<1>8. ASSUME ProcessSwap PROVE TypeInv'
  <2>1. fin' \in [Lists -> Seq(Objs)]
    BY <1>8, SwapStep DEF ProcessSwap, RpGoto, LockInv
  <2>2. QED
    BY <1>8, <2>1 DEF ProcessSwap, RpGoto, TypeInv, RpPcs
<1>9. ASSUME ProcessFinalize PROVE TypeInv'
  <2>1. fin' \in [Lists -> Seq(Objs)] /\ finalized' \in [Objs -> Nat]
    <3>1. CASE Finalize("working")
      BY <3>1, FinalizeStep DEF TypeInv
    <3>2. CASE PopFront("working")
      BY <3>2, PopStep DEF TypeInv
    <3>3. QED
      BY <1>9, <3>1, <3>2 DEF ProcessFinalize, SkipMygote
  <2>2. QED
    BY <1>9, <2>1 DEF ProcessFinalize, RpGoto, TypeInv, RpPcs
<1>10. ASSUME ProcessUnlock PROVE TypeInv'
  BY <1>10 DEF ProcessUnlock, RpGoto, TypeInv, RpPcs, MPcs, Callers
<1>11. ASSUME Wait PROVE TypeInv'
  BY <1>11 DEF Wait, RpGoto, TypeInv, RpPcs, MPcs, Callers
<1>12. ASSUME ShouldStartIteration PROVE TypeInv'
  BY <1>12 DEF ShouldStartIteration, TypeInv, RpPcs, MPcs, Callers
<1>13. ASSUME ProcessLock PROVE TypeInv'
  BY <1>13 DEF ProcessLock, RpGoto, TypeInv, RpPcs, MPcs, Callers
<1>14. ASSUME NEW m \in Mutators, RunFinalization(m) PROVE TypeInv'
  <2>1. Queued \in SUBSET Objs
    BY FinType
  <2>2. QED
    BY <1>14, <2>1 DEF RunFinalization, MGoto, TypeInv, Callers, MPcs
<1>15. ASSUME NEW m \in Mutators, RunLock(m) PROVE TypeInv'
  <2>1. lock' \in [processing : Mutators \cup {"rp", NoOne}, run : Mutators \cup {NoOne}]
    BY <1>15 DEF RunLock, TypeInv
  <2>2. mpc' \in [Mutators -> MPcs] /\ due' \in [Callers -> SUBSET Objs]
    BY <1>15 DEF RunLock, MGoto, TypeInv, MPcs
  <2>3. QED
    BY <1>15, <2>1, <2>2 DEF RunLock, MGoto, TypeInv
<1>16. ASSUME NEW m \in Mutators, RunSync(m) PROVE TypeInv'
  <2>1. lock' \in [processing : Mutators \cup {"rp", NoOne}, run : Mutators \cup {NoOne}]
    BY <1>16 DEF RunSync, TypeInv
  <2>2. mpc' \in [Mutators -> MPcs] /\ due' \in [Callers -> SUBSET Objs]
    BY <1>16 DEF RunSync, MGoto, TypeInv, MPcs
  <2>3. QED
    BY <1>16, <2>1, <2>2 DEF RunSync, MGoto, TypeInv
<1>17. ASSUME NEW m \in Mutators, RunSwap(m) PROVE TypeInv'
  <2>1. fin' \in [Lists -> Seq(Objs)]
    BY <1>17, SwapStep, RunEmpty DEF RunSwap, MGoto
  <2>2. QED
    BY <1>17, <2>1 DEF RunSwap, MGoto, TypeInv, MPcs
<1>18. ASSUME NEW m \in Mutators, RunFinalize(m) PROVE TypeInv'
  <2>1. fin' \in [Lists -> Seq(Objs)] /\ finalized' \in [Objs -> Nat]
    <3>1. CASE Finalize("run")
      BY <3>1, FinalizeStep DEF TypeInv
    <3>2. CASE PopFront("run")
      BY <3>2, PopStep DEF TypeInv
    <3>3. QED
      BY <1>18, <3>1, <3>2 DEF RunFinalize, SkipMygote
  <2>2. QED
    BY <1>18, <2>1 DEF RunFinalize, MGoto, TypeInv, MPcs
<1>19. ASSUME NEW m \in Mutators, RunUnlock(m) PROVE TypeInv'
  <2>1. lock' \in [processing : Mutators \cup {"rp", NoOne}, run : Mutators \cup {NoOne}]
    BY <1>19 DEF RunUnlock, TypeInv
  <2>2. mpc' \in [Mutators -> MPcs] /\ due' \in [Callers -> SUBSET Objs]
    BY <1>19 DEF RunUnlock, MGoto, TypeInv, MPcs
  <2>3. QED
    BY <1>19, <2>1, <2>2 DEF RunUnlock, MGoto, TypeInv
<1>20. ASSUME NEW m \in Mutators, RunReturn(m) PROVE TypeInv'
  <2>1. lock' \in [processing : Mutators \cup {"rp", NoOne}, run : Mutators \cup {NoOne}]
    BY <1>20 DEF RunReturn, TypeInv
  <2>2. mpc' \in [Mutators -> MPcs] /\ due' \in [Callers -> SUBSET Objs]
    BY <1>20 DEF RunReturn, MGoto, TypeInv, MPcs, Callers
  <2>3. QED
    BY <1>20, <2>1, <2>2 DEF RunReturn, MGoto, TypeInv
<1>21. ASSUME AddFinalizable PROVE TypeInv'
  <2>1. fin' \in [Lists -> Seq(Objs)]
    BY <1>21, AddStep
  <2>2. QED
    BY <1>21, <2>1 DEF AddFinalizable, TypeInv
<1>22. ASSUME Notify PROVE TypeInv'
  BY <1>22 DEF Notify, TypeInv, RpPcs, MPcs, Callers
<1>23. ASSUME PreFork PROVE TypeInv'
  <2>1. zygote' \in [hasForked : BOOLEAN, mygote : SUBSET Objs]
    <3>1. CASE zygote.hasForked
      BY <1>23, <3>1 DEF PreFork, TypeInv
    <3>2. CASE ~zygote.hasForked
      <4>1. PICK heap \in SUBSET Objs : zygote' = [hasForked |-> TRUE, mygote |-> heap]
        BY <1>23, <3>2 DEF PreFork
      <4>2. QED
        BY <4>1
    <3>3. QED
      BY <3>1, <3>2
  <2>2. QED
    BY <1>23, <2>1 DEF PreFork, TypeInv
<1>24. ASSUME UNCHANGED vars PROVE TypeInv'
  BY <1>24 DEF vars, TypeInv, RpPcs, MPcs, Callers
<1>25. QED
  BY <1>1, <1>2, <1>3, <1>4, <1>5, <1>6, <1>7, <1>8, <1>9, <1>10, <1>11,
     <1>12, <1>13, <1>14, <1>15, <1>16, <1>17, <1>18, <1>19, <1>20, <1>21, <1>22, <1>23, <1>24
  DEF Next, RpStep, RunStep

\* The lists stay disjoint.
LEMMA ListStep ==
    ASSUME IInv, [Next]_vars
    PROVE  ListInv'
<1> TypeInv /\ ListInv /\ LockInv /\ OnceInv /\ DueInv /\ StopInv
  BY DEF IInv
<1>1. ASSUME Create PROVE ListInv'
  BY <1>1 DEF Create, ListInv
<1>2. ASSUME WaitStarted PROVE ListInv'
  BY <1>2 DEF WaitStarted, ListInv
<1>3. ASSUME Stop PROVE ListInv'
  BY <1>3 DEF Stop, ListInv
<1>4. ASSUME WaitStop PROVE ListInv'
  BY <1>4 DEF WaitStop, ListInv
<1>5. ASSUME RpInit PROVE ListInv'
  BY <1>5 DEF RpInit, ListInv
<1>6. ASSUME NotifyStarted PROVE ListInv'
  BY <1>6 DEF NotifyStarted, ListInv
<1>7. ASSUME Run PROVE ListInv'
  BY <1>7 DEF Run, ListInv
<1>8. ASSUME ProcessSwap PROVE ListInv'
  <2>1. /\ fin'.working = fin.finalizables /\ fin'.finalizables = << >>
        /\ ToSet(fin'.finalizables) = {} /\ fin'.run = fin.run
    BY <1>8, SwapStep DEF ProcessSwap, RpGoto, LockInv, Lists
  <2>2. QED
    BY <2>1 DEF ListInv, Lists, Distinct
<1>9. ASSUME ProcessFinalize PROVE ListInv'
  <2>1. CASE Finalize("working")
    BY <2>1 DEF ListInv, Finalize
  <2>2. CASE PopFront("working")
    <3>1. /\ Distinct(fin'.working) /\ ToSet(fin'.working) \subseteq ToSet(fin.working)
          /\ fin'.finalizables = fin.finalizables /\ fin'.run = fin.run
      BY <2>2, PopStep DEF Lists
    <3>2. QED
      BY <3>1 DEF ListInv, Lists
  <2>3. QED
    BY <1>9, <2>1, <2>2 DEF ProcessFinalize, SkipMygote
<1>10. ASSUME ProcessUnlock PROVE ListInv'
  BY <1>10 DEF ProcessUnlock, RpGoto, ListInv
<1>11. ASSUME Wait PROVE ListInv'
  BY <1>11 DEF Wait, RpGoto, ListInv
<1>12. ASSUME ShouldStartIteration PROVE ListInv'
  BY <1>12 DEF ShouldStartIteration, ListInv
<1>13. ASSUME ProcessLock PROVE ListInv'
  BY <1>13 DEF ProcessLock, RpGoto, ListInv
<1>14. ASSUME NEW m \in Mutators, RunFinalization(m) PROVE ListInv'
  BY <1>14 DEF RunFinalization, MGoto, ListInv
<1>15. ASSUME NEW m \in Mutators, RunLock(m) PROVE ListInv'
  BY <1>15 DEF RunLock, MGoto, ListInv
<1>16. ASSUME NEW m \in Mutators, RunSync(m) PROVE ListInv'
  BY <1>16 DEF RunSync, MGoto, ListInv
<1>17. ASSUME NEW m \in Mutators, RunSwap(m) PROVE ListInv'
  <2>1. /\ fin'.run = fin.finalizables /\ fin'.finalizables = << >>
        /\ ToSet(fin'.finalizables) = {} /\ fin'.working = fin.working
    BY <1>17, SwapStep, RunEmpty DEF RunSwap, MGoto, Lists
  <2>2. QED
    BY <2>1 DEF ListInv, Lists, Distinct
<1>18. ASSUME NEW m \in Mutators, RunFinalize(m) PROVE ListInv'
  <2>1. CASE Finalize("run")
    BY <2>1 DEF ListInv, Finalize
  <2>2. CASE PopFront("run")
    <3>1. /\ Distinct(fin'.run) /\ ToSet(fin'.run) \subseteq ToSet(fin.run)
          /\ fin'.finalizables = fin.finalizables /\ fin'.working = fin.working
      BY <2>2, PopStep DEF Lists
    <3>2. QED
      BY <3>1 DEF ListInv, Lists
  <2>3. QED
    BY <1>18, <2>1, <2>2 DEF RunFinalize, SkipMygote
<1>19. ASSUME NEW m \in Mutators, RunUnlock(m) PROVE ListInv'
  BY <1>19 DEF RunUnlock, MGoto, ListInv
<1>20. ASSUME NEW m \in Mutators, RunReturn(m) PROVE ListInv'
  BY <1>20 DEF RunReturn, MGoto, ListInv
<1>21. ASSUME AddFinalizable PROVE ListInv'
  <2>1. PICK dead \in Objs :
          /\ dead \notin Queued /\ Distinct(fin'.finalizables)
          /\ ToSet(fin'.finalizables) = ToSet(fin.finalizables) \cup {dead}
          /\ fin'.working = fin.working /\ fin'.run = fin.run
    BY <1>21, AddStep
  <2>2. dead \notin ToSet(fin.working) /\ dead \notin ToSet(fin.run)
    BY <2>1, FinType
  <2>3. QED
    BY <2>1, <2>2 DEF ListInv, Lists
<1>22. ASSUME Notify PROVE ListInv'
  BY <1>22 DEF Notify, ListInv
<1>23. ASSUME PreFork PROVE ListInv'
  BY <1>23 DEF PreFork, ListInv
<1>24. ASSUME UNCHANGED vars PROVE ListInv'
  BY <1>24 DEF vars, ListInv
<1>25. QED
  BY <1>1, <1>2, <1>3, <1>4, <1>5, <1>6, <1>7, <1>8, <1>9, <1>10, <1>11,
     <1>12, <1>13, <1>14, <1>15, <1>16, <1>17, <1>18, <1>19, <1>20, <1>21, <1>22, <1>23, <1>24
  DEF Next, RpStep, RunStep

\* Who processes a list holds its lock.
LEMMA LockStep ==
    ASSUME IInv, [Next]_vars
    PROVE  LockInv'
<1> TypeInv /\ ListInv /\ LockInv /\ OnceInv /\ DueInv /\ StopInv
  BY DEF IInv
<1>1. ASSUME Create PROVE LockInv'
  BY <1>1, NamesAssumption DEF Create, TypeInv, LockInv, StopInv
<1>2. ASSUME WaitStarted PROVE LockInv'
  BY <1>2, NamesAssumption DEF WaitStarted, TypeInv, LockInv
<1>3. ASSUME Stop PROVE LockInv'
  BY <1>3, NamesAssumption DEF Stop, TypeInv, LockInv
<1>4. ASSUME WaitStop PROVE LockInv'
  BY <1>4, NamesAssumption DEF WaitStop, TypeInv, LockInv
<1>5. ASSUME RpInit PROVE LockInv'
  BY <1>5, NamesAssumption DEF RpInit, TypeInv, LockInv
<1>6. ASSUME NotifyStarted PROVE LockInv'
  BY <1>6, NamesAssumption DEF NotifyStarted, TypeInv, LockInv
<1>7. ASSUME Run PROVE LockInv'
  BY <1>7, NamesAssumption DEF Run, TypeInv, LockInv
<1>8. ASSUME ProcessSwap PROVE LockInv'
  <2>1. fin'.run = fin.run
    BY <1>8, SwapStep DEF ProcessSwap, RpGoto, LockInv, Lists
  <2>2. QED
    BY <1>8, <2>1 DEF ProcessSwap, RpGoto, TypeInv, LockInv
<1>9. ASSUME ProcessFinalize PROVE LockInv'
  <2>1. fin'.run = fin.run
    BY <1>9, PopStep DEF ProcessFinalize, SkipMygote, Finalize, Lists
  <2>2. QED
    BY <1>9, <2>1 DEF ProcessFinalize, RpGoto, TypeInv, LockInv
<1>10. ASSUME ProcessUnlock PROVE LockInv'
  BY <1>10, NamesAssumption DEF ProcessUnlock, RpGoto, TypeInv, LockInv
<1>11. ASSUME Wait PROVE LockInv'
  BY <1>11, NamesAssumption DEF Wait, RpGoto, TypeInv, LockInv
<1>12. ASSUME ShouldStartIteration PROVE LockInv'
  BY <1>12, NamesAssumption DEF ShouldStartIteration, TypeInv, LockInv
<1>13. ASSUME ProcessLock PROVE LockInv'
  BY <1>13, NamesAssumption DEF ProcessLock, RpGoto, TypeInv, LockInv
<1>14. ASSUME NEW m \in Mutators, RunFinalization(m) PROVE LockInv'
  BY <1>14, NamesAssumption DEF RunFinalization, MGoto, TypeInv, LockInv
<1>15. ASSUME NEW m \in Mutators, RunLock(m) PROVE LockInv'
  BY <1>15, NamesAssumption DEF RunLock, MGoto, TypeInv, LockInv
<1>16. ASSUME NEW m \in Mutators, RunSync(m) PROVE LockInv'
  BY <1>16, NamesAssumption DEF RunSync, MGoto, TypeInv, LockInv
<1>17. ASSUME NEW m \in Mutators, RunSwap(m) PROVE LockInv'
  <2>1. fin'.working = fin.working
    BY <1>17, SwapStep, RunEmpty DEF RunSwap, MGoto, Lists
  <2>2. QED
    BY <1>17, <2>1 DEF RunSwap, MGoto, TypeInv, LockInv
<1>18. ASSUME NEW m \in Mutators, RunFinalize(m) PROVE LockInv'
  <2>1. fin'.working = fin.working
    BY <1>18, PopStep DEF RunFinalize, SkipMygote, Finalize, Lists
  <2>2. QED
    BY <1>18, <2>1 DEF RunFinalize, MGoto, TypeInv, LockInv
<1>19. ASSUME NEW m \in Mutators, RunUnlock(m) PROVE LockInv'
  BY <1>19, NamesAssumption DEF RunUnlock, MGoto, TypeInv, LockInv
<1>20. ASSUME NEW m \in Mutators, RunReturn(m) PROVE LockInv'
  BY <1>20, NamesAssumption DEF RunReturn, MGoto, TypeInv, LockInv
<1>21. ASSUME AddFinalizable PROVE LockInv'
  <2>1. fin'.working = fin.working /\ fin'.run = fin.run
    BY <1>21, AddStep
  <2>2. QED
    BY <1>21, <2>1 DEF AddFinalizable, LockInv
<1>22. ASSUME Notify PROVE LockInv'
  BY <1>22, NamesAssumption DEF Notify, TypeInv, LockInv
<1>23. ASSUME PreFork PROVE LockInv'
  BY <1>23, NamesAssumption DEF PreFork, TypeInv, LockInv
<1>24. ASSUME UNCHANGED vars PROVE LockInv'
  BY <1>24 DEF vars, TypeInv, LockInv
<1>25. QED
  BY <1>1, <1>2, <1>3, <1>4, <1>5, <1>6, <1>7, <1>8, <1>9, <1>10, <1>11,
     <1>12, <1>13, <1>14, <1>15, <1>16, <1>17, <1>18, <1>19, <1>20, <1>21, <1>22, <1>23, <1>24
  DEF Next, RpStep, RunStep

\* The flags of the RP thread and the thread that stops it.
LEMMA StopStep ==
    ASSUME IInv, [Next]_vars
    PROVE  StopInv'
<1> TypeInv /\ ListInv /\ LockInv /\ OnceInv /\ DueInv /\ StopInv
  BY DEF IInv
<1>1. ASSUME Create PROVE StopInv'
  BY <1>1, NamesAssumption DEF Create, TypeInv, StopInv, NotYet, Callers
<1>2. ASSUME WaitStarted PROVE StopInv'
  BY <1>2, NamesAssumption DEF WaitStarted, TypeInv, StopInv, NotYet, Callers
<1>3. ASSUME Stop PROVE StopInv'
  BY <1>3, NamesAssumption DEF Stop, TypeInv, StopInv, NotYet, Callers
<1>4. ASSUME WaitStop PROVE StopInv'
  BY <1>4, NamesAssumption DEF WaitStop, TypeInv, StopInv, NotYet, Callers
<1>5. ASSUME RpInit PROVE StopInv'
  BY <1>5, NamesAssumption DEF RpInit, TypeInv, StopInv, NotYet, Callers
<1>6. ASSUME NotifyStarted PROVE StopInv'
  BY <1>6, NamesAssumption DEF NotifyStarted, TypeInv, StopInv, NotYet, Callers
<1>7. ASSUME Run PROVE StopInv'
  BY <1>7, NamesAssumption DEF Run, TypeInv, StopInv, NotYet, Callers
<1>8. ASSUME ProcessSwap PROVE StopInv'
  BY <1>8, NamesAssumption DEF ProcessSwap, RpGoto, TypeInv, StopInv, NotYet, Callers
<1>9. ASSUME ProcessFinalize PROVE StopInv'
  BY <1>9, NamesAssumption DEF ProcessFinalize, RpGoto, TypeInv, StopInv, NotYet, Callers
<1>10. ASSUME ProcessUnlock PROVE StopInv'
  BY <1>10, NamesAssumption DEF ProcessUnlock, RpGoto, TypeInv, StopInv, NotYet, Callers
<1>11. ASSUME Wait PROVE StopInv'
  BY <1>11, NamesAssumption DEF Wait, RpGoto, TypeInv, StopInv, NotYet, Callers
<1>12. ASSUME ShouldStartIteration PROVE StopInv'
  BY <1>12, NamesAssumption DEF ShouldStartIteration, TypeInv, StopInv, NotYet, Callers
<1>13. ASSUME ProcessLock PROVE StopInv'
  BY <1>13, NamesAssumption DEF ProcessLock, RpGoto, TypeInv, StopInv, NotYet, Callers
<1>14. ASSUME NEW m \in Mutators, RunFinalization(m) PROVE StopInv'
  BY <1>14, NamesAssumption DEF RunFinalization, MGoto, TypeInv, StopInv, NotYet, Callers
<1>15. ASSUME NEW m \in Mutators, RunLock(m) PROVE StopInv'
  BY <1>15, NamesAssumption DEF RunLock, MGoto, TypeInv, StopInv, NotYet, Callers
<1>16. ASSUME NEW m \in Mutators, RunSync(m) PROVE StopInv'
  BY <1>16, NamesAssumption DEF RunSync, MGoto, TypeInv, StopInv, NotYet, Callers
<1>17. ASSUME NEW m \in Mutators, RunSwap(m) PROVE StopInv'
  BY <1>17, NamesAssumption DEF RunSwap, MGoto, TypeInv, StopInv, NotYet, Callers
<1>18. ASSUME NEW m \in Mutators, RunFinalize(m) PROVE StopInv'
  BY <1>18, NamesAssumption DEF RunFinalize, MGoto, TypeInv, StopInv, NotYet, Callers
<1>19. ASSUME NEW m \in Mutators, RunUnlock(m) PROVE StopInv'
  BY <1>19, NamesAssumption DEF RunUnlock, MGoto, TypeInv, StopInv, NotYet, Callers
<1>20. ASSUME NEW m \in Mutators, RunReturn(m) PROVE StopInv'
  BY <1>20, NamesAssumption DEF RunReturn, MGoto, TypeInv, StopInv, NotYet, Callers
<1>21. ASSUME AddFinalizable PROVE StopInv'
  BY <1>21, NamesAssumption DEF AddFinalizable, TypeInv, StopInv, NotYet, Callers
<1>22. ASSUME Notify PROVE StopInv'
  BY <1>22, NamesAssumption DEF Notify, TypeInv, StopInv, NotYet, Callers
<1>23. ASSUME PreFork PROVE StopInv'
  BY <1>23, NamesAssumption DEF PreFork, TypeInv, StopInv, NotYet, Callers
<1>24. ASSUME UNCHANGED vars PROVE StopInv'
  BY <1>24 DEF vars, TypeInv, StopInv, NotYet, Callers
<1>25. QED
  BY <1>1, <1>2, <1>3, <1>4, <1>5, <1>6, <1>7, <1>8, <1>9, <1>10, <1>11,
     <1>12, <1>13, <1>14, <1>15, <1>16, <1>17, <1>18, <1>19, <1>20, <1>21, <1>22, <1>23, <1>24
  DEF Next, RpStep, RunStep

\* Only one thread processes the list of the mutators.
LEMMA Alone ==
    ASSUME LockInv, NEW m \in Mutators, mpc[m] \in {"swap", "finalize", "finalizing"}
    PROVE  \A n \in Mutators \ {m} : mpc[n] \notin {"swap", "finalize", "finalizing"}
  BY DEF LockInv

\* The queued objects after a step.
LEMMA QueuedNext ==
    ASSUME IInv, [Next]_vars
    PROVE  /\ Queued' = ToSet(fin'.finalizables) \cup ToSet(fin'.working) \cup ToSet(fin'.run)
           /\ fin'.finalizables \in Seq(Objs) /\ fin'.working \in Seq(Objs)
           /\ fin'.run \in Seq(Objs)
<1>1. fin' \in [Lists -> Seq(Objs)]
  BY TypeStep DEF TypeInv
<1>2. QED
  BY <1>1, ListNames DEF Queued

\* No object is finalized twice.
LEMMA OnceStep ==
    ASSUME IInv, [Next]_vars
    PROVE  OnceInv'
<1> TypeInv /\ ListInv /\ LockInv /\ OnceInv /\ DueInv /\ StopInv
  BY DEF IInv
<1>1. ASSUME Create PROVE OnceInv'
  BY <1>1 DEF Create, TypeInv, OnceInv, StopInv
<1>2. ASSUME WaitStarted PROVE OnceInv'
  BY <1>2 DEF WaitStarted, TypeInv, OnceInv
<1>3. ASSUME Stop PROVE OnceInv'
  BY <1>3 DEF Stop, TypeInv, OnceInv
<1>4. ASSUME WaitStop PROVE OnceInv'
  BY <1>4 DEF WaitStop, TypeInv, OnceInv
<1>5. ASSUME RpInit PROVE OnceInv'
  BY <1>5 DEF RpInit, TypeInv, OnceInv
<1>6. ASSUME NotifyStarted PROVE OnceInv'
  BY <1>6 DEF NotifyStarted, TypeInv, OnceInv
<1>7. ASSUME Run PROVE OnceInv'
  BY <1>7 DEF Run, TypeInv, OnceInv
<1>8. ASSUME ProcessSwap PROVE OnceInv'
  <2>1. /\ fin'.working = fin.finalizables /\ fin'.finalizables = << >>
        /\ ToSet(fin'.finalizables) = {} /\ fin'.run = fin.run
    BY <1>8, SwapStep DEF ProcessSwap, RpGoto, LockInv, Lists
  <2>2. \A i \in 1 .. Len(fin.finalizables) : finalized[fin.finalizables[i]] = 0
    BY FinType DEF ToSet, OnceInv
  <2>3. rp'.pc = "finalize" /\ finalized' = finalized /\ mpc' = mpc
    BY <1>8 DEF ProcessSwap, RpGoto, TypeInv
  <2>4. QED
    BY <2>1, <2>2, <2>3 DEF OnceInv
<1>9. ASSUME ProcessFinalize PROVE OnceInv'
  <2>1. CASE RpGoto("finalize", "finalizing") /\ Finalize("working")
    <3>1. /\ rp.pc = "finalize" /\ rp'.pc = "finalizing" /\ mpc' = mpc
      BY <1>9, <2>1 DEF ProcessFinalize, RpGoto, TypeInv
    <3> DEFINE first == fin.working[1]
    <3>2. /\ fin' = fin /\ Len(fin.working) \in Nat /\ Len(fin.working) >= 1 /\ first \in Objs
          /\ first \in ToSet(fin.working) /\ finalized'[first] = finalized[first] + 1
          /\ \A o \in Objs : o # first => finalized'[o] = finalized[o]
      BY <2>1, FinalizeStep
    <3>3. finalized[first] = 0
      BY <3>1, <3>2 DEF OnceInv
    <3>4. /\ \A i \in 1 .. Len(fin.working) : i # 1 => fin.working[i] # first
          /\ first \notin ToSet(fin.finalizables) /\ first \notin ToSet(fin.run)
      BY <3>2 DEF ListInv, Lists, Distinct
    <3>5. /\ \A i \in 1 .. Len(fin.working) : fin.working[i] \in Objs
          /\ \A i \in 1 .. Len(fin.run) : fin.run[i] \in Objs /\ fin.run[i] # first
          /\ \A o \in ToSet(fin.finalizables) : o \in Objs /\ o # first
      BY <3>4, FinType DEF ToSet
    <3> HIDE DEF first
    <3>6. \A o \in Objs : finalized'[o] <= 1
      BY <3>2, <3>3 DEF OnceInv
    <3>7. \A o \in ToSet(fin'.finalizables) : finalized'[o] = 0
      BY <3>2, <3>5 DEF OnceInv
    <3>8. \A i \in 1 .. Len(fin'.working) : finalized'[fin'.working[i]] = IF i = 1 THEN 1 ELSE 0
      BY <3>1, <3>2, <3>3, <3>4, <3>5 DEF OnceInv, first
    <3>9. \A i \in 1 .. Len(fin'.run) : finalized'[fin'.run[i]] = finalized[fin.run[i]]
      BY <3>2, <3>5
    <3>10. QED
      BY <3>1, <3>2, <3>6, <3>7, <3>8, <3>9 DEF OnceInv
  <2>2. CASE RpGoto("finalizing", "finalize") /\ PopFront("working")
    <3>1. /\ rp.pc = "finalizing" /\ rp'.pc = "finalize" /\ mpc' = mpc
      BY <1>9, <2>2 DEF ProcessFinalize, RpGoto, TypeInv
    <3>2. /\ finalized' = finalized /\ Len(fin.working) \in Nat /\ Len(fin.working) >= 1
          /\ Len(fin'.working) = Len(fin.working) - 1
          /\ \A i \in 1 .. Len(fin'.working) : fin'.working[i] = fin.working[i + 1]
          /\ fin'.finalizables = fin.finalizables /\ fin'.run = fin.run
      BY <2>2, PopStep DEF Lists
    <3>3. \A i \in 1 .. Len(fin'.working) : finalized'[fin'.working[i]] = 0
      BY <3>2 DEF OnceInv
    <3>4. QED
      BY <3>1, <3>2, <3>3 DEF OnceInv
  <2>3. CASE RpGoto("finalize", "finalize") /\ SkipMygote("working")
    <3>1. /\ rp.pc = "finalize" /\ rp'.pc = "finalize" /\ mpc' = mpc
      BY <1>9, <2>3 DEF ProcessFinalize, RpGoto, TypeInv
    <3>2. /\ finalized' = finalized /\ Len(fin.working) \in Nat /\ Len(fin.working) >= 1
          /\ Len(fin'.working) = Len(fin.working) - 1
          /\ \A i \in 1 .. Len(fin'.working) : fin'.working[i] = fin.working[i + 1]
          /\ fin'.finalizables = fin.finalizables /\ fin'.run = fin.run
      BY <2>3, PopStep DEF SkipMygote, Lists
    <3>3. \A i \in 1 .. Len(fin'.working) : finalized'[fin'.working[i]] = 0
      BY <3>1, <3>2 DEF OnceInv
    <3>4. QED
      BY <3>1, <3>2, <3>3 DEF OnceInv
  <2>4. QED
    BY <1>9, <2>1, <2>2, <2>3 DEF ProcessFinalize
<1>10. ASSUME ProcessUnlock PROVE OnceInv'
  BY <1>10 DEF ProcessUnlock, RpGoto, TypeInv, OnceInv
<1>11. ASSUME Wait PROVE OnceInv'
  BY <1>11 DEF Wait, RpGoto, TypeInv, OnceInv
<1>12. ASSUME ShouldStartIteration PROVE OnceInv'
  BY <1>12 DEF ShouldStartIteration, TypeInv, OnceInv
<1>13. ASSUME ProcessLock PROVE OnceInv'
  BY <1>13 DEF ProcessLock, RpGoto, TypeInv, OnceInv
<1>14. ASSUME NEW m \in Mutators, RunFinalization(m) PROVE OnceInv'
  BY <1>14 DEF RunFinalization, MGoto, TypeInv, OnceInv
<1>15. ASSUME NEW m \in Mutators, RunLock(m) PROVE OnceInv'
  BY <1>15 DEF RunLock, MGoto, TypeInv, OnceInv
<1>16. ASSUME NEW m \in Mutators, RunSync(m) PROVE OnceInv'
  BY <1>16 DEF RunSync, MGoto, TypeInv, OnceInv
<1>17. ASSUME NEW m \in Mutators, RunSwap(m) PROVE OnceInv'
  <2>1. /\ fin'.run = fin.finalizables /\ fin'.finalizables = << >>
        /\ ToSet(fin'.finalizables) = {} /\ fin'.working = fin.working
    BY <1>17, SwapStep, RunEmpty DEF RunSwap, MGoto, Lists
  <2>2. \A i \in 1 .. Len(fin.finalizables) : finalized[fin.finalizables[i]] = 0
    BY FinType DEF ToSet, OnceInv
  <2>3. rp' = rp /\ finalized' = finalized /\ \A n \in Mutators : mpc'[n] # "finalizing"
    BY <1>17, Alone DEF RunSwap, MGoto, TypeInv
  <2>4. QED
    BY <2>1, <2>2, <2>3 DEF OnceInv
<1>18. ASSUME NEW m \in Mutators, RunFinalize(m) PROVE OnceInv'
  <2>1. CASE MGoto(m, "finalize", "finalizing") /\ Finalize("run")
    <3>1. /\ rp' = rp /\ (\A n \in Mutators : mpc[n] # "finalizing")
          /\ mpc'[m] = "finalizing"
      BY <1>18, <2>1, Alone DEF RunFinalize, MGoto, TypeInv
    <3> DEFINE first == fin.run[1]
    <3>2. /\ fin' = fin /\ Len(fin.run) \in Nat /\ Len(fin.run) >= 1 /\ first \in Objs
          /\ first \in ToSet(fin.run) /\ finalized'[first] = finalized[first] + 1
          /\ \A o \in Objs : o # first => finalized'[o] = finalized[o]
      BY <2>1, FinalizeStep
    <3>3. finalized[first] = 0
      BY <3>1, <3>2 DEF OnceInv
    <3>4. /\ \A i \in 1 .. Len(fin.run) : i # 1 => fin.run[i] # first
          /\ first \notin ToSet(fin.finalizables) /\ first \notin ToSet(fin.working)
      BY <3>2 DEF ListInv, Lists, Distinct
    <3>5. /\ \A i \in 1 .. Len(fin.run) : fin.run[i] \in Objs
          /\ \A i \in 1 .. Len(fin.working) : fin.working[i] \in Objs /\ fin.working[i] # first
          /\ \A o \in ToSet(fin.finalizables) : o \in Objs /\ o # first
      BY <3>4, FinType DEF ToSet
    <3> HIDE DEF first
    <3>6. \A o \in Objs : finalized'[o] <= 1
      BY <3>2, <3>3 DEF OnceInv
    <3>7. \A o \in ToSet(fin'.finalizables) : finalized'[o] = 0
      BY <3>2, <3>5 DEF OnceInv
    <3>8. \A i \in 1 .. Len(fin'.run) : finalized'[fin'.run[i]] = IF i = 1 THEN 1 ELSE 0
      BY <3>1, <3>2, <3>3, <3>4, <3>5 DEF OnceInv, first
    <3>9. \A i \in 1 .. Len(fin'.working) : finalized'[fin'.working[i]] = finalized[fin.working[i]]
      BY <3>2, <3>5
    <3>10. QED
      BY <3>1, <3>2, <3>6, <3>7, <3>8, <3>9 DEF OnceInv
  <2>2. CASE MGoto(m, "finalizing", "finalize") /\ PopFront("run")
    <3>1. /\ rp' = rp /\ mpc[m] = "finalizing"
          /\ (\A n \in Mutators : mpc'[n] # "finalizing")
      BY <1>18, <2>2, Alone DEF RunFinalize, MGoto, TypeInv
    <3>2. /\ finalized' = finalized /\ Len(fin.run) \in Nat /\ Len(fin.run) >= 1
          /\ Len(fin'.run) = Len(fin.run) - 1
          /\ \A i \in 1 .. Len(fin'.run) : fin'.run[i] = fin.run[i + 1]
          /\ fin'.finalizables = fin.finalizables /\ fin'.working = fin.working
      BY <2>2, PopStep DEF Lists
    <3>3. \A i \in 1 .. Len(fin'.run) : finalized'[fin'.run[i]] = 0
      BY <3>2 DEF OnceInv
    <3>4. QED
      BY <3>1, <3>2, <3>3 DEF OnceInv
  <2>3. CASE MGoto(m, "finalize", "finalize") /\ SkipMygote("run")
    <3>1. /\ rp' = rp /\ mpc[m] = "finalize"
          /\ (\A n \in Mutators : mpc[n] # "finalizing" /\ mpc'[n] # "finalizing")
      BY <1>18, <2>3, Alone DEF RunFinalize, MGoto, TypeInv
    <3>2. /\ finalized' = finalized /\ Len(fin.run) \in Nat /\ Len(fin.run) >= 1
          /\ Len(fin'.run) = Len(fin.run) - 1
          /\ \A i \in 1 .. Len(fin'.run) : fin'.run[i] = fin.run[i + 1]
          /\ fin'.finalizables = fin.finalizables /\ fin'.working = fin.working
      BY <2>3, PopStep DEF SkipMygote, Lists
    <3>3. \A i \in 1 .. Len(fin'.run) : finalized'[fin'.run[i]] = 0
      BY <3>1, <3>2 DEF OnceInv
    <3>4. QED
      BY <3>1, <3>2, <3>3 DEF OnceInv
  <2>4. QED
    BY <1>18, <2>1, <2>2, <2>3 DEF RunFinalize
<1>19. ASSUME NEW m \in Mutators, RunUnlock(m) PROVE OnceInv'
  BY <1>19 DEF RunUnlock, MGoto, TypeInv, OnceInv
<1>20. ASSUME NEW m \in Mutators, RunReturn(m) PROVE OnceInv'
  BY <1>20 DEF RunReturn, MGoto, TypeInv, OnceInv
<1>21. ASSUME AddFinalizable PROVE OnceInv'
  <2>1. PICK dead \in Objs :
          /\ finalized[dead] = 0
          /\ ToSet(fin'.finalizables) = ToSet(fin.finalizables) \cup {dead}
          /\ fin'.working = fin.working /\ fin'.run = fin.run
    BY <1>21, AddStep
  <2>2. rp' = rp /\ finalized' = finalized /\ mpc' = mpc
    BY <1>21 DEF AddFinalizable
  <2>3. QED
    BY <2>1, <2>2 DEF OnceInv
<1>22. ASSUME Notify PROVE OnceInv'
  BY <1>22 DEF Notify, TypeInv, OnceInv
<1>23. ASSUME PreFork PROVE OnceInv'
  BY <1>23 DEF PreFork, TypeInv, OnceInv
<1>24. ASSUME UNCHANGED vars PROVE OnceInv'
  BY <1>24 DEF vars, TypeInv, OnceInv
<1>25. QED
  BY <1>1, <1>2, <1>3, <1>4, <1>5, <1>6, <1>7, <1>8, <1>9, <1>10, <1>11,
     <1>12, <1>13, <1>14, <1>15, <1>16, <1>17, <1>18, <1>19, <1>20, <1>21, <1>22, <1>23, <1>24
  DEF Next, RpStep, RunStep

\* What was queued when RunFinalization or Stop was called.
LEMMA DueStep ==
    ASSUME IInv, [Next]_vars
    PROVE  DueInv'
<1> TypeInv /\ ListInv /\ LockInv /\ OnceInv /\ DueInv /\ StopInv
  BY DEF IInv
<1>1. ASSUME Create PROVE DueInv'
  <2>1. Queued' = Queued
    BY <1>1 DEF Create, Queued
  <2>2. QED
    BY <1>1, <2>1, NamesAssumption DEF Create, TypeInv, Callers, DueInv, StopInv, IsMygoteObj
<1>2. ASSUME WaitStarted PROVE DueInv'
  <2>1. Queued' = Queued
    BY <1>2 DEF WaitStarted, Queued
  <2>2. QED
    BY <1>2, <2>1, NamesAssumption DEF WaitStarted, TypeInv, Callers, DueInv, IsMygoteObj
<1>3. ASSUME Stop PROVE DueInv'
  <2>1. Queued' = Queued
    BY <1>3 DEF Stop, Queued
  <2>2. QED
    BY <1>3, <2>1, NamesAssumption DEF Stop, TypeInv, Callers, DueInv, StopInv, IsMygoteObj
<1>4. ASSUME WaitStop PROVE DueInv'
  <2>1. Queued' = Queued
    BY <1>4 DEF WaitStop, Queued
  <2>2. QED
    BY <1>4, <2>1, NamesAssumption DEF WaitStop, TypeInv, Callers, DueInv, StopInv, IsMygoteObj
<1>5. ASSUME RpInit PROVE DueInv'
  <2>1. Queued' = Queued
    BY <1>5 DEF RpInit, Queued
  <2>2. QED
    BY <1>5, <2>1, NamesAssumption DEF RpInit, TypeInv, Callers, DueInv, StopInv, IsMygoteObj
<1>6. ASSUME NotifyStarted PROVE DueInv'
  <2>1. Queued' = Queued
    BY <1>6 DEF NotifyStarted, Queued
  <2>2. QED
    BY <1>6, <2>1, NamesAssumption DEF NotifyStarted, TypeInv, Callers, DueInv, StopInv, IsMygoteObj
<1>7. ASSUME Run PROVE DueInv'
  <2>1. Queued' = Queued
    BY <1>7 DEF Run, Queued
  <2>2. QED
    BY <1>7, <2>1, NamesAssumption DEF Run, TypeInv, Callers, DueInv, StopInv, IsMygoteObj
<1>8. ASSUME ProcessSwap PROVE DueInv'
  <2>1. /\ fin'.working = fin.finalizables /\ ToSet(fin.working) = {}
        /\ ToSet(fin'.finalizables) = {} /\ fin'.run = fin.run
    BY <1>8, SwapStep DEF ProcessSwap, RpGoto, LockInv, Lists
  <2>2. Queued' = Queued
    BY <2>1, FinType, QueuedNext
  <2>3. \A m \in Mutators : mpc[m] # "synced"
    BY <1>8, NamesAssumption DEF ProcessSwap, RpGoto, LockInv
  <2>4. QED
    BY <1>8, <2>1, <2>2, <2>3 DEF ProcessSwap, RpGoto, DueInv, IsMygoteObj
<1>9. ASSUME ProcessFinalize PROVE DueInv'
  <2>1. CASE RpGoto("finalize", "finalizing") /\ Finalize("working")
    <3>1. /\ mpc' = mpc /\ due' = due /\ rp'.last = rp.last /\ zygote' = zygote
          /\ rp.pc \in {"finalize", "finalizing"} /\ rp'.pc # "exited"
      BY <1>9, <2>1 DEF ProcessFinalize, RpGoto, TypeInv
    <3>2. fin' = fin /\ \A o \in Objs : finalized[o] >= 1 => finalized'[o] >= 1
      <4> DEFINE first == fin.working[1]
      <4>1. /\ fin' = fin /\ first \in Objs /\ finalized'[first] = finalized[first] + 1
            /\ \A o \in Objs : o # first => finalized'[o] = finalized[o]
        BY <2>1, FinalizeStep
      <4>2. \A o \in Objs : finalized[o] \in Nat
        BY DEF TypeInv
      <4> HIDE DEF first
      <4>3. QED
        BY <4>1, <4>2
    <3>3. Queued' = Queued
      BY <3>2 DEF Queued
    <3>4. \A t \in Callers : due[t] \subseteq Objs
      BY DEF TypeInv
    <3>5. QED
      BY <3>1, <3>2, <3>3, <3>4 DEF DueInv, IsMygoteObj
  <2>2. CASE RpGoto("finalizing", "finalize") /\ PopFront("working")
    <3>1. /\ mpc' = mpc /\ due' = due /\ rp'.last = rp.last /\ zygote' = zygote
          /\ rp.pc \in {"finalize", "finalizing"} /\ rp'.pc # "exited"
      BY <1>9, <2>2 DEF ProcessFinalize, RpGoto, TypeInv
    <3> DEFINE first == fin.working[1]
    <3>2. /\ finalized' = finalized /\ Len(fin.working) \in Nat /\ Len(fin.working) >= 1
          /\ ToSet(fin.working) = {first} \cup ToSet(fin'.working)
          /\ fin'.finalizables = fin.finalizables /\ fin'.run = fin.run
      BY <2>2, PopStep DEF Lists
    <3>3. finalized[first] = 1
      BY <2>2, <3>2 DEF OnceInv, RpGoto
    <3> HIDE DEF first
    <3>4. Queued \subseteq Queued' \cup {first}
      BY <3>2, FinType, QueuedNext
    <3>5. QED
      BY <3>1, <3>2, <3>3, <3>4 DEF DueInv, IsMygoteObj
  <2>3. CASE RpGoto("finalize", "finalize") /\ SkipMygote("working")
    <3>1. /\ mpc' = mpc /\ due' = due /\ rp'.last = rp.last /\ zygote' = zygote
          /\ rp.pc \in {"finalize", "finalizing"} /\ rp'.pc # "exited"
      BY <1>9, <2>3 DEF ProcessFinalize, RpGoto, TypeInv
    <3> DEFINE first == fin.working[1]
    <3>2. /\ finalized' = finalized /\ ToSet(fin.working) = {first} \cup ToSet(fin'.working)
          /\ fin'.finalizables = fin.finalizables /\ fin'.run = fin.run
      BY <2>3, PopStep DEF SkipMygote, Lists
    <3>3. IsMygoteObj(first)
      <4>1. fin.working # << >> /\ IsMygoteObj(Head(fin.working))
        BY <2>3 DEF SkipMygote
      <4>2. QED
        BY <4>1, FinType, TailFacts
    <3> HIDE DEF first
    <3>4. Queued \subseteq Queued' \cup {first}
      BY <3>2, FinType, QueuedNext
    <3>5. QED
      BY <3>1, <3>2, <3>3, <3>4 DEF DueInv, IsMygoteObj
  <2>4. QED
    BY <1>9, <2>1, <2>2, <2>3 DEF ProcessFinalize
<1>10. ASSUME ProcessUnlock PROVE DueInv'
  <2>1. Queued' = Queued
    BY <1>10 DEF ProcessUnlock, Queued
  <2>2. QED
    BY <1>10, <2>1, NamesAssumption DEF ProcessUnlock, RpGoto, TypeInv, Callers, DueInv, StopInv, IsMygoteObj
<1>11. ASSUME Wait PROVE DueInv'
  <2>1. Queued' = Queued
    BY <1>11 DEF Wait, Queued
  <2>2. QED
    BY <1>11, <2>1, NamesAssumption DEF Wait, RpGoto, TypeInv, Callers, DueInv, StopInv, IsMygoteObj
<1>12. ASSUME ShouldStartIteration PROVE DueInv'
  <2>1. Queued' = Queued
    BY <1>12 DEF ShouldStartIteration, Queued
  <2>2. QED
    BY <1>12, <2>1, NamesAssumption DEF ShouldStartIteration, TypeInv, Callers, DueInv, StopInv, IsMygoteObj
<1>13. ASSUME ProcessLock PROVE DueInv'
  <2>1. Queued' = Queued
    BY <1>13 DEF ProcessLock, Queued
  <2>2. QED
    BY <1>13, <2>1, NamesAssumption DEF ProcessLock, RpGoto, TypeInv, Callers, DueInv, StopInv, IsMygoteObj
<1>14. ASSUME NEW m \in Mutators, RunFinalization(m) PROVE DueInv'
  <2>1. \A o \in due'[m] : o \in Queued'
    BY <1>14 DEF RunFinalization, MGoto, TypeInv, Callers, Queued
  <2>2. QED
    BY <1>14, <2>1, NamesAssumption DEF RunFinalization, MGoto, TypeInv, Callers, DueInv, Queued, IsMygoteObj
<1>15. ASSUME NEW m \in Mutators, RunLock(m) PROVE DueInv'
  <2>1. Queued' = Queued
    BY <1>15 DEF RunLock, Queued
  <2>2. QED
    BY <1>15, <2>1, NamesAssumption DEF RunLock, MGoto, TypeInv, Callers, DueInv, IsMygoteObj
<1>16. ASSUME NEW m \in Mutators, RunSync(m) PROVE DueInv'
  <2>1. fin.working = << >>
    BY <1>16, NamesAssumption DEF RunSync, LockInv
  <2>2. ToSet(fin.working) = {}
    BY <2>1, EmptyList, FinType
  <2>3. Queued' = Queued
    BY <1>16 DEF RunSync, Queued
  <2>4. QED
    BY <1>16, <2>2, <2>3 DEF RunSync, MGoto, TypeInv, DueInv, IsMygoteObj
<1>17. ASSUME NEW m \in Mutators, RunSwap(m) PROVE DueInv'
  <2>1. /\ fin'.run = fin.finalizables /\ ToSet(fin.run) = {}
        /\ ToSet(fin'.finalizables) = {} /\ fin'.working = fin.working
    BY <1>17, SwapStep, RunEmpty DEF RunSwap, MGoto, Lists
  <2>2. Queued' = Queued
    BY <2>1, FinType, QueuedNext
  <2>3. /\ \A n \in Mutators \ {m} : mpc'[n] = mpc[n]
        /\ mpc'[m] = "finalize" /\ rp' = rp /\ due' = due /\ finalized' = finalized
        /\ zygote' = zygote
    BY <1>17 DEF RunSwap, MGoto, TypeInv
  <2>4. QED
    BY <2>1, <2>2, <2>3 DEF DueInv, IsMygoteObj
<1>18. ASSUME NEW m \in Mutators, RunFinalize(m) PROVE DueInv'
  <2>1. CASE MGoto(m, "finalize", "finalizing") /\ Finalize("run")
    <3>1. /\ rp' = rp /\ due' = due /\ mpc[m] \in {"finalize", "finalizing"}
          /\ mpc'[m] \in {"finalize", "finalizing"} /\ zygote' = zygote
          /\ \A n \in Mutators \ {m} : mpc'[n] = mpc[n]
      BY <1>18, <2>1 DEF RunFinalize, MGoto, TypeInv
    <3>2. fin' = fin /\ \A o \in Objs : finalized[o] >= 1 => finalized'[o] >= 1
      <4> DEFINE first == fin.run[1]
      <4>1. /\ fin' = fin /\ first \in Objs /\ finalized'[first] = finalized[first] + 1
            /\ \A o \in Objs : o # first => finalized'[o] = finalized[o]
        BY <2>1, FinalizeStep
      <4>2. \A o \in Objs : finalized[o] \in Nat
        BY DEF TypeInv
      <4> HIDE DEF first
      <4>3. QED
        BY <4>1, <4>2
    <3>3. Queued' = Queued
      BY <3>2 DEF Queued
    <3>4. \A t \in Callers : due[t] \subseteq Objs
      BY DEF TypeInv
    <3>5. QED
      BY <3>1, <3>2, <3>3, <3>4 DEF DueInv, IsMygoteObj
  <2>2. CASE MGoto(m, "finalizing", "finalize") /\ PopFront("run")
    <3>1. /\ rp' = rp /\ due' = due /\ mpc[m] \in {"finalize", "finalizing"}
          /\ mpc'[m] \in {"finalize", "finalizing"} /\ zygote' = zygote
          /\ \A n \in Mutators \ {m} : mpc'[n] = mpc[n]
      BY <1>18, <2>2 DEF RunFinalize, MGoto, TypeInv
    <3> DEFINE first == fin.run[1]
    <3>2. /\ finalized' = finalized /\ Len(fin.run) \in Nat /\ Len(fin.run) >= 1
          /\ ToSet(fin.run) = {first} \cup ToSet(fin'.run)
          /\ fin'.finalizables = fin.finalizables /\ fin'.working = fin.working
      BY <2>2, PopStep DEF Lists
    <3>3. finalized[first] = 1
      BY <2>2, <3>2 DEF OnceInv, MGoto
    <3> HIDE DEF first
    <3>4. Queued \subseteq Queued' \cup {first}
      BY <3>2, FinType, QueuedNext
    <3>5. QED
      BY <3>1, <3>2, <3>3, <3>4 DEF DueInv, IsMygoteObj
  <2>3. CASE MGoto(m, "finalize", "finalize") /\ SkipMygote("run")
    <3>1. /\ rp' = rp /\ due' = due /\ mpc[m] \in {"finalize", "finalizing"}
          /\ mpc'[m] \in {"finalize", "finalizing"} /\ zygote' = zygote
          /\ \A n \in Mutators \ {m} : mpc'[n] = mpc[n]
      BY <1>18, <2>3 DEF RunFinalize, MGoto, TypeInv
    <3> DEFINE first == fin.run[1]
    <3>2. /\ finalized' = finalized /\ ToSet(fin.run) = {first} \cup ToSet(fin'.run)
          /\ fin'.finalizables = fin.finalizables /\ fin'.working = fin.working
      BY <2>3, PopStep DEF SkipMygote, Lists
    <3>3. IsMygoteObj(first)
      <4>1. fin.run # << >> /\ IsMygoteObj(Head(fin.run))
        BY <2>3 DEF SkipMygote
      <4>2. QED
        BY <4>1, FinType, TailFacts
    <3> HIDE DEF first
    <3>4. Queued \subseteq Queued' \cup {first}
      BY <3>2, FinType, QueuedNext
    <3>5. QED
      BY <3>1, <3>2, <3>3, <3>4 DEF DueInv, IsMygoteObj
  <2>4. QED
    BY <1>18, <2>1, <2>2, <2>3 DEF RunFinalize
<1>19. ASSUME NEW m \in Mutators, RunUnlock(m) PROVE DueInv'
  <2>1. ToSet(fin.run) = {}
    BY <1>19, EmptyList, FinType DEF RunUnlock
  <2>2. Queued' = Queued
    BY <1>19 DEF RunUnlock, Queued
  <2>3. QED
    BY <1>19, <2>1, <2>2 DEF RunUnlock, MGoto, TypeInv, DueInv, IsMygoteObj
<1>20. ASSUME NEW m \in Mutators, RunReturn(m) PROVE DueInv'
  <2>1. Queued' = Queued
    BY <1>20 DEF RunReturn, Queued
  <2>2. QED
    BY <1>20, <2>1, NamesAssumption DEF RunReturn, MGoto, TypeInv, Callers, DueInv, IsMygoteObj
<1>21. ASSUME AddFinalizable PROVE DueInv'
  <2>1. PICK dead \in Objs :
          /\ finalized[dead] = 0 /\ dead \notin Queued /\ ~IsMygoteObj(dead)
          /\ ToSet(fin'.finalizables) = ToSet(fin.finalizables) \cup {dead}
          /\ fin'.working = fin.working /\ fin'.run = fin.run
    BY <1>21, AddStep
  <2>2. Queued \subseteq Queued'
    BY <2>1, FinType, QueuedNext
  <2>3. \A t \in Callers : dead \notin due[t]
    BY <2>1 DEF DueInv, IsMygoteObj
  <2>4. QED
    BY <1>21, <2>1, <2>2, <2>3 DEF AddFinalizable, DueInv, Callers, IsMygoteObj
<1>22. ASSUME Notify PROVE DueInv'
  <2>1. Queued' = Queued
    BY <1>22 DEF Notify, Queued
  <2>2. QED
    BY <1>22, <2>1, NamesAssumption DEF Notify, TypeInv, Callers, DueInv, IsMygoteObj
<1>23. ASSUME PreFork PROVE DueInv'
  <2>1. Queued' = Queued /\ zygote.mygote \subseteq zygote'.mygote
    BY <1>23 DEF PreFork, Queued, StopInv
  <2>2. QED
    BY <1>23, <2>1 DEF PreFork, DueInv, IsMygoteObj
<1>24. ASSUME UNCHANGED vars PROVE DueInv'
  BY <1>24 DEF vars, DueInv, Queued, IsMygoteObj
<1>25. QED
  BY <1>1, <1>2, <1>3, <1>4, <1>5, <1>6, <1>7, <1>8, <1>9, <1>10, <1>11,
     <1>12, <1>13, <1>14, <1>15, <1>16, <1>17, <1>18, <1>19, <1>20, <1>21, <1>22, <1>23, <1>24
  DEF Next, RpStep, RunStep

\* The initial state.
LEMMA InitInv ==
    Init => IInv
<1> SUFFICES ASSUME Init PROVE IInv
  OBVIOUS
<1>1. fin \in [Lists -> Seq(Objs)]
  <2>1. fin = [finalizables |-> << >>, working |-> << >>, run |-> << >>] /\ << >> \in Seq(Objs)
    BY DEF Init
  <2>2. ASSUME NEW e \in Seq(Objs)
        PROVE  [finalizables |-> e, working |-> e, run |-> e] \in [Lists -> Seq(Objs)]
    BY DEF Lists
  <2>3. QED
    BY <2>1, <2>2
<1>2. finalized \in [Objs -> Nat] /\ mpc \in [Mutators -> MPcs] /\ gc \in {"idle", "notify"}
  BY DEF Init, MPcs
<1>3. rp \in [pc : RpPcs, started : BOOLEAN, running : BOOLEAN, finalizeOnStop : BOOLEAN,
              processAll : BOOLEAN, last : BOOLEAN]
  BY DEF Init, RpPcs
<1>4. /\ lock \in [processing : Mutators \cup {"rp", NoOne}, run : Mutators \cup {NoOne}]
      /\ due \in [Callers -> SUBSET Objs]
      /\ zygote \in [hasForked : BOOLEAN, mygote : SUBSET Objs]
      /\ ctl \in {"create", "waitStarted", "up", "stop", "waitStop", "fork", "done"}
  BY DEF Init, Callers
<1>5. TypeInv
  BY <1>1, <1>2, <1>3, <1>4 DEF TypeInv
<1>6. \A l \in Lists : fin[l] = << >> /\ Len(fin[l]) = 0 /\ ToSet(fin[l]) = {}
  BY <1>1, EmptyList DEF Init, Lists
<1>7. ListInv
  BY <1>6 DEF ListInv, Distinct
<1>8. LockInv
  BY NamesAssumption DEF Init, LockInv
<1>9. OnceInv
  BY <1>6 DEF Init, OnceInv, Lists
<1>10. DueInv /\ StopInv
  BY <1>6 DEF Init, DueInv, StopInv, Callers, NotYet, Lists
<1>11. QED
  BY <1>5, <1>7, <1>8, <1>9, <1>10 DEF IInv

\* The lists together are as long as there are queued objects.
LEMMA QueueLength ==
    ASSUME TypeInv, ListInv
    PROVE  /\ Len(fin.finalizables) + Len(fin.working) + Len(fin.run) = Cardinality(Queued)
           /\ \A l \in DOMAIN fin : fin[l] \in BoundedSeq(Objs, Cardinality(Objs))
<1> DEFINE A == ToSet(fin.finalizables)
           B == ToSet(fin.working)
           C == ToSet(fin.run)
<1>1. /\ IsFiniteSet(A) /\ Cardinality(A) = Len(fin.finalizables)
      /\ IsFiniteSet(B) /\ Cardinality(B) = Len(fin.working)
      /\ IsFiniteSet(C) /\ Cardinality(C) = Len(fin.run)
  BY FinType, DistinctLength DEF ListInv, Lists
<1>2. A \cap B = {} /\ (A \cup B) \cap C = {} /\ Queued = (A \cup B) \cup C
  BY FinType DEF ListInv, Lists
<1>3. /\ Len(fin.finalizables) \in Nat /\ Len(fin.working) \in Nat /\ Len(fin.run) \in Nat
  BY FinType
<1> HIDE DEF A, B, C
<1>4. IsFiniteSet(A \cup B) /\ Cardinality(A \cup B) = Cardinality(A) + Cardinality(B)
  <2>1. IsFiniteSet(A \cup B)
        /\ Cardinality(A \cup B) = Cardinality(A) + Cardinality(B) - Cardinality(A \cap B)
    BY <1>1, FS_Union
  <2>2. Cardinality(A \cap B) = 0
    BY <1>2, FS_EmptySet
  <2>3. QED
    BY <1>1, <1>3, <2>1, <2>2
<1>5. Cardinality((A \cup B) \cup C) = Cardinality(A \cup B) + Cardinality(C)
  <2>1. Cardinality((A \cup B) \cup C) =
           Cardinality(A \cup B) + Cardinality(C) - Cardinality((A \cup B) \cap C)
    BY <1>1, <1>4, FS_Union
  <2>2. Cardinality((A \cup B) \cap C) = 0
    BY <1>2, FS_EmptySet
  <2>3. Cardinality(A \cup B) \in Nat /\ Cardinality(C) \in Nat
    BY <1>1, <1>4, FS_CardinalityType
  <2>4. QED
    BY <2>1, <2>2, <2>3
<1>6. ASSUME NEW l \in Lists PROVE fin[l] \in BoundedSeq(Objs, Cardinality(Objs))
  <2>1. fin[l] \in Seq(Objs) /\ Distinct(fin[l])
    BY DEF TypeInv, ListInv
  <2>2. Len(fin[l]) <= Cardinality(Objs) /\ Cardinality(Objs) \in Nat
    BY <2>1, DistinctLength
  <2>3. fin[l] \in [1 .. Len(fin[l]) -> Objs] /\ Len(fin[l]) \in 0 .. Cardinality(Objs)
    BY <2>1, <2>2
  <2>4. QED
    BY <2>3 DEF BoundedSeq, SeqOf
<1>7. QED
  BY <1>1, <1>2, <1>4, <1>5, <1>6, FinType

-----------------------------------------------------------------------------
(* No notification of the RP thread is lost.                               *)

\* What is added after the swap is announced: the notification is pending in
\* the GC thread or in processAll.  Inductive relative to IInv.
NoticeInv ==
    fin.finalizables # << >> /\ rp.pc \in {"finalize", "finalizing", "wait", "should"} =>
        gc = "notify" \/ rp.processAll

\* A step that neither adds to finalizables nor brings the RP thread past its
\* swap nor consumes the notification.
LEMMA NoticeFrame ==
    ASSUME NoticeInv, gc' = gc, rp'.processAll = rp.processAll,
           fin'.finalizables = fin.finalizables \/ fin'.finalizables = << >>,
           rp'.pc \in {"finalize", "finalizing", "wait", "should"} =>
              rp.pc \in {"finalize", "finalizing", "wait", "should"}
    PROVE  NoticeInv'
  BY DEF NoticeInv

\* The RP thread consumes a notification only to start an iteration.
LEMMA NoticeStep ==
    ASSUME IInv, NoticeInv, [Next]_vars
    PROVE  NoticeInv'
<1> TypeInv /\ LockInv /\ StopInv
  BY DEF IInv
<1>0. /\ fin \in [Lists -> Seq(Objs)] /\ Lists = {"finalizables", "working", "run"}
      /\ rp \in [pc : RpPcs, started : BOOLEAN, running : BOOLEAN, finalizeOnStop : BOOLEAN,
                 processAll : BOOLEAN, last : BOOLEAN]
  BY DEF TypeInv, Lists
<1>1. CASE Create \/ WaitStarted \/ Stop \/ WaitStop \/ PreFork
  BY <1>0, <1>1, NoticeFrame DEF Create, WaitStarted, Stop, WaitStop, PreFork
<1>2. CASE RpInit \/ NotifyStarted \/ Run \/ ProcessLock
  BY <1>0, <1>2, NoticeFrame DEF RpInit, NotifyStarted, Run, ProcessLock, RpGoto
<1>3. CASE ProcessUnlock \/ Wait
  BY <1>0, <1>3, NoticeFrame DEF ProcessUnlock, Wait, RpGoto
<1>4. CASE ProcessSwap
  <2>1. fin'.finalizables = << >>
    BY <1>4, SwapStep DEF ProcessSwap, RpGoto, LockInv
  <2>2. QED
    BY <2>1 DEF NoticeInv
<1>5. CASE ProcessFinalize
  <2>1. fin'.finalizables = fin.finalizables
    BY <1>0, <1>5 DEF ProcessFinalize, SkipMygote, Finalize, PopFront
  <2>2. QED
    BY <1>0, <1>5, <2>1, NoticeFrame DEF ProcessFinalize, RpGoto
<1>6. CASE ShouldStartIteration
  BY <1>0, <1>6 DEF ShouldStartIteration, NoticeInv
<1>7. ASSUME NEW m \in Mutators, RunFinalization(m) \/ RunLock(m) \/ RunSync(m) \/ RunStep(m)
      PROVE  NoticeInv'
  <2>1. rp' = rp /\ gc' = gc
    BY <1>7 DEF RunFinalization, RunLock, RunSync, RunStep, RunSwap, RunFinalize, RunUnlock,
                RunReturn, MGoto
  <2>2. fin'.finalizables = fin.finalizables \/ fin'.finalizables = << >>
    <3>1. CASE RunSwap(m)
      <4>1. fin.run = << >>
        BY <3>1, RunEmpty DEF RunSwap, MGoto
      <4>2. QED
        BY <3>1, <4>1, SwapStep DEF RunSwap
    <3>2. CASE RunFinalize(m)
      BY <1>0, <3>2 DEF RunFinalize, SkipMygote, Finalize, PopFront
    <3>3. CASE ~RunSwap(m) /\ ~RunFinalize(m)
      BY <1>7, <3>3 DEF RunFinalization, RunLock, RunSync, RunStep, RunUnlock, RunReturn
    <3>4. QED
      BY <3>1, <3>2, <3>3
  <2>3. QED
    BY <2>1, <2>2, NoticeFrame
<1>8. CASE AddFinalizable
  BY <1>8 DEF AddFinalizable, NoticeInv
<1>9. CASE Notify
  BY <1>0, <1>9 DEF Notify, NoticeInv
<1>10. CASE UNCHANGED vars
  BY <1>10 DEF vars, NoticeInv
<1>11. QED
  BY <1>1, <1>2, <1>3, <1>4, <1>5, <1>6, <1>7, <1>8, <1>9, <1>10 DEF Next, RpStep

\* What a caller has found queued and is queued no more is finalized, or is an
\* object of the zygote.
LEMMA DueSettled ==
    ASSUME TypeInv, OnceInv, DueInv, NEW t \in Callers, NEW o \in due[t], o \notin Queued
    PROVE  Settled(o)
<1>1. o \in Objs /\ finalized[o] \in Nat /\ finalized[o] <= 1
  BY DEF TypeInv, OnceInv
<1>2. finalized[o] >= 1 \/ IsMygoteObj(o)
  BY DEF DueInv
<1>3. QED
  BY <1>1, <1>2 DEF Settled

-----------------------------------------------------------------------------
(* The theorems.                                                           *)

\* IInv holds in every state: the RP thread, the mutators in RunFinalization
\* and the GC thread keep the lists, the locks and the flags consistent.
THEOREM InductiveInvariant ==
    Spec => []IInv
<1>1. IInv /\ [Next]_vars => IInv'
  BY TypeStep, ListStep, LockStep, OnceStep, DueStep, StopStep DEF IInv
<1>2. QED
  BY InitInv, <1>1, PTL DEF Spec

\* No queued object is forgotten: whichever list it is in, a thread is at work
\* on that list, or the RP thread will come to it by the notification that
\* ShouldStartIteration has still to consume.
THEOREM NoNotificationLost ==
    Spec => []NothingForgotten
<1>1. Init => NoticeInv
  BY DEF Init, NoticeInv
<1>2. IInv /\ NoticeInv /\ [Next]_vars => NoticeInv'
  BY NoticeStep
<1>3. IInv /\ NoticeInv => NothingForgotten
  BY DEF IInv, LockInv, NoticeInv, NothingForgotten
<1>4. QED
  BY <1>1, <1>2, <1>3, InductiveInvariant, PTL DEF Spec

\* finalize() of an object is called at most once and an object is in one
\* list at most once (ProcessFinalizables, RunFinalization), however many
\* mutators run finalizers while the RP thread does.
THEOREM FinalizesOnce ==
    Spec => []FinalizedOnce
<1>1. IInv /\ NothingForgotten => FinalizedOnce
  <2> SUFFICES ASSUME IInv, NothingForgotten PROVE FinalizedOnce
    OBVIOUS
  <2>1. TypeInv /\ ListInv /\ OnceInv
    BY DEF IInv
  <2>2. /\ Len(fin.finalizables) + Len(fin.working) + Len(fin.run) = Cardinality(Queued)
        /\ \A l \in DOMAIN fin : fin[l] \in BoundedSeq(Objs, Cardinality(Objs))
    BY <2>1, QueueLength
  <2>3. TypeOK
    BY <2>1, <2>2 DEF TypeOK, TypeInv
  <2>4. QED
    BY <2>1, <2>2, <2>3 DEF FinalizedOnce, OnceInv
<1>2. QED
  BY InductiveInvariant, NoNotificationLost, <1>1, PTL

\* Stop(true): when the RP thread has ended, what was queued when it was
\* stopped is finalized, dropped as an object of the zygote, or in the hands of
\* a mutator (ReferenceProcessor::Run).
THEOREM StopKeepsNothing ==
    Spec => []StopFinalizes
<1>1. IInv => StopFinalizes
  <2> SUFFICES ASSUME IInv, rp.pc = "exited", NEW o \in due["ctl"]
               PROVE  Settled(o) \/ o \in ToSet(fin.run)
    BY DEF StopFinalizes
  <2>1. TypeInv /\ LockInv /\ DueInv /\ OnceInv
    BY DEF IInv
  <2>2. fin.working = << >>
    BY <2>1 DEF LockInv
  <2>3. ToSet(fin.working) = {}
    BY <2>1, <2>2, EmptyList, FinType
  <2>4. due["ctl"] \cap ToSet(fin.finalizables) = {}
    BY <2>1 DEF DueInv
  <2>5. o \in Queued => o \in ToSet(fin.run)
    BY <2>1, <2>3, <2>4, FinType
  <2>6. QED
    BY <2>1, <2>5, DueSettled DEF Callers
<1>2. QED
  BY InductiveInvariant, <1>1, PTL

\* RunFinalization returns only after everything that was queued when it was
\* called has been finalized, by this thread, by another mutator or by the
\* RP thread, or dropped as an object of the zygote: the two locks it takes
\* in turn are enough.
THEOREM RunFinalizationWaits ==
    Spec => RunFinalizationComplete
<1>1. IInv => \A m \in Mutators : mpc[m] = "synced" => \A o \in due[m] : Settled(o)
  <2> SUFFICES ASSUME IInv, NEW m \in Mutators, mpc[m] = "synced", NEW o \in due[m]
               PROVE  Settled(o)
    OBVIOUS
  <2>1. TypeInv /\ DueInv /\ OnceInv
    BY DEF IInv
  <2>2. /\ due[m] \cap ToSet(fin.finalizables) = {} /\ due[m] \cap ToSet(fin.run) = {}
        /\ due[m] \cap ToSet(fin.working) = {}
    BY <2>1 DEF DueInv
  <2>3. o \notin Queued
    BY <2>1, <2>2, FinType
  <2>4. QED
    BY <2>1, <2>3, DueSettled DEF Callers
<1>2. IInv /\ [Next]_vars =>
        [\A m \in Mutators :
            mpc[m] = "synced" /\ mpc'[m] # "synced" => \A o \in due[m] : Settled(o)]_vars
  BY <1>1
<1>3. QED
  BY InductiveInvariant, <1>2, PTL DEF Spec, RunFinalizationComplete
=============================================================================
