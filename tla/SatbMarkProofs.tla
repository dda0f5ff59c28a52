--------------------------- MODULE SatbMarkProofs ---------------------------
(***************************************************************************)
(* Proofs about SatbMark for any mutators, any finite set of objects and   *)
(* any node size.                                                          *)
(*                                                                         *)
(* The snapshot invariant is not inductive as it stands: a store may       *)
(* overwrite a value that is not the one its barrier recorded, because     *)
(* another mutator has written the field in between, and that value may be *)
(* the one a mark task is about to read.  What is inductive does not use   *)
(* the field a mutator is about to overwrite at all: whoever is between    *)
(* barrier and store has already cut that edge.  A set that contains what  *)
(* is marked and recorded, and is closed along the edges that are neither  *)
(* cut nor traced, contains the snapshot.                                  *)
(***************************************************************************)
EXTENDS SatbMark, FiniteSetTheorems, TLAPS

-----------------------------------------------------------------------------
(* The inductive invariant.                                                *)

PhaseInv ==
    /\ running <=> gpc \in {"mark", "stw2"}
    /\ gpc \in {"idle", "stw1"} => marked = {} /\ enqueued = {}
    /\ gpc # "mark" => work = {} /\ scan = Null

MutatorInv == \A m \in Mutators :
    /\ mpc[m] \in {"out", "orphan"} => stack[m] = {}
    /\ mpc[m] = "out" => node[m] = {}
    /\ mpc[m] \in {"run", "store"} => marking[m] = running
    /\ mpc[m] = "store" => pending[m] \in stack[m] \cup {Static}

Holds == allocated \cup {Static}

\* A collection starts only when nothing live has been swept; what becomes
\* live while it marks was live in the first pause or is new, and marked.
LiveInv ==
    /\ gpc \in {"stw1", "mark", "stw2"} => Live \subseteq allocated
    /\ running => /\ Live \subseteq snapshot \cup marked
                  /\ snapshot \subseteq allocated
                  /\ marked \subseteq Holds

Recorded == work \cup retired \cup UNION {node[m] : m \in Mutators}

RecordInv ==
    running => enqueued \subseteq allocated /\ enqueued \subseteq marked \cup Recorded

\* The fields between a barrier and its store, and those already read.
Cut == {pending[m] : m \in {n \in Mutators : mpc[n] = "store"}}
Black == marked \ {scan}

Covers(D) ==
    /\ marked \cup Recorded \subseteq D
    /\ \A o \in (D \cap Holds) \ (Black \cup Cut) : heap[o] \in D \cup {Null}

CoverInv == running => \A D \in SUBSET Holders : Covers(D) => snapshot \subseteq D

IInv == TypeOK /\ PhaseInv /\ MutatorInv /\ LiveInv /\ RecordInv /\ CoverInv

-----------------------------------------------------------------------------
(* Reachability.                                                           *)

Roots == {Static} \cup UNION {stack[m] : m \in Mutators}

\* The live objects and the static fields contain the roots and are closed.
LEMMA LiveClosed ==
    ASSUME TypeOK
    PROVE  /\ Roots \subseteq Live \cup {Static}
           /\ Live \subseteq Objects
           /\ \A o \in Live \cup {Static} : heap[o] \in Live \cup {Null}
<1>1. Roots \subseteq Holders
  BY DEF Roots, TypeOK, Holders
<1>2. Live = Reach(Roots) \ {Static}
  BY DEF Live, Roots
<1>3. Roots \subseteq Reach(Roots) /\ Reach(Roots) \subseteq Holders
  BY <1>1 DEF Reach, ReachThrough
<1>4. Static \in Reach(Roots)
  BY <1>3 DEF Roots
<1>5. ASSUME NEW o \in Reach(Roots), heap[o] # Null PROVE heap[o] \in Reach(Roots)
  <2>1. o \in Holders /\ heap[o] \in Holders
    BY <1>3, <1>5 DEF TypeOK, Holders
  <2>2. ASSUME NEW C \in SUBSET Holders, Roots \subseteq C, Closed(C, Holders)
        PROVE  heap[o] \in C
    <3>1. o \in C
      BY <1>5, <2>2 DEF Reach, ReachThrough
    <3>2. QED
      BY <1>5, <2>1, <2>2, <3>1 DEF Closed
  <2>3. QED
    BY <2>1, <2>2 DEF Reach, ReachThrough
<1>6. \A o \in Holders : heap[o] # Static
  BY SatbAssumption DEF TypeOK, Holders
<1>7. QED
  BY <1>2, <1>3, <1>4, <1>5, <1>6 DEF Holders

\* They are the least such set, in a state and in its successor.
LEMMA LiveLeast ==
    ASSUME NEW C \in SUBSET Holders, Roots \subseteq C,
           \A o \in C : heap[o] \in C \cup {Null}
    PROVE  Live \subseteq C
  BY DEF Live, Roots, Reach, ReachThrough, Closed

LEMMA LiveLeastNext ==
    ASSUME NEW C \in SUBSET Holders, Roots' \subseteq C,
           \A o \in C : heap'[o] \in C \cup {Null}
    PROVE  Live' \subseteq C
  BY DEF Live, Roots, Reach, ReachThrough, Closed

\* A mutator makes nothing live but a new object, which is marked while marking
\* runs; and it neither unmarks nor deallocates.
LEMMA LiveStep ==
    ASSUME TypeOK, MutatorInv, NEW m \in Mutators, MutatorStep(m)
    PROVE  /\ Live' \subseteq Live \cup (allocated' \ allocated)
           /\ allocated \subseteq allocated' /\ marked \subseteq marked'
           /\ allocated' \subseteq Objects
           /\ running => allocated' \ allocated \subseteq marked'
           /\ marked' \subseteq marked \cup (allocated' \ allocated)
           /\ UNCHANGED <<gcVars>>
<1> DEFINE Fresh == allocated' \ allocated
<1> DEFINE C == Live \cup {Static} \cup Fresh
<1>1. /\ allocated \subseteq allocated' /\ marked \subseteq marked'
      /\ allocated' \subseteq Objects
      /\ running => Fresh \subseteq marked'
      /\ marked' \subseteq marked \cup Fresh
      /\ UNCHANGED gcVars
  BY DEF MutatorStep, Attach, NewObj, LoadField, Forget, SatbWriteBarrier, StoreField,
         Detach, Delete, TypeOK
<1>2. C \in SUBSET Holders /\ Roots \subseteq C
  BY <1>1, LiveClosed DEF Holders
<1>3. \A o \in Live \cup {Static} : heap[o] \in Live \cup {Null}
  BY LiveClosed
<1>4. \A n \in Mutators : stack[n] \subseteq C
  BY <1>2 DEF Roots
<1>5. /\ \A n \in Mutators : stack'[n] \subseteq C
      /\ \A o \in C : heap'[o] \in C \cup {Null}
  <2>1. CASE Attach(m) \/ Detach(m) \/ Delete(m)
    <3>1. heap' = heap /\ Fresh = {}
      BY <2>1 DEF Attach, Detach, Delete
    <3>2. \A n \in Mutators : stack'[n] \subseteq stack[n]
      BY <2>1 DEF Attach, Detach, Delete, TypeOK
    <3>3. QED
      BY <1>3, <1>4, <3>1, <3>2
  <2>2. ASSUME NEW p \in Objects, NewObj(m, p) PROVE <1>5!:
    <3>1. Fresh = {p}
      BY <2>2 DEF NewObj
    <3>2. \A n \in Mutators : stack'[n] \subseteq stack[n] \cup {p}
      BY <2>2 DEF NewObj, TypeOK
    <3>3. \A o \in Holders : heap'[o] = IF o = p THEN Null ELSE heap[o]
      BY <2>2 DEF NewObj, TypeOK
    <3>4. QED
      BY <1>2, <1>3, <1>4, <3>1, <3>2, <3>3
  <2>3. ASSUME NEW p \in Objects, Forget(m, p) PROVE <1>5!:
    <3>1. heap' = heap /\ Fresh = {} /\ \A n \in Mutators : stack'[n] \subseteq stack[n]
      BY <2>3 DEF Forget, TypeOK
    <3>2. QED
      BY <1>3, <1>4, <3>1
  <2>4. ASSUME NEW p \in Holders, LoadField(m, p) PROVE <1>5!:
    <3>1. heap' = heap /\ Fresh = {} /\ heap[p] # Null /\ p \in stack[m] \cup {Static}
      BY <2>4 DEF LoadField
    <3>2. \A n \in Mutators : stack'[n] \subseteq stack[n] \cup {heap[p]}
      BY <2>4 DEF LoadField, TypeOK
    <3>3. heap[p] \in C
      BY <1>3, <1>4, <3>1
    <3>4. QED
      BY <1>3, <1>4, <3>1, <3>2, <3>3
  <2>5. ASSUME NEW p \in Holders, SatbWriteBarrier(m, p) PROVE <1>5!:
    <3>1. heap' = heap /\ stack' = stack /\ Fresh = {}
      BY <2>5 DEF SatbWriteBarrier
    <3>2. QED
      BY <1>3, <1>4, <3>1
  <2>6. ASSUME NEW v \in Objects \cup {Null}, StoreField(m, v) PROVE <1>5!:
    <3>1. stack' = stack /\ Fresh = {} /\ v \in stack[m] \cup {Null}
      BY <2>6 DEF StoreField
    <3>2. \A o \in Holders : heap'[o] = heap[o] \/ heap'[o] = v
      BY <2>6 DEF StoreField, TypeOK
    <3>3. QED
      BY <1>2, <1>3, <1>4, <3>1, <3>2
  <2>7. QED
    BY <2>1, <2>2, <2>3, <2>4, <2>5, <2>6 DEF MutatorStep
<1>6. Roots' \subseteq C
  BY <1>5 DEF Roots
<1>7. Live' \subseteq C
  BY <1>2, <1>5, <1>6, LiveLeastNext
<1>8. Static \notin Live'
  BY DEF Live
<1>9. QED
  BY <1>1, <1>7, <1>8

\* Without a change of heap and stacks the same objects are live.
LEMMA LiveSame ==
    ASSUME UNCHANGED <<heap, stack>>
    PROVE  Live' = Live
  BY DEF Live, Reach, ReachThrough, Closed
-----------------------------------------------------------------------------
(* Types, control and mutators.                                            *)

\* EnsureGoodNode and Push never over-fill a node.
LEMMA NodeFits ==
    ASSUME TypeOK, NEW m \in Mutators, NEW x \in Objects, PushIntoNode(m, x)
    PROVE  /\ node' \in [Mutators -> SUBSET Objects]
           /\ retired' \in SUBSET Objects
           /\ \A n \in Mutators : Cardinality(node'[n]) <= NodeSize
<1>1. /\ node' \in [Mutators -> SUBSET Objects]
      /\ retired' \in SUBSET Objects
      /\ \A n \in Mutators \ {m} : node'[n] = node[n]
  BY DEF PushIntoNode, TypeOK
<1>2. IsFiniteSet(node[m])
  BY FS_Subset, SatbAssumption DEF TypeOK
<1>3. Cardinality(node[m]) \in Nat /\ NodeSize \in Nat /\ NodeSize >= 1
  BY <1>2, FS_CardinalityType, SatbAssumption
<1>4. Cardinality(node[m]) <= NodeSize
  BY DEF TypeOK
<1>5. CASE Cardinality(node[m]) = NodeSize
  <2>1. node'[m] = {x}
    BY <1>5 DEF PushIntoNode, TypeOK
  <2>2. Cardinality({x}) = 1
    BY FS_Singleton
  <2>3. QED
    BY <1>1, <1>3, <2>1, <2>2 DEF TypeOK
<1>6. CASE Cardinality(node[m]) # NodeSize
  <2>1. node'[m] = node[m] \cup {x}
    BY <1>6 DEF PushIntoNode, TypeOK
  <2>2. Cardinality(node[m] \cup {x}) =
          IF x \in node[m] THEN Cardinality(node[m]) ELSE Cardinality(node[m]) + 1
    BY <1>2, FS_AddElement, Zenon
  <2>3. Cardinality(node[m] \cup {x}) <= NodeSize
    BY <1>3, <1>4, <1>6, <2>2
  <2>4. QED
    BY <1>1, <2>1, <2>3 DEF TypeOK
<1>7. QED
  BY <1>5, <1>6

\* Every step keeps the types.
LEMMA TypeNext ==
    ASSUME TypeOK, MutatorInv, [Next]_vars
    PROVE  TypeOK'
<1> USE SatbAssumption DEF Holders
<1>0. IsFiniteSet({}) /\ Cardinality({}) = 0 /\ NodeSize >= 0
  BY FS_EmptySet, SatbAssumption
<1>1. CASE UNCHANGED vars
  BY <1>1 DEF TypeOK, vars, mutVars, satbVars, gcVars
<1>2. ASSUME NEW m \in Mutators, MutatorStep(m) PROVE TypeOK'
  <2>1. CASE Attach(m)
    BY <2>1 DEF Attach, TypeOK, gcVars
  <2>2. ASSUME NEW o \in Objects, NewObj(m, o) PROVE TypeOK'
    BY <2>2 DEF NewObj, TypeOK, gcVars, satbVars
  <2>3. ASSUME NEW o \in Objects, Forget(m, o) PROVE TypeOK'
    BY <2>3 DEF Forget, TypeOK, gcVars, satbVars
  <2>4. ASSUME NEW o \in Holders, LoadField(m, o) PROVE TypeOK'
    BY <2>4 DEF LoadField, TypeOK, gcVars, satbVars
  <2>5. ASSUME NEW o \in Holders, SatbWriteBarrier(m, o) PROVE TypeOK'
    <3>1. /\ node' \in [Mutators -> SUBSET Objects]
          /\ retired' \in SUBSET Objects
          /\ enqueued' \in SUBSET Objects
          /\ \A n \in Mutators : Cardinality(node'[n]) <= NodeSize
      <4>1. CASE marking[m] /\ heap[o] # Null /\ ShouldEnqueue(heap[o])
        <5>1. heap[o] \in Objects
          BY <4>1 DEF TypeOK
        <5>2. PushIntoNode(m, heap[o]) /\ enqueued' = enqueued \cup {heap[o]}
          BY <2>5, <4>1 DEF SatbWriteBarrier
        <5>3. QED
          BY <5>1, <5>2, NodeFits DEF TypeOK
      <4>2. CASE ~(marking[m] /\ heap[o] # Null /\ ShouldEnqueue(heap[o]))
        <5>1. UNCHANGED <<enqueued, node, retired>>
          BY <2>5, <4>2 DEF SatbWriteBarrier
        <5>2. QED
          BY <5>1 DEF TypeOK
      <4>3. QED
        BY <4>1, <4>2
    <3>2. /\ mpc' = [mpc EXCEPT ![m] = "store"]
          /\ pending' = [pending EXCEPT ![m] = o]
          /\ UNCHANGED <<stack, marking, heap, allocated, marked, gcVars>>
      BY <2>5 DEF SatbWriteBarrier
    <3>3. QED
      BY <3>1, <3>2 DEF TypeOK, gcVars
  <2>6. ASSUME NEW v \in Objects \cup {Null}, StoreField(m, v) PROVE TypeOK'
    BY <2>6 DEF StoreField, TypeOK, gcVars, satbVars
  <2>7. CASE Detach(m)
    BY <2>7 DEF Detach, TypeOK, gcVars, satbVars
  <2>8. CASE Delete(m)
    <3>1. \A n \in Mutators : node'[n] = node[n] \/ node'[n] = {}
      BY <2>8 DEF Delete, TypeOK
    <3>2. \A n \in Mutators : Cardinality(node'[n]) <= NodeSize
      BY <1>0, <3>1 DEF TypeOK
    <3>3. QED
      BY <2>8, <3>2 DEF Delete, TypeOK, gcVars
  <2>9. QED
    BY <1>2, <2>1, <2>2, <2>3, <2>4, <2>5, <2>6, <2>7, <2>8 DEF MutatorStep
<1>3. CASE GcStep
  <2>1. CASE ConcurrentMSPreSTW1
    BY <2>1 DEF ConcurrentMSPreSTW1, TypeOK, mutVars
  <2>2. CASE ConcurrentMarkPrepare
    <3>1. Live \subseteq Objects
      BY LiveClosed
    <3>2. UNION {stack[n] : n \in Listed} \subseteq Objects
      BY DEF TypeOK, Listed
    <3>3. marking' \in [Mutators -> BOOLEAN]
      BY <2>2 DEF ConcurrentMarkPrepare, TypeOK
    <3>4. QED
      BY <2>2, <3>1, <3>2, <3>3 DEF ConcurrentMarkPrepare, TypeOK, mutVars
  <2>3. ASSUME NEW o \in Holders, MarkObject(o) PROVE TypeOK'
    BY <2>3 DEF MarkObject, TypeOK, mutVars, satbVars
  <2>4. CASE CopyChildRefs
    BY <2>4 DEF CopyChildRefs, TypeOK, mutVars, satbVars
  <2>5. CASE ConcurrentReMark
    BY <2>5 DEF ConcurrentReMark, TypeOK, mutVars, kReMarkRounds
  <2>6. CASE ConcurrentMarkCleanup
    <3>1. marked' \in SUBSET Holders
      BY <2>6 DEF ConcurrentMarkCleanup, TypeOK, Traced
    <3>2. /\ node' \in [Mutators -> SUBSET Objects]
          /\ \A n \in Mutators : node'[n] = node[n] \/ node'[n] = {}
      BY <2>6 DEF ConcurrentMarkCleanup, TypeOK
    <3>3. \A n \in Mutators : Cardinality(node'[n]) <= NodeSize
      BY <1>0, <3>2 DEF TypeOK
    <3>4. marking' \in [Mutators -> BOOLEAN] /\ heap' \in [Holders -> Objects \cup {Null}]
      BY <2>6 DEF ConcurrentMarkCleanup, TypeOK
    <3>5. QED
      BY <2>6, <3>1, <3>2, <3>3, <3>4 DEF ConcurrentMarkCleanup, TypeOK, mutVars
  <2>7. CASE ConcurrentMSPostSTW2
    BY <2>7 DEF ConcurrentMSPostSTW2, TypeOK, mutVars
  <2>8. QED
    BY <1>3, <2>1, <2>2, <2>3, <2>4, <2>5, <2>6, <2>7 DEF GcStep
<1>4. QED
  BY <1>1, <1>2, <1>3 DEF Next

\* The GC thread's phases, and what is empty in them.
LEMMA PhaseNext ==
    ASSUME TypeOK, PhaseInv, MutatorInv, [Next]_vars
    PROVE  PhaseInv'
<1> USE DEF PhaseInv
<1>1. CASE UNCHANGED vars
  BY <1>1 DEF vars, gcVars, satbVars
<1>2. ASSUME NEW m \in Mutators, MutatorStep(m) PROVE PhaseInv'
  <2>1. UNCHANGED <<work, scan, running, gpc>>
    BY <1>2, LiveStep DEF gcVars
  <2>2. gpc \in {"idle", "stw1"} => marked' = {} /\ enqueued' = {}
    BY <1>2 DEF MutatorStep, Attach, NewObj, LoadField, Forget, SatbWriteBarrier,
                StoreField, Detach, Delete, MutatorInv, satbVars
  <2>3. QED
    BY <2>1, <2>2
<1>3. CASE GcStep
  <2>1. CASE ConcurrentMSPreSTW1
    BY <2>1 DEF ConcurrentMSPreSTW1
  <2>2. CASE ConcurrentMarkPrepare
    BY <2>2 DEF ConcurrentMarkPrepare
  <2>3. ASSUME NEW o \in Holders, MarkObject(o) PROVE PhaseInv'
    BY <2>3 DEF MarkObject, satbVars
  <2>4. CASE CopyChildRefs
    BY <2>4 DEF CopyChildRefs, satbVars
  <2>5. CASE ConcurrentReMark
    BY <2>5 DEF ConcurrentReMark
  <2>6. CASE ConcurrentMarkCleanup
    BY <2>6 DEF ConcurrentMarkCleanup
  <2>7. CASE ConcurrentMSPostSTW2
    BY <2>7 DEF ConcurrentMSPostSTW2
  <2>8. QED
    BY <1>3, <2>1, <2>2, <2>3, <2>4, <2>5, <2>6, <2>7 DEF GcStep
<1>4. QED
  BY <1>1, <1>2, <1>3 DEF Next

\* A listed mutator knows whether marking runs, and a thread that has left
\* keeps nothing but its node.
LEMMA MutatorNext ==
    ASSUME TypeOK, PhaseInv, MutatorInv, [Next]_vars
    PROVE  MutatorInv'
<1> USE DEF MutatorInv
<1>1. CASE UNCHANGED vars
  BY <1>1 DEF vars, gcVars, satbVars, mutVars
<1>2. ASSUME NEW m \in Mutators, MutatorStep(m) PROVE MutatorInv'
  <2>0. running' = running
    BY <1>2, LiveStep DEF gcVars
  <2>1. CASE Attach(m)
    BY <2>0, <2>1 DEF Attach, TypeOK
  <2>2. ASSUME NEW o \in Objects, NewObj(m, o) PROVE MutatorInv'
    BY <2>0, <2>2 DEF NewObj, TypeOK, satbVars
  <2>3. ASSUME NEW o \in Objects, Forget(m, o) PROVE MutatorInv'
    BY <2>0, <2>3 DEF Forget, TypeOK, satbVars
  <2>4. ASSUME NEW o \in Holders, LoadField(m, o) PROVE MutatorInv'
    BY <2>0, <2>4 DEF LoadField, TypeOK, satbVars
  <2>5. ASSUME NEW o \in Holders, SatbWriteBarrier(m, o) PROVE MutatorInv'
    <3>1. \A n \in Mutators \ {m} : node'[n] = node[n]
      BY <2>5 DEF SatbWriteBarrier, PushIntoNode, TypeOK
    <3>2. QED
      BY <2>0, <2>5, <3>1 DEF SatbWriteBarrier, TypeOK
  <2>6. ASSUME NEW v \in Objects \cup {Null}, StoreField(m, v) PROVE MutatorInv'
    BY <2>0, <2>6 DEF StoreField, TypeOK, satbVars
  <2>7. CASE Detach(m)
    BY <2>0, <2>7 DEF Detach, TypeOK, satbVars
  <2>8. CASE Delete(m)
    BY <2>0, <2>8 DEF Delete, TypeOK
  <2>9. QED
    BY <1>2, <2>1, <2>2, <2>3, <2>4, <2>5, <2>6, <2>7, <2>8 DEF MutatorStep
<1>3. CASE GcStep
  <2>1. CASE ConcurrentMSPreSTW1
    BY <2>1 DEF ConcurrentMSPreSTW1, mutVars
  <2>2. CASE ConcurrentMarkPrepare
    BY <2>2 DEF ConcurrentMarkPrepare, mutVars, Listed
  <2>3. ASSUME NEW o \in Holders, MarkObject(o) PROVE MutatorInv'
    BY <2>3 DEF MarkObject, satbVars, mutVars
  <2>4. CASE CopyChildRefs
    BY <2>4 DEF CopyChildRefs, satbVars, mutVars
  <2>5. CASE ConcurrentReMark
    BY <2>5 DEF ConcurrentReMark, mutVars
  <2>6. CASE ConcurrentMarkCleanup
    BY <2>6 DEF ConcurrentMarkCleanup, mutVars, Listed
  <2>7. CASE ConcurrentMSPostSTW2
    BY <2>7 DEF ConcurrentMSPostSTW2, mutVars
  <2>8. QED
    BY <1>3, <2>1, <2>2, <2>3, <2>4, <2>5, <2>6, <2>7 DEF GcStep
<1>4. QED
  BY <1>1, <1>2, <1>3 DEF Next
-----------------------------------------------------------------------------
(* What is live, what is recorded, what is covered.                        *)

\* The steps of the GC thread before the second pause touch neither the heap
\* nor the stacks.
LEMMA GcKeepsHeap ==
    ASSUME GcStep, ~ConcurrentMarkCleanup
    PROVE  Live' = Live /\ UNCHANGED <<allocated, heap, mutVars>>
<1>1. UNCHANGED <<allocated, heap, mutVars>>
  BY DEF GcStep, ConcurrentMSPreSTW1, ConcurrentMarkPrepare, MarkObject, CopyChildRefs,
         ConcurrentReMark, ConcurrentMSPostSTW2
<1>2. QED
  BY <1>1, LiveSame DEF mutVars

\* What becomes live while marking runs is new.
LEMMA LiveNext ==
    ASSUME TypeOK, PhaseInv, MutatorInv, LiveInv, [Next]_vars
    PROVE  LiveInv'
<1> USE DEF LiveInv, PhaseInv, Holds
<1>1. CASE UNCHANGED vars
  BY <1>1, LiveSame DEF vars, gcVars, mutVars
<1>2. ASSUME NEW m \in Mutators, MutatorStep(m) PROVE LiveInv'
  BY <1>2, LiveStep DEF gcVars
<1>3. CASE GcStep
  <2>1. CASE ConcurrentMSPreSTW1
    BY <1>3, <2>1, LiveSame DEF ConcurrentMSPreSTW1, mutVars
  <2>2. CASE ConcurrentMarkPrepare
    BY <2>2, LiveSame DEF ConcurrentMarkPrepare, mutVars
  <2>3. ASSUME NEW o \in Holders, MarkObject(o) PROVE LiveInv'
    BY <2>3, LiveSame DEF MarkObject, mutVars
  <2>4. CASE CopyChildRefs
    BY <2>4, LiveSame DEF CopyChildRefs, mutVars
  <2>5. CASE ConcurrentReMark
    BY <2>5, LiveSame DEF ConcurrentReMark, mutVars
  <2>6. CASE ConcurrentMarkCleanup
    BY <2>6 DEF ConcurrentMarkCleanup
  <2>7. CASE ConcurrentMSPostSTW2
    BY <2>7 DEF ConcurrentMSPostSTW2
  <2>8. QED
    BY <1>3, <2>1, <2>2, <2>3, <2>4, <2>5, <2>6, <2>7 DEF GcStep
<1>4. QED
  BY <1>1, <1>2, <1>3 DEF Next

\* Recording a value keeps everything recorded before.
LEMMA PushRecords ==
    ASSUME TypeOK, NEW m \in Mutators, NEW x, PushIntoNode(m, x)
    PROVE  {x} \cup retired \cup UNION {node[n] : n \in Mutators} =
             retired' \cup UNION {node'[n] : n \in Mutators}
<1>1. \A n \in Mutators \ {m} : node'[n] = node[n]
  BY DEF PushIntoNode, TypeOK
<1>2. \/ node'[m] = {x} /\ retired' = retired \cup node[m]
      \/ node'[m] = node[m] \cup {x} /\ retired' = retired
  BY DEF PushIntoNode, TypeOK
<1>3. QED
  BY <1>1, <1>2

\* What a mutator has recorded stays recorded; what it enqueues is live.
LEMMA RecordedStep ==
    ASSUME TypeOK, MutatorInv, NEW m \in Mutators, MutatorStep(m), running
    PROVE  /\ Recorded \subseteq Recorded'
           /\ enqueued' \subseteq enqueued \cup (Live \cap Recorded')
<1> USE DEF Recorded
<1>1. CASE Attach(m)
  BY <1>1 DEF Attach, gcVars
<1>2. ASSUME NEW o \in Objects, NewObj(m, o) \/ Forget(m, o)
      PROVE  Recorded' = Recorded /\ enqueued' = enqueued
  BY <1>2 DEF NewObj, Forget, satbVars, gcVars
<1>3. ASSUME NEW o \in Holders, LoadField(m, o)
      PROVE  Recorded' = Recorded /\ enqueued' = enqueued
  BY <1>3 DEF LoadField, satbVars, gcVars
<1>4. ASSUME NEW o \in Holders, SatbWriteBarrier(m, o)
      PROVE  /\ Recorded \subseteq Recorded'
             /\ enqueued' \subseteq enqueued \cup (Live \cap Recorded')
  <2>0. work' = work
    BY <1>4 DEF SatbWriteBarrier, gcVars
  <2>1. CASE marking[m] /\ heap[o] # Null /\ ShouldEnqueue(heap[o])
    <3>1. PushIntoNode(m, heap[o]) /\ enqueued' = enqueued \cup {heap[o]}
      BY <1>4, <2>1 DEF SatbWriteBarrier
    <3>2. {heap[o]} \cup retired \cup UNION {node[n] : n \in Mutators} =
             retired' \cup UNION {node'[n] : n \in Mutators}
      BY <3>1, PushRecords
    <3>3. o \in Live \cup {Static}
      BY <1>4, LiveClosed DEF SatbWriteBarrier, Roots
    <3>4. heap[o] \in Live
      BY <2>1, <3>3, LiveClosed
    <3>5. QED
      BY <2>0, <3>1, <3>2, <3>4
  <2>2. CASE ~(marking[m] /\ heap[o] # Null /\ ShouldEnqueue(heap[o]))
    <3>1. UNCHANGED <<enqueued, node, retired>>
      BY <1>4, <2>2 DEF SatbWriteBarrier
    <3>2. QED
      BY <2>0, <3>1
  <2>3. QED
    BY <2>1, <2>2
<1>5. ASSUME NEW v \in Objects \cup {Null}, StoreField(m, v)
      PROVE  Recorded' = Recorded /\ enqueued' = enqueued
  BY <1>5 DEF StoreField, satbVars, gcVars
<1>6. CASE Detach(m)
  BY <1>6 DEF Detach, satbVars, gcVars
<1>7. CASE Delete(m)
  <2>1. /\ \A n \in Mutators \ {m} : node'[n] = node[n]
        /\ retired' = retired \cup node[m]
        /\ enqueued' = enqueued /\ work' = work
    BY <1>7 DEF Delete, TypeOK, gcVars
  <2>2. QED
    BY <2>1
<1>8. QED
  BY <1>1, <1>2, <1>3, <1>4, <1>5, <1>6, <1>7 DEF MutatorStep

\* An enqueued object is allocated, and recorded until it is marked.
LEMMA RecordNext ==
    ASSUME TypeOK, PhaseInv, MutatorInv, LiveInv, RecordInv, [Next]_vars
    PROVE  RecordInv'
<1> USE DEF RecordInv
<1>1. CASE UNCHANGED vars
  BY <1>1 DEF vars, gcVars, satbVars, Recorded
<1>2. ASSUME NEW m \in Mutators, MutatorStep(m) PROVE RecordInv'
  <2>1. running => Live \subseteq allocated
    BY DEF LiveInv, PhaseInv
  <2>2. running' = running
    BY <1>2, LiveStep DEF gcVars
  <2>3. QED
    BY <1>2, <2>1, <2>2, LiveStep, RecordedStep
<1>3. CASE GcStep
  <2>1. CASE ConcurrentMSPreSTW1
    BY <2>1 DEF ConcurrentMSPreSTW1, PhaseInv
  <2>2. CASE ConcurrentMarkPrepare
    BY <2>2 DEF ConcurrentMarkPrepare, PhaseInv
  <2>3. ASSUME NEW o \in Holders, MarkObject(o) PROVE RecordInv'
    <3>1. o \in marked' \/ o \notin allocated
      BY <2>3 DEF MarkObject
    <3>2. Recorded \subseteq Recorded' \cup {o}
      BY <2>3 DEF MarkObject, Recorded, satbVars
    <3>3. marked \subseteq marked' /\ UNCHANGED <<enqueued, allocated, running>>
      BY <2>3 DEF MarkObject, satbVars
    <3>4. QED
      BY <3>1, <3>2, <3>3
  <2>4. CASE CopyChildRefs
    BY <2>4 DEF CopyChildRefs, Recorded, satbVars
  <2>5. CASE ConcurrentReMark
    BY <2>5 DEF ConcurrentReMark, Recorded
  <2>6. CASE ConcurrentMarkCleanup
    BY <2>6 DEF ConcurrentMarkCleanup
  <2>7. CASE ConcurrentMSPostSTW2
    BY <2>7 DEF ConcurrentMSPostSTW2, PhaseInv
  <2>8. QED
    BY <1>3, <2>1, <2>2, <2>3, <2>4, <2>5, <2>6, <2>7 DEF GcStep
<1>4. QED
  BY <1>1, <1>2, <1>3 DEF Next

\* The snapshot taken in the first pause is covered.
LEMMA CoverBegins ==
    ASSUME TypeOK, PhaseInv, MutatorInv, LiveInv, ConcurrentMarkPrepare,
           NEW D \in SUBSET Holders, Covers(D)'
    PROVE  snapshot' \subseteq D
<1> DEFINE L == Live \cup {Static}
<1>1. Cut' = {}
  BY DEF ConcurrentMarkPrepare, CanStop, mutVars, Cut
<1>2. Black' = {}
  BY DEF ConcurrentMarkPrepare, PhaseInv, Black
<1>3. \A o \in D \cap Holds : heap[o] \in D \cup {Null}
  BY <1>1, <1>2 DEF Covers, Holds, ConcurrentMarkPrepare
<1>4. work' \subseteq D
  BY DEF Covers, Recorded
<1>5. \A m \in Mutators : stack[m] \subseteq D
  <2>1. \A m \in Mutators \ Listed : stack[m] = {}
    BY DEF MutatorInv, TypeOK, Listed
  <2>2. QED
    BY <1>4, <2>1 DEF ConcurrentMarkPrepare
<1>6. Roots \subseteq D \cap L
  BY <1>4, <1>5, LiveClosed DEF Roots, ConcurrentMarkPrepare
<1>7. L \subseteq Holds
  BY DEF LiveInv, ConcurrentMarkPrepare, Holds
<1>8. \A o \in D \cap L : heap[o] \in (D \cap L) \cup {Null}
  BY <1>3, <1>7, LiveClosed
<1>9. D \cap L \in SUBSET Holders
  OBVIOUS
<1>10. Live \subseteq D \cap L
  BY <1>6, <1>8, <1>9, LiveLeast
<1>11. QED
  BY <1>10 DEF ConcurrentMarkPrepare

\* A step of a mutator: a set that covers afterwards covers before.
LEMMA CoverMutator ==
    ASSUME IInv, NEW m \in Mutators, MutatorStep(m), running,
           NEW D \in SUBSET Holders, Covers(D)'
    PROVE  Covers(D)
<1>0. TypeOK /\ MutatorInv /\ PhaseInv /\ RecordInv
  BY DEF IInv
<1>1. /\ allocated \subseteq allocated' /\ marked \subseteq marked'
      /\ allocated' \ allocated \subseteq marked'
      /\ marked' \subseteq marked \cup (allocated' \ allocated)
      /\ scan' = scan
  BY <1>0, LiveStep DEF gcVars
<1>2. marked \cup Recorded \subseteq D
  BY <1>0, <1>1, RecordedStep DEF Covers
<1>3. \A o \in (D \cap Holds') \ (Black' \cup Cut') : heap'[o] \in D \cup {Null}
  BY DEF Covers
<1>4. Holds \subseteq Holds' /\ Black' \cap Holds \subseteq Black
  BY <1>0, <1>1, SatbAssumption, LiveStep DEF Holds, Black
<1>5. SUFFICES ASSUME NEW o \in (D \cap Holds) \ (Black \cup Cut)
               PROVE  heap[o] \in D \cup {Null}
  BY <1>2 DEF Covers
<1>6. o \in (D \cap Holds') \ Black'
  BY <1>4, <1>5
<1>7. o \notin Cut' => heap'[o] \in D \cup {Null}
  BY <1>3, <1>6
<1>8. CASE Attach(m) \/ Detach(m) \/ Delete(m)
  <2>1. heap' = heap /\ Cut' \subseteq Cut
    BY <1>0, <1>8 DEF Attach, Detach, Delete, Cut, TypeOK
  <2>2. QED
    BY <1>5, <1>7, <2>1
<1>9. ASSUME NEW p \in Objects, NewObj(m, p) PROVE heap[o] \in D \cup {Null}
  <2>1. heap'[o] = heap[o] /\ Cut' = Cut
    BY <1>0, <1>5, <1>9, SatbAssumption DEF NewObj, Cut, TypeOK, Holds
  <2>2. QED
    BY <1>5, <1>7, <2>1
<1>10. ASSUME NEW p \in Holders, (p \in Objects /\ Forget(m, p)) \/ LoadField(m, p)
       PROVE  heap[o] \in D \cup {Null}
  <2>1. heap' = heap /\ Cut' = Cut
    BY <1>10 DEF Forget, LoadField, Cut
  <2>2. QED
    BY <1>5, <1>7, <2>1
<1>11. ASSUME NEW p \in Holders, SatbWriteBarrier(m, p) PROVE heap[o] \in D \cup {Null}
  <2>1. heap' = heap /\ Cut' \subseteq Cut \cup {p}
    BY <1>0, <1>11 DEF SatbWriteBarrier, Cut, TypeOK
  <2>2. heap[p] \in D \cup {Null}
    <3>1. marking[m]
      BY <1>0, <1>11 DEF MutatorInv, SatbWriteBarrier
    <3>2. CASE heap[p] = Null \/ heap[p] \in marked \/ heap[p] \in enqueued
      BY <1>0, <1>2, <3>2 DEF RecordInv
    <3>3. CASE ~(heap[p] = Null \/ heap[p] \in marked \/ heap[p] \in enqueued)
      <4>1. PushIntoNode(m, heap[p])
        BY <1>11, <3>1, <3>3 DEF SatbWriteBarrier, ShouldEnqueue
      <4>2. heap[p] \in Recorded'
        BY <1>0, <4>1, PushRecords DEF Recorded
      <4>3. QED
        BY <4>2 DEF Covers
    <3>4. QED
      BY <3>2, <3>3
  <2>3. QED
    BY <1>5, <1>7, <2>1, <2>2
<1>12. ASSUME NEW v \in Objects \cup {Null}, StoreField(m, v)
       PROVE  heap[o] \in D \cup {Null}
  <2>1. pending[m] \in Cut /\ Cut' \subseteq Cut
    BY <1>0, <1>12 DEF StoreField, Cut, TypeOK
  <2>2. heap'[o] = heap[o]
    BY <1>0, <1>5, <1>12, <2>1 DEF StoreField, TypeOK, Holders
  <2>3. QED
    BY <1>5, <1>7, <2>1, <2>2
<1>13. QED
  BY <1>8, <1>9, <1>10, <1>11, <1>12 DEF MutatorStep, Holders

\* A step of the GC thread that marks: what covers afterwards covers before, or
\* only lacks an object that was not allocated.
LEMMA CoverGc ==
    ASSUME IInv, running, NEW D \in SUBSET Holders, Covers(D)',
           \/ \E o \in Holders : MarkObject(o)
           \/ CopyChildRefs
           \/ ConcurrentReMark
    PROVE  snapshot \subseteq D
<1>0. /\ TypeOK /\ PhaseInv /\ snapshot \subseteq allocated
      /\ \A E \in SUBSET Holders : Covers(E) => snapshot \subseteq E
  BY DEF IInv, CoverInv, LiveInv
<1>1. UNCHANGED <<heap, allocated, node, pending, mpc>>
  BY DEF MarkObject, CopyChildRefs, ConcurrentReMark, mutVars, satbVars
<1>2. Holds' = Holds /\ Cut' = Cut
  BY <1>1 DEF Holds, Cut
<1>3. /\ marked' \cup Recorded' \subseteq D
      /\ \A o \in (D \cap Holds) \ (Black' \cup Cut) : heap[o] \in D \cup {Null}
  BY <1>1, <1>2 DEF Covers
<1>4. ASSUME NEW o \in Holders, MarkObject(o) PROVE snapshot \subseteq D
  <2>1. Recorded \subseteq Recorded' \cup {o} /\ marked \subseteq marked'
    BY <1>4 DEF MarkObject, Recorded, satbVars
  <2>2. Black' = Black
    BY <1>0, <1>4, SatbAssumption DEF MarkObject, Black, TypeOK, Holders
  <2>3. CASE o \in marked'
    BY <1>0, <1>3, <2>1, <2>2, <2>3 DEF Covers
  <2>4. CASE o \notin marked'
    <3>1. o \notin Holds
      BY <1>4, <2>4 DEF MarkObject, Holds
    <3>2. D \cup {o} \in SUBSET Holders
      OBVIOUS
    <3>3. Covers(D \cup {o})
      BY <1>3, <2>1, <2>2, <3>1 DEF Covers
    <3>4. snapshot \subseteq D \cup {o}
      BY <1>0, <3>2, <3>3
    <3>5. QED
      BY <1>0, <3>1, <3>4 DEF Holds
  <2>5. QED
    BY <2>3, <2>4
<1>5. CASE CopyChildRefs
  <2>1. Recorded' = Recorded \cup ({heap[scan]} \ {Null}) /\ marked' = marked
    BY <1>5 DEF CopyChildRefs, Recorded, satbVars
  <2>2. Black' \subseteq Black \cup {scan}
    BY <1>5 DEF CopyChildRefs, Black
  <2>3. heap[scan] \in D \cup {Null}
    BY <1>3, <2>1
  <2>4. Covers(D)
    BY <1>3, <2>1, <2>2, <2>3 DEF Covers
  <2>5. QED
    BY <1>0, <2>4
<1>6. CASE ConcurrentReMark
  <2>1. Recorded' = Recorded /\ marked' = marked /\ Black' = Black
    BY <1>6 DEF ConcurrentReMark, Recorded, Black
  <2>2. Covers(D)
    BY <1>3, <2>1 DEF Covers
  <2>3. QED
    BY <1>0, <2>2
<1>7. QED
  BY <1>4, <1>5, <1>6

\* The snapshot stays covered.
LEMMA CoverNext ==
    ASSUME IInv, [Next]_vars
    PROVE  CoverInv'
<1>0. TypeOK /\ PhaseInv /\ MutatorInv /\ LiveInv /\ CoverInv
  BY DEF IInv
<1>1. SUFFICES ASSUME running', NEW D \in SUBSET Holders, Covers(D)'
               PROVE  snapshot' \subseteq D
  BY DEF CoverInv
<1>2. CASE UNCHANGED vars
  <2>1. Covers(D)
    BY <1>1, <1>2 DEF Covers, vars, mutVars, satbVars, gcVars, Recorded, Holds, Black, Cut
  <2>2. QED
    BY <1>0, <1>1, <1>2, <2>1 DEF CoverInv, vars, gcVars
<1>3. ASSUME NEW m \in Mutators, MutatorStep(m) PROVE snapshot' \subseteq D
  <2>1. running /\ snapshot' = snapshot
    BY <1>0, <1>1, <1>3, LiveStep DEF gcVars
  <2>2. Covers(D)
    BY <1>1, <1>3, <2>1, CoverMutator
  <2>3. QED
    BY <1>0, <2>1, <2>2 DEF CoverInv
<1>4. CASE ConcurrentMarkPrepare
  BY <1>0, <1>1, <1>4, CoverBegins
<1>5. CASE (\E o \in Holders : MarkObject(o)) \/ CopyChildRefs \/ ConcurrentReMark
  <2>1. running /\ snapshot' = snapshot
    BY <1>1, <1>5 DEF MarkObject, CopyChildRefs, ConcurrentReMark
  <2>2. QED
    BY <1>1, <1>5, <2>1, CoverGc
<1>6. CASE ConcurrentMSPreSTW1 \/ ConcurrentMarkCleanup \/ ConcurrentMSPostSTW2
  BY <1>0, <1>1, <1>6
     DEF ConcurrentMSPreSTW1, ConcurrentMarkCleanup, ConcurrentMSPostSTW2, PhaseInv
<1>7. QED
  BY <1>2, <1>3, <1>4, <1>5, <1>6 DEF Next, GcStep
-----------------------------------------------------------------------------
(* The theorems.                                                           *)

\* The invariant holds in every reachable state.
THEOREM InductiveInvariant == Spec => []IInv
<1>1. Init => IInv
  <2> SUFFICES ASSUME Init PROVE IInv
    OBVIOUS
  <2>1. IsFiniteSet({}) /\ Cardinality({}) = 0 /\ NodeSize >= 0
    BY FS_EmptySet, SatbAssumption
  <2>2. TypeOK
    <3>1. \A m \in Mutators : Cardinality(node[m]) <= NodeSize
      BY <2>1 DEF Init
    <3>2. round \in 0 .. kReMarkRounds
      BY DEF Init, kReMarkRounds
    <3>3. running \in BOOLEAN /\ marking \in [Mutators -> BOOLEAN]
      BY DEF Init
    <3>4. QED
      BY <3>1, <3>2, <3>3 DEF Init, TypeOK, Holders
  <2>3. PhaseInv /\ RecordInv /\ CoverInv /\ LiveInv
    BY DEF Init, PhaseInv, RecordInv, CoverInv, LiveInv
  <2>4. MutatorInv
    BY DEF Init, MutatorInv
  <2>5. QED
    BY <2>2, <2>3, <2>4 DEF IInv
<1>2. IInv /\ [Next]_vars => IInv'
  <2> SUFFICES ASSUME IInv, [Next]_vars PROVE IInv'
    OBVIOUS
  <2>1. TypeOK' /\ PhaseInv' /\ MutatorInv'
    BY TypeNext, PhaseNext, MutatorNext DEF IInv
  <2>2. LiveInv' /\ RecordInv' /\ CoverInv'
    BY LiveNext, RecordNext, CoverNext DEF IInv
  <2>3. QED
    BY <2>1, <2>2 DEF IInv
<1>3. QED
  BY <1>1, <1>2, PTL DEF Spec

\* While marking runs, every object that was reachable in the first pause is
\* marked, or reachable from recorded work through unmarked objects: the SATB
\* write barrier loses nothing, for any number of mutators and objects and any
\* size of the nodes.
THEOREM SnapshotKept == Spec => []SnapshotCovered
<1>1. IInv => SnapshotCovered
  <2> SUFFICES ASSUME IInv, running, NEW x \in snapshot, x \notin marked
               PROVE  x \in ReachThrough(Grey \cap (Holders \ marked), Holders \ marked)
    BY DEF SnapshotCovered
  <2> DEFINE white == Holders \ marked
  <2>1. x \in Holders /\ marked \subseteq Holders
    BY DEF IInv, TypeOK, Holders
  <2>2. SUFFICES ASSUME NEW C \in SUBSET Holders, Grey \cap white \subseteq C,
                        Closed(C, white)
                 PROVE  x \in C
    BY <2>1 DEF ReachThrough
  <2> DEFINE D == C \cup marked
  <2>3. D \in SUBSET Holders
    BY <2>1
  <2>4. Grey \subseteq D
    BY <2>2 DEF Grey, IInv, TypeOK, Holders
  <2>5. Recorded \subseteq D
    BY <2>4 DEF Grey, Recorded
  <2>6. scan # Null => heap[scan] \in D \cup {Null}
    BY <2>4 DEF Grey
  <2>7. \A o \in D \ Black : heap[o] \in D \cup {Null}
    <3>1. SUFFICES ASSUME NEW o \in D \ Black PROVE heap[o] \in D \cup {Null}
      OBVIOUS
    <3>2. CASE o \in marked
      BY <2>1, <2>6, <3>1, <3>2, SatbAssumption DEF Black, Holders
    <3>3. CASE o \notin marked
      BY <2>2, <3>1, <3>3 DEF Closed
    <3>4. QED
      BY <3>2, <3>3
  <2>8. Covers(D)
    BY <2>5, <2>7 DEF Covers
  <2>9. QED
    BY <2>3, <2>8 DEF IInv, CoverInv
<1>2. QED
  BY <1>1, InductiveInvariant, PTL

\* An object that enqueueMap keeps from being recorded again is not dropped.
THEOREM EnqueuedKept == Spec => []EnqueuedPending
<1>1. IInv => EnqueuedPending
  BY DEF IInv, RecordInv, EnqueuedPending, Recorded, Grey
<1>2. QED
  BY <1>1, InductiveInvariant, PTL

\* The second pause hands a live object to the sweep only if an exiting thread
\* has taken the record of it along.
THEOREM SweepsOnlyOrphaned == Spec => MarkedUnlessOrphaned
<1>1. IInv /\ [Next]_vars =>
        [running /\ ~running' => Live \subseteq marked' \cup Reach(OrphanNodes)]_vars
  <2>1. SUFFICES ASSUME IInv, Next, running, ~running'
                 PROVE  Live \subseteq marked' \cup Reach(OrphanNodes)
    OBVIOUS
  <2>2. TypeOK /\ PhaseInv /\ MutatorInv /\ LiveInv /\ CoverInv
    BY <2>1 DEF IInv
  <2>3. ConcurrentMarkCleanup
    <3>1. ASSUME NEW m \in Mutators, MutatorStep(m) PROVE FALSE
      BY <2>1, <2>2, <3>1, LiveStep DEF gcVars
    <3>2. ~ConcurrentMSPreSTW1 /\ ~ConcurrentMSPostSTW2
      BY <2>1, <2>2 DEF ConcurrentMSPreSTW1, ConcurrentMSPostSTW2, PhaseInv
    <3>3. QED
      BY <2>1, <3>1, <3>2 DEF Next, GcStep, ConcurrentMarkPrepare, MarkObject,
                              CopyChildRefs, ConcurrentReMark
  <2> DEFINE white == Holds \ marked
             S == retired \cup UNION {node[m] : m \in Listed}
             T == Traced(S)
             R == Reach(OrphanNodes)
             D == marked' \cup R \cup (Holders \ Holds)
  <2>4. /\ marked' = marked \cup T
        /\ work = {} /\ scan = Null /\ Cut = {} /\ Black = marked
    <3>1. marked' = marked \cup T /\ work = {} /\ scan = Null
      BY <2>2, <2>3 DEF ConcurrentMarkCleanup, PhaseInv
    <3>2. Cut = {}
      BY <2>3 DEF ConcurrentMarkCleanup, Cut, CanStop
    <3>3. Black = marked
      BY <2>2, <3>1, SatbAssumption DEF Black, TypeOK, Holders
    <3>4. QED
      BY <3>1, <3>2, <3>3
  <2>5. Traced(S) = ReachThrough(S \cap white, white) \cap white
    BY DEF Traced, Holds
  <2>6. white \subseteq Holders /\ Holds \subseteq Holders /\ marked \subseteq Holders
    BY <2>2 DEF Holds, Holders, TypeOK
  <2>7. S \cap white \subseteq T /\ T \subseteq white
    BY <2>5, <2>6 DEF ReachThrough
  <2>8. ASSUME NEW o \in T, heap[o] \in white PROVE heap[o] \in T
    <3>1. o \in white /\ o \in ReachThrough(S \cap white, white)
      BY <2>5, <2>8
    <3>2. heap[o] # Null
      BY <2>6, <2>8, SatbAssumption DEF Holders
    <3>3. ASSUME NEW C \in SUBSET Holders, S \cap white \subseteq C, Closed(C, white)
          PROVE  heap[o] \in C
      BY <3>1, <3>2, <3>3 DEF ReachThrough, Closed
    <3>4. heap[o] \in ReachThrough(S \cap white, white)
      BY <2>6, <2>8, <3>3 DEF ReachThrough
    <3>5. QED
      BY <2>5, <2>8, <3>4
  <2>9. OrphanNodes \subseteq Holders
    BY <2>2 DEF OrphanNodes, TypeOK, Holders
  <2>10. OrphanNodes \subseteq R /\ R \subseteq Holders
    BY <2>9 DEF Reach, ReachThrough
  <2>11. ASSUME NEW o \in R, heap[o] # Null PROVE heap[o] \in R
    <3>1. o \in Holders /\ heap[o] \in Holders
      BY <2>2, <2>10, <2>11 DEF TypeOK, Holders
    <3>2. ASSUME NEW C \in SUBSET Holders, OrphanNodes \subseteq C, Closed(C, Holders)
          PROVE  heap[o] \in C
      BY <2>11, <3>1, <3>2 DEF Reach, ReachThrough, Closed
    <3>3. QED
      BY <3>1, <3>2 DEF Reach, ReachThrough
  <2>12. marked \cup Recorded \subseteq D
    <3>1. \A m \in Mutators : mpc[m] \in {"run", "orphan"} \/ node[m] = {}
      BY <2>2, <2>3 DEF MutatorInv, TypeOK, ConcurrentMarkCleanup, CanStop
    <3>2. \A m \in Mutators : node[m] \subseteq S \cup OrphanNodes
      BY <3>1 DEF Listed, OrphanNodes
    <3>3. Recorded \subseteq S \cup OrphanNodes
      BY <2>4, <3>2 DEF Recorded
    <3>4. Recorded \subseteq Holders
      BY <2>2 DEF Recorded, TypeOK, Holders
    <3>5. QED
      BY <2>4, <2>7, <2>10, <3>3, <3>4
  <2>13. ASSUME NEW o \in (D \cap Holds) \ (Black \cup Cut) PROVE heap[o] \in D \cup {Null}
    <3>1. o \in T \/ o \in R
      BY <2>4, <2>13
    <3>2. heap[o] \in Holders \cup {Null}
      BY <2>2, <2>6, <2>13 DEF TypeOK, Holders
    <3>3. QED
      BY <2>4, <2>8, <2>11, <3>1, <3>2
  <2>14. Covers(D)
    BY <2>12, <2>13 DEF Covers
  <2>15. D \in SUBSET Holders
    BY <2>4, <2>6, <2>7, <2>10
  <2>16. snapshot \subseteq D
    BY <2>1, <2>2, <2>14, <2>15 DEF CoverInv
  <2>17. /\ Live \subseteq snapshot \cup marked /\ snapshot \subseteq Holds
    BY <2>1, <2>2 DEF LiveInv, Holds
  <2>18. QED
    BY <2>4, <2>16, <2>17
<1>2. QED
  BY <1>1, InductiveInvariant, PTL DEF Spec, MarkedUnlessOrphaned
=============================================================================
