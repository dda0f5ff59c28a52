------------------------------ MODULE SatbMark ------------------------------
(***************************************************************************)
(* Snapshot-at-the-beginning marking (collector_ms.cpp, collector.h        *)
(* Mutator, satb_buffer.h).                                                *)
(*                                                                         *)
(* Mutators load, store and allocate while the GC thread marks.  A store   *)
(* first records the value it overwrites in the mutator's SATB node; full  *)
(* nodes are retired to a global list.  The GC marks what was reachable in *)
(* the first pause: roots, then retired nodes (ConcurrentReMark), then, in *)
(* the second pause, the nodes of the listed mutators.                     *)
(*                                                                         *)
(* The pauses are those of StopTheWorld: every listed mutator is at a      *)
(* safepoint, that is not between a barrier and its store.  The stacks of  *)
(* the first pause are taken as scanned in the pause (ConcurrentStackScan: *)
(* ScannedBeforeRun, StacksComplete).                                      *)
(***************************************************************************)
EXTENDS Integers, FiniteSets

CONSTANTS
    Mutators,
    Objects,
    Static,     \* the static fields, as one more object with a field
    Null,
    NodeSize    \* entries of a SatbBuffer::Node

ASSUME SatbAssumption ==
    /\ IsFiniteSet(Objects) /\ Static \notin Objects
    /\ Null \notin Objects \cup {Static}
    /\ NodeSize \in Nat \ {0}

VARIABLES
    mpc,        \* out, run, store (between barrier and store) or orphan
    stack,      \* the references on each mutator's stack
    pending,    \* the object a mutator has run the barrier for
    marking,    \* Mutator::concurrentMarking
    node,       \* the objects in Mutator::satbNode
    heap,       \* the reference field of each object
    allocated,
    marked,     \* markBitmap
    retired,    \* objects in SatbBuffer::retiredNodes
    enqueued,   \* SatbBuffer::enqueueMap
    work,       \* the mark tasks' work stacks
    scan,       \* the object marked, its field not read yet
    running,    \* concurrentMarkRunning
    gpc,        \* control point of the GC thread
    round,      \* ConcurrentReMark's loop counter
    snapshot    \* history: the objects reachable in the first pause

mutVars == <<mpc, stack, pending>>
satbVars == <<marking, node, retired, enqueued>>
gcVars == <<work, scan, running, gpc, round, snapshot>>
vars == <<mutVars, satbVars, heap, allocated, marked, gcVars>>

kReMarkRounds == 2

Holders == Objects \cup {Static}
Listed == {m \in Mutators : mpc[m] \in {"run", "store"}}

\* C contains what the fields of its members in Through refer to.
Closed(C, Through) == \A o \in C \cap Through : heap[o] \in C \cup {Null}

\* The objects reachable from S along fields of objects in Through: the
\* smallest closed set that contains S.
ReachThrough(S, Through) ==
    {o \in Holders : \A C \in SUBSET Holders :
        S \subseteq C /\ Closed(C, Through) => o \in C}

Reach(S) == ReachThrough(S, Holders)

\* What the program can still reach.
Live == Reach({Static} \cup UNION {stack[m] : m \in Mutators}) \ {Static}

Init ==
    /\ mpc = [m \in Mutators |-> "out"]
    /\ stack = [m \in Mutators |-> {}]
    /\ pending = [m \in Mutators |-> Null]
    /\ marking = [m \in Mutators |-> FALSE]
    /\ node = [m \in Mutators |-> {}]
    /\ heap = [o \in Holders |-> Null]
    /\ allocated = {}
    /\ marked = {}
    /\ retired = {}
    /\ enqueued = {}
    /\ work = {}
    /\ scan = Null
    /\ running = FALSE
    /\ gpc = "idle"
    /\ round = 0
    /\ snapshot = {}

-----------------------------------------------------------------------------
(* Mutators.                                                               *)

\* AddMutator: Mutator::Init under the list lock.
Attach(m) ==
    /\ mpc[m] = "out"
    /\ mpc' = [mpc EXCEPT ![m] = "run"]
    /\ marking' = [marking EXCEPT ![m] = running]
    /\ UNCHANGED <<stack, pending, node, retired, enqueued, heap, allocated,
                   marked, gcVars>>

\* Mutant: new objects are white.
MutantNewObj(m, o) ==
    /\ mpc[m] = "run" /\ o \notin allocated
    /\ allocated' = allocated \cup {o}
    /\ heap' = [heap EXCEPT ![o] = Null]
    /\ stack' = [stack EXCEPT ![m] = @ \cup {o}]
    /\ UNCHANGED <<mpc, pending, satbVars, marked, gcVars>>

\* NewObj and PostNewObject: marked at once while marking runs.
NewObj(m, o) ==
    /\ mpc[m] = "run" /\ o \notin allocated
    /\ allocated' = allocated \cup {o}
    /\ heap' = [heap EXCEPT ![o] = Null]
    /\ stack' = [stack EXCEPT ![m] = @ \cup {o}]
    /\ marked' = IF running THEN marked \cup {o} ELSE marked
    /\ UNCHANGED <<mpc, pending, satbVars, gcVars>>

LoadField(m, o) ==
    /\ mpc[m] = "run"
    /\ o \in stack[m] \cup {Static} /\ heap[o] # Null
    /\ stack' = [stack EXCEPT ![m] = @ \cup {heap[o]}]
    /\ UNCHANGED <<mpc, pending, satbVars, heap, allocated, marked, gcVars>>

\* A reference goes out of scope.
Forget(m, o) ==
    /\ mpc[m] = "run" /\ o \in stack[m]
    /\ stack' = [stack EXCEPT ![m] = @ \ {o}]
    /\ UNCHANGED <<mpc, pending, satbVars, heap, allocated, marked, gcVars>>

ShouldEnqueue(o) == o \notin marked /\ o \notin enqueued

\* Mutant: a full node is replaced and not retired.
MutantPushIntoNode(m, o) ==
    /\ node' = [node EXCEPT ![m] =
                  IF Cardinality(@) = NodeSize THEN {o} ELSE @ \cup {o}]
    /\ retired' = retired

\* EnsureGoodNode and Node::Push.
PushIntoNode(m, o) ==
    IF Cardinality(node[m]) = NodeSize
    THEN /\ retired' = retired \cup node[m]
         /\ node' = [node EXCEPT ![m] = {o}]
    ELSE /\ node' = [node EXCEPT ![m] = @ \cup {o}]
         /\ UNCHANGED retired

\* SatbWriteBarrier, then the store: GCWriteField, UnsafePutObject and the
\* like.  The value recorded is the one read here; another mutator may write
\* the field before the store.
SatbWriteBarrier(m, o) ==
    /\ mpc[m] = "run"
    /\ o \in stack[m] \cup {Static}
    /\ mpc' = [mpc EXCEPT ![m] = "store"]
    /\ pending' = [pending EXCEPT ![m] = o]
    /\ IF marking[m] /\ heap[o] # Null /\ ShouldEnqueue(heap[o])
       THEN /\ enqueued' = enqueued \cup {heap[o]}
            /\ PushIntoNode(m, heap[o])
       ELSE UNCHANGED <<enqueued, node, retired>>
    /\ UNCHANGED <<stack, marking, heap, allocated, marked, gcVars>>

StoreField(m, v) ==
    /\ mpc[m] = "store" /\ v \in stack[m] \cup {Null}
    /\ heap' = [heap EXCEPT ![pending[m]] = v]
    /\ pending' = [pending EXCEPT ![m] = Null]
    /\ mpc' = [mpc EXCEPT ![m] = "run"]
    /\ UNCHANGED <<stack, satbVars, allocated, marked, gcVars>>

\* FiniYieldpoint: off the list; the SATB node stays with the Mutator object.
Detach(m) ==
    /\ mpc[m] = "run"
    /\ mpc' = [mpc EXCEPT ![m] = "orphan"]
    /\ stack' = [stack EXCEPT ![m] = {}]
    /\ UNCHANGED <<pending, satbVars, heap, allocated, marked, gcVars>>

\* delete mutator: ~Mutator retires the node.
Delete(m) ==
    /\ mpc[m] = "orphan"
    /\ mpc' = [mpc EXCEPT ![m] = "out"]
    /\ retired' = retired \cup node[m]
    /\ node' = [node EXCEPT ![m] = {}]
    /\ marking' = [marking EXCEPT ![m] = FALSE]
    /\ UNCHANGED <<stack, pending, enqueued, heap, allocated, marked,
                   gcVars>>

-----------------------------------------------------------------------------
(* The GC thread.                                                          *)

CanStop == \A m \in Mutators : mpc[m] # "store"

\* Nodes held by threads that have left the mutator list and not yet run
\* ~Mutator: neither retired nor visited in the second pause.
OrphanNodes == UNION {node[m] : m \in {n \in Mutators : mpc[n] = "orphan"}}

\* ConcurrentMSPreSTW1: SatbBuffer::Init.  The model ends where the code's
\* behaviour is undefined: a live object has been swept, or a thread is about
\* to retire a node whose page has been returned.
ConcurrentMSPreSTW1 ==
    /\ gpc = "idle" /\ Live \subseteq allocated /\ OrphanNodes = {}
    /\ retired' = {}
    /\ gpc' = "stw1"
    /\ UNCHANGED <<mutVars, marking, node, enqueued, heap, allocated, marked,
                   work, scan, running, round, snapshot>>

\* The first pause: FastScanRoots and ConcurrentMarkPrepare.  The static
\* fields are read later, by ConcurrentStaticRootsScan.
ConcurrentMarkPrepare ==
    /\ gpc = "stw1" /\ CanStop
    /\ work' = {Static} \cup UNION {stack[m] : m \in Listed}
    /\ running' = TRUE
    /\ marking' = [m \in Mutators |-> IF m \in Listed THEN TRUE ELSE marking[m]]
    /\ snapshot' = Live
    /\ gpc' = "mark"
    /\ UNCHANGED <<mutVars, node, retired, enqueued, heap, allocated, marked,
                   scan, round>>

\* ConcurrentMarkTask::Execute: pop, skip dangling and marked objects, mark.
MarkObject(o) ==
    /\ gpc = "mark" /\ scan = Null /\ o \in work
    /\ work' = work \ {o}
    /\ IF o \in marked \/ o \notin allocated \cup {Static}
       THEN UNCHANGED <<marked, scan>>
       ELSE marked' = marked \cup {o} /\ scan' = o
    /\ UNCHANGED <<mutVars, satbVars, heap, allocated, running, gpc, round,
                   snapshot>>

\* CopyChildRefs.
CopyChildRefs ==
    /\ gpc = "mark" /\ scan # Null
    /\ work' = work \cup ({heap[scan]} \ {Null})
    /\ scan' = Null
    /\ UNCHANGED <<mutVars, satbVars, heap, allocated, marked, running, gpc,
                   round, snapshot>>

\* ConcurrentReMark: the retired nodes, at most kReMarkRounds times.
ConcurrentReMark ==
    /\ gpc = "mark" /\ work = {} /\ scan = Null
    /\ IF retired = {} \/ round = kReMarkRounds
       THEN round' = 0 /\ gpc' = "stw2" /\ UNCHANGED <<work, retired>>
       ELSE /\ work' = retired /\ retired' = {}
            /\ round' = round + 1
            /\ UNCHANGED gpc
    /\ UNCHANGED <<mutVars, marking, node, enqueued, heap, allocated, marked,
                   scan, running, snapshot>>

\* The objects marking from S marks: it stops at marked objects.
Traced(S) ==
    LET white == (allocated \cup {Static}) \ marked
    IN  ReachThrough(S \cap white, white) \cap white

\* The second pause: retired nodes and the nodes of the listed mutators are
\* marked through, marking ends, the unmarked objects are handed to the sweep.
ConcurrentMarkCleanup ==
    /\ gpc = "stw2" /\ CanStop
    /\ marked' = marked \cup Traced(retired \cup UNION {node[m] : m \in Listed})
    /\ retired' = {}
    /\ node' = [m \in Mutators |-> IF m \in Listed THEN {} ELSE node[m]]
    /\ marking' = [m \in Mutators |-> IF m \in Listed THEN FALSE ELSE marking[m]]
    /\ allocated' = allocated \cap marked'
    /\ heap' = [o \in Holders |-> IF o \in allocated' \cup {Static}
                                  THEN heap[o] ELSE Null]
    /\ running' = FALSE
    /\ gpc' = "sweep"
    /\ UNCHANGED <<mutVars, enqueued, work, scan, round, snapshot>>

\* Mutant: the enqueue bitmap is not reset.
MutantConcurrentMSPostSTW2 ==
    /\ gpc = "sweep"
    /\ retired' = {}
    /\ marked' = {}
    /\ snapshot' = {}
    /\ gpc' = "idle"
    /\ UNCHANGED <<mutVars, marking, node, enqueued, heap, allocated, work,
                   scan, running, round>>

\* SatbBuffer::Reset, the sweep, ResetBitmap.
ConcurrentMSPostSTW2 ==
    /\ gpc = "sweep"
    /\ retired' = {}
    /\ enqueued' = {}
    /\ marked' = {}
    /\ snapshot' = {}
    /\ gpc' = "idle"
    /\ UNCHANGED <<mutVars, marking, node, heap, allocated, work, scan,
                   running, round>>

-----------------------------------------------------------------------------
MutatorStep(m) ==
    \/ Attach(m)
    \/ \E o \in Objects : NewObj(m, o) \/ Forget(m, o)
    \/ \E o \in Holders : LoadField(m, o) \/ SatbWriteBarrier(m, o)
    \/ \E v \in Objects \cup {Null} : StoreField(m, v)
    \/ Detach(m)
    \/ Delete(m)

GcStep ==
    \/ ConcurrentMSPreSTW1
    \/ ConcurrentMarkPrepare
    \/ \E o \in Holders : MarkObject(o)
    \/ CopyChildRefs
    \/ ConcurrentReMark
    \/ ConcurrentMarkCleanup
    \/ ConcurrentMSPostSTW2

Next == GcStep \/ \E m \in Mutators : MutatorStep(m)

Spec == Init /\ [][Next]_vars

-----------------------------------------------------------------------------
(* Properties.                                                             *)

TypeOK ==
    /\ mpc \in [Mutators -> {"out", "run", "store", "orphan"}]
    /\ stack \in [Mutators -> SUBSET Objects]
    /\ pending \in [Mutators -> Holders \cup {Null}]
    /\ marking \in [Mutators -> BOOLEAN]
    /\ node \in [Mutators -> SUBSET Objects]
    /\ \A m \in Mutators : Cardinality(node[m]) <= NodeSize
    /\ heap \in [Holders -> Objects \cup {Null}]
    /\ allocated \in SUBSET Objects
    /\ marked \in SUBSET Holders
    /\ retired \in SUBSET Objects
    /\ enqueued \in SUBSET Objects
    /\ work \in SUBSET Holders
    /\ scan \in Holders \cup {Null}
    /\ running \in BOOLEAN
    /\ gpc \in {"idle", "stw1", "mark", "stw2", "sweep"}
    /\ round \in 0 .. kReMarkRounds
    /\ snapshot \in SUBSET Objects

\* Everything marking still has to start from.
Grey ==
    (IF scan = Null THEN {} ELSE {heap[scan]} \ {Null})
        \cup work \cup retired \cup UNION {node[m] : m \in Mutators}

\* The SATB invariant: while marking runs, an object that was reachable in the
\* first pause is marked, or can be reached from recorded work through
\* unmarked objects, whatever the mutators load and store meanwhile.
SnapshotCovered ==
    running =>
        LET white == Holders \ marked
        IN  snapshot \subseteq marked \cup ReachThrough(Grey \cap white, white)

\* enqueueMap keeps an object from being recorded twice, so a recorded object
\* must not be dropped: until it is marked it is in a node, retired or on a
\* work stack.  (Checked together with the types: no node is over-full.)
EnqueuedPending ==
    /\ TypeOK
    /\ running => enqueued \subseteq marked \cup Grey

\* When the second pause hands the unmarked objects to the sweep, a live
\* object among them is there only because an exiting thread took the record
\* of it along.
MarkedUnlessOrphaned ==
    [][running /\ ~running' => Live \subseteq marked' \cup Reach(OrphanNodes)]_vars

\* What TestConcurrentMark checks after the second pause's re-mark: "unmarked
\* live objects" must not exist ("TestConcurrentMark failed! found unmarked
\* alives").
NoUnmarkedAlives == [][running /\ ~running' => Live \subseteq marked']_vars

=============================================================================
