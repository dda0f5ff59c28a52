-------------------------- MODULE ReferenceLifecycle --------------------------
(***************************************************************************)
(* What java.lang.ref promises to Java code, without marking, lists or     *)
(* pauses: the collector clears a reference only when nobody holds its     *)
(* referent, each reference it has cleared is handed to the RP thread and  *)
(* enqueued from there, and no referent is freed that code holds or can    *)
(* still get from its reference.  GcReferences.tla implements this.        *)
(***************************************************************************)
EXTENDS Naturals

CONSTANT Refs

VARIABLES
    referent,  \* the references that have not been cleared
    pending,   \* those the collector has cleared, before enqueue()
    enqueued,  \* how often enqueue() was called on a reference
    strong,    \* the referents that Java code holds
    freed      \* the referents whose memory was given back

vars == <<referent, pending, enqueued, strong, freed>>

Init ==
    /\ referent = Refs /\ pending = {}
    /\ enqueued = [r \in Refs |-> 0]
    /\ strong = Refs /\ freed = {}

Get(r) ==
    /\ r \in referent
    /\ strong' = strong \cup {r}
    /\ UNCHANGED <<referent, pending, enqueued, freed>>

Clear(r) ==
    /\ r \in referent
    /\ referent' = referent \ {r}
    /\ UNCHANGED <<pending, enqueued, strong, freed>>

Forget(r) ==
    /\ r \in strong
    /\ strong' = strong \ {r}
    /\ UNCHANGED <<referent, pending, enqueued, freed>>

Collect(r) ==
    /\ r \in referent \ strong
    /\ referent' = referent \ {r}
    /\ pending' = pending \cup {r}
    /\ UNCHANGED <<enqueued, strong, freed>>

Enqueue(r) ==
    /\ r \in pending
    /\ pending' = pending \ {r}
    /\ enqueued' = [enqueued EXCEPT ![r] = @ + 1]
    /\ UNCHANGED <<referent, strong, freed>>

Free(S) ==
    /\ S \cap (referent \cup strong) = {}
    /\ freed' = freed \cup S
    /\ UNCHANGED <<referent, pending, enqueued, strong>>

Next ==
    \/ \E r \in Refs : Get(r) \/ Clear(r) \/ Forget(r) \/ Collect(r) \/ Enqueue(r)
    \/ \E S \in SUBSET Refs : Free(S)

Spec == Init /\ [][Next]_vars
=============================================================================
