----------------------------- MODULE GcReferences -----------------------------
(***************************************************************************)
(* java.lang.ref references in the mark-sweep collector: how the GC thread *)
(* discovers, filters and clears them and the RP thread enqueues them      *)
(* (gc_reference_processor.cpp, CopyChildRefs, ResurrectionPhase).         *)
(*                                                                         *)
(* Lists of references are linked through the pendingNext field: 0 when a  *)
(* reference is in no list, the reference itself at the end of a list.     *)
(* Each kind of reference has its own lists; the model has one kind.       *)
(* Every reference has a referent of its own and is identified with it.    *)
(* A step is a critical section of discoverLock, or one round of a loop    *)
(* over a list; the loops of the GC thread interleave with Java code,      *)
(* except in the second pause.                                             *)
(***************************************************************************)
EXTENDS Integers

CONSTANTS
    Refs,     \* reference objects, always reachable, or their referents
    Markers,  \* the threads that mark
    Null      \* no reference

ASSUME NullAssumption == Null \notin Refs

VARIABLES
    gc,        \* the GC thread: control point, marking, locals of the loops
    list,      \* pendingNext and referent fields, heads of the two lists
    strong,    \* the referents that Java code holds
    freed,     \* the referents that were swept
    enqueued   \* how often enqueue() was called on a reference

vars == <<gc, list, strong, freed, enqueued>>

Paused == gc.pc \in {"process", "resurrect", "process2"}
Marking == gc.pc # "idle" /\ ~Paused

Init ==
    /\ gc = [pc |-> "idle", snap |-> {}, marked |-> {}, finalMarked |-> {}, visited |-> {},
             racing |-> [k \in Markers |-> Null], found |-> {},
             head |-> Null, prev |-> Null, cur |-> Null]
    /\ list = [next |-> [r \in Refs |-> Null], referent |-> Refs, discover |-> Null, enqueue |-> Null]
    /\ strong = Refs /\ freed = {}
    /\ enqueued = [r \in Refs |-> 0]

(* The successor in a list, and SetNextReference. *)
NextOf(r) == IF list.next[r] = r THEN Null ELSE list.next[r]
Link(r, h) == IF h = Null THEN r ELSE h

-----------------------------------------------------------------------------
(* Without WeakRefGetBarrier. *)
MutantReferenceGet(r) ==
    /\ ~Paused /\ r \in list.referent
    /\ strong' = strong \cup {r}
    /\ UNCHANGED <<gc, list, freed, enqueued>>

(* MRT_ReferenceGetReferent: the barrier remembers the referent, so that   *)
(* this collection will mark it.                                           *)
ReferenceGet(r) ==
    /\ ~Paused /\ r \in list.referent
    /\ strong' = strong \cup {r}
    /\ gc' = IF Marking THEN [gc EXCEPT !.snap = @ \cup {r}] ELSE gc
    /\ UNCHANGED <<list, freed, enqueued>>

(* MRT_ReferenceClearReferent. *)
ReferenceClear(r) ==
    /\ ~Paused /\ r \in list.referent
    /\ list' = [list EXCEPT !.referent = @ \ {r}]
    /\ UNCHANGED <<gc, strong, freed, enqueued>>

(* Java code forgets a referent. *)
DropReferent(r) ==
    /\ ~Paused /\ r \in strong /\ strong' = strong \ {r}
    /\ UNCHANGED <<gc, list, freed, enqueued>>

(* EnqeueReferences: one round of its loop, outside the saferegion. *)
EnqueueReferences ==
    LET r == list.enqueue IN
    /\ ~Paused /\ r # Null
    /\ list' = [list EXCEPT !.enqueue = NextOf(r), !.next[r] = r]
    /\ enqueued' = [enqueued EXCEPT ![r] = @ + 1]
    /\ UNCHANGED <<gc, strong, freed>>

-----------------------------------------------------------------------------
(* One concurrent collection by the GC thread.  GcBegin is the first pause.*)
GcBegin ==
    /\ gc.pc = "idle"
    /\ gc' = [gc EXCEPT !.pc = "mark", !.snap = strong, !.marked = {}, !.finalMarked = {},
                        !.visited = {}, !.found = {}]
    /\ UNCHANGED <<list, strong, freed, enqueued>>

MarkReferent(r) ==
    /\ gc.pc \in {"mark", "remark"} /\ r \in gc.snap \ gc.marked
    /\ gc' = [gc EXCEPT !.marked = @ \cup {r}]
    /\ UNCHANGED <<list, strong, freed, enqueued>>

(* A marker comes to a reference (CopyChildRefs): the unlocked test.       *)
(* Two markers may come to the same one.                                   *)
Discoverable(r) == r \in list.referent /\ list.next[r] = Null /\ r \notin gc.marked

Visit(k, r) ==
    /\ gc.pc \in {"mark", "remark"} /\ gc.racing[k] = Null
    /\ gc' = [gc EXCEPT !.visited = @ \cup {r}, !.racing[k] = IF Discoverable(r) THEN r ELSE Null]
    /\ UNCHANGED <<list, strong, freed, enqueued>>

(* Without the second test of pendingNext under discoverLock. *)
MutantDiscover(r) ==
    list' = [list EXCEPT !.next[r] = Link(r, list.discover), !.discover = r]

Discover(r) ==
    list' = IF list.next[r] # Null THEN list
            ELSE [list EXCEPT !.next[r] = Link(r, list.discover), !.discover = r]

DiscoverReference(k) ==
    /\ gc.racing[k] # Null
    /\ gc' = [gc EXCEPT !.racing[k] = Null]
    /\ Discover(gc.racing[k])
    /\ UNCHANGED <<strong, freed, enqueued>>

(* ConcurrentProcessDisovered, when marking is done: takes the list, *)
FilterStart ==
    /\ gc.pc = "mark" /\ \A k \in Markers : gc.racing[k] = Null
    /\ gc' = [gc EXCEPT !.pc = IF list.discover = Null THEN "finalMark" ELSE "filter",
                        !.head = list.discover, !.cur = list.discover, !.prev = Null]
    /\ list' = [list EXCEPT !.discover = Null]
    /\ UNCHANGED <<strong, freed, enqueued>>

(* An element is unlinked without a look at the end of the list. *)
MutantUnlink(r, n) ==
    [x \in Refs |-> IF x = r THEN Null ELSE IF x = gc.prev THEN n ELSE list.next[x]]

Unlink(r, n) ==
    [x \in Refs |-> IF x = r THEN Null ELSE IF x = gc.prev THEN Link(x, n) ELSE list.next[x]]

(* unlinks what is marked or cleared by now, *)
FilterStep ==
    LET r == gc.cur  n == NextOf(r)  keep == r \in list.referent \ gc.marked IN
    /\ gc.pc = "filter"
    /\ gc' = [gc EXCEPT !.pc = IF n = Null THEN "merge" ELSE "filter",
                        !.cur = IF n = Null THEN r ELSE n,
                        !.prev = IF keep THEN r ELSE @,
                        !.head = IF ~keep /\ gc.prev = Null THEN n ELSE @]
    /\ list' = IF keep THEN list ELSE [list EXCEPT !.next = Unlink(r, n)]
    /\ UNCHANGED <<strong, freed, enqueued>>

(* and puts the rest back in front of what was discovered meanwhile. *)
FilterMerge ==
    /\ gc.pc = "merge"
    /\ gc' = [gc EXCEPT !.pc = "finalMark", !.head = Null, !.prev = Null, !.cur = Null]
    /\ list' = IF gc.head = Null THEN list
               ELSE [list EXCEPT !.discover = gc.head,
                                 !.next = IF list.discover = Null THEN @
                                          ELSE [@ EXCEPT ![gc.cur] = list.discover]]
    /\ UNCHANGED <<strong, freed, enqueued>>

(* ConcurrentMarkFinalizer marks what dead objects with a finalizer reach  *)
(* in a bitmap of its own and collects the references it meets.            *)
FinalMark(r) ==
    /\ gc.pc = "finalMark"
    /\ \/ /\ r \notin gc.visited
          /\ gc' = [gc EXCEPT !.visited = @ \cup {r},
                              !.found = IF Discoverable(r) THEN @ \cup {r} ELSE @]
       \/ /\ r \notin gc.marked \cup gc.finalMarked \cup freed
          /\ gc' = [gc EXCEPT !.finalMarked = @ \cup {r}]
    /\ UNCHANGED <<list, strong, freed, enqueued>>

FinalMarkDone ==
    /\ gc.pc = "finalMark" /\ gc' = [gc EXCEPT !.pc = "remark"]
    /\ UNCHANGED <<list, strong, freed, enqueued>>

(* The second pause begins when every reference has been visited.  The     *)
(* clean-up of concurrent marking marks what is left in the buffers.       *)
SecondPause ==
    /\ gc.pc = "remark" /\ gc.visited = Refs /\ \A k \in Markers : gc.racing[k] = Null
    /\ gc' = [gc EXCEPT !.pc = "process", !.marked = @ \cup gc.snap, !.cur = list.discover]
    /\ UNCHANGED <<list, strong, freed, enqueued>>

Garbage(r) == r \notin gc.marked /\ (gc.pc = "process" \/ r \notin gc.finalMarked)

(* ProcessDiscoveredReference: one round of its loop. *)
ProcessDiscovered ==
    LET r == gc.cur IN
    /\ gc.pc \in {"process", "process2"} /\ r # Null
    /\ gc' = [gc EXCEPT !.cur = NextOf(r)]
    /\ list' = IF r \in list.referent /\ Garbage(r)
               THEN [list EXCEPT !.referent = @ \ {r}, !.enqueue = r,
                                 !.next[r] = Link(r, list.enqueue)]
               ELSE [list EXCEPT !.next[r] = Null]
    /\ UNCHANGED <<strong, freed, enqueued>>

(* The first pass, for weak and soft references, ends. *)
ProcessedSoftWeak ==
    /\ gc.pc = "process" /\ gc.cur = Null
    /\ gc' = [gc EXCEPT !.pc = "resurrect"]
    /\ list' = [list EXCEPT !.discover = Null]
    /\ UNCHANGED <<strong, freed, enqueued>>

(* DoResurrection discovers the references that finalizers reach; then all *)
(* kinds of references are processed, with both bitmaps.                   *)
DoResurrection ==
    /\ gc.pc = "resurrect"
    /\ \/ \E r \in gc.found : gc' = [gc EXCEPT !.found = @ \ {r}] /\ Discover(r)
       \/ /\ gc.found = {} /\ UNCHANGED list
          /\ gc' = [gc EXCEPT !.pc = "process2", !.cur = list.discover]
    /\ UNCHANGED <<strong, freed, enqueued>>

(* The pause ends; the sweep frees what is in neither bitmap. *)
ProcessedAll ==
    /\ gc.pc = "process2" /\ gc.cur = Null
    /\ gc' = [gc EXCEPT !.pc = "idle", !.snap = {}, !.marked = {}, !.finalMarked = {},
                        !.visited = {}]
    /\ list' = [list EXCEPT !.discover = Null]
    /\ freed' = freed \cup (Refs \ (gc.marked \cup gc.finalMarked))
    /\ UNCHANGED <<strong, enqueued>>

GcStep ==
    \/ \E r \in Refs : MarkReferent(r) \/ FinalMark(r)
    \/ \E r \in Refs : r \notin gc.visited /\ \E k \in Markers : Visit(k, r)
    \/ \E k \in Markers : DiscoverReference(k)
    \/ FilterStart \/ FilterStep \/ FilterMerge \/ FinalMarkDone
    \/ SecondPause \/ ProcessDiscovered \/ ProcessedSoftWeak \/ DoResurrection \/ ProcessedAll

-----------------------------------------------------------------------------
Next ==
    \/ GcBegin \/ GcStep \/ EnqueueReferences
    \/ \E r \in Refs, k \in Markers : Visit(k, r)
    \/ \E r \in Refs : ReferenceGet(r) \/ ReferenceClear(r) \/ DropReferent(r)

Spec == Init /\ [][Next]_vars

(* A collection that has begun goes on, and the RP thread, which runs      *)
(* between the pauses, goes on with the references in its list.  Nobody    *)
(* has to collect.                                                         *)
FairSpec == Spec /\ WF_vars(GcStep) /\ SF_vars(EnqueueReferences)

-----------------------------------------------------------------------------
GcPcs == {"idle", "mark", "filter", "merge", "finalMark", "remark", "process", "resurrect",
          "process2"}

(* Type invariant of the lists and the marking. *)
TypeOK ==
    /\ gc.pc \in GcPcs /\ {gc.head, gc.prev, gc.cur} \subseteq Refs \cup {Null}
    /\ gc.marked \subseteq Refs /\ gc.finalMarked \subseteq Refs \ freed
    /\ list \in [next : [Refs -> Refs \cup {Null}], referent : SUBSET Refs,
                 discover : Refs \cup {Null}, enqueue : Refs \cup {Null}]
    /\ enqueued \in [Refs -> 0..1]

(* The elements of the list that begins with h: what is in every set that  *)
(* has h in it and, with a reference, the one its pendingNext leads to.    *)
Followed(S) == \A x \in S : list.next[x] \in S \cup {Null}
Chain(h) ==
    {r \in Refs : h # Null /\ \A S \in SUBSET Refs : h \in S /\ Followed(S) => r \in S}
Lists == <<Chain(list.discover), Chain(list.enqueue),
           IF gc.pc \in {"filter", "merge"} THEN Chain(gc.head) ELSE {}>>

(* Between collections no reference is left in the discover list: one that *)
(* survived can be discovered by the next collection.                      *)
DiscoverListEmptied ==
    gc.pc = "idle" => \A r \in list.referent : list.next[r] = Null

(* A reference is never left pointing to memory that was swept, and a      *)
(* referent that Java code holds is never swept: neither the concurrent    *)
(* filter nor the race with Reference.get loses a reference or clears a    *)
(* live one.                                                               *)
NoDanglingReferent == freed \cap (list.referent \cup strong) = {}

(* A reference has a pendingNext exactly while it is in one list, or after *)
(* enqueue() was called: none is lost on the way from discovery to         *)
(* enqueue(), none is in two lists, and one in the enqueue list is cleared *)
(* and not enqueued yet.  (Checked together with the types and with the    *)
(* two properties above.)                                                  *)
NoReferenceLost ==
    /\ TypeOK
    /\ DiscoverListEmptied
    /\ NoDanglingReferent
    /\ ~Paused =>
        /\ \A r \in Refs : list.next[r] # Null <=>
              enqueued[r] > 0 \/ \E i \in 1..3 : r \in Lists[i]
        /\ \A i, j \in 1..3 : i # j => Lists[i] \cap Lists[j] = {}
        /\ \A r \in Lists[2] : r \notin list.referent /\ enqueued[r] = 0

(* A reference that the collector has cleared is enqueued. *)
ClearedIsEnqueued ==
    \A r \in Refs : (list.enqueue # Null /\ r \in Chain(list.enqueue)) ~> (enqueued[r] = 1)

(* The mapping to the abstract specification: pending are the elements of  *)
(* the RP thread's list.                                                   *)
Lifecycle == INSTANCE ReferenceLifecycle
             WITH referent <- list.referent, pending <- Chain(list.enqueue)

(* Discovery, filter, both passes of the second pause, the RP thread and   *)
(* the sweep implement the contract of java.lang.ref: a reference that     *)
(* ProcessDiscoveredReference clears has a referent nobody holds, and goes *)
(* through the enqueue list to exactly one enqueue(); no other step clears *)
(* one, takes one out of that list or puts one into it.                    *)
ImplementsReferenceLifecycle == Lifecycle!Spec
=============================================================================
