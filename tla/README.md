# TLA+ verification of the Maple runtime (BSCCompiler)

This directory holds TLA+ models of the concurrent core of the Maple runtime
(`src/src/mrt`) and of the dominance analysis of the compiler
(`src/src/mapleall`), the TLC configurations that check them on small
instances, and TLAPS proofs of the runtime's safety properties for all instances.

The repository is a compiler (front ends, Maple IR, middle end, back end) and
the runtime its output is linked with. The runtime is where the protocols are:
mutator threads, a GC thread, a reference-processor thread and a pool of GC
workers synchronise with hand-written atomics, futexes, monitors and condition
variables. The compiler is sequential, and most of its correctness is a
statement about the semantics of programs. What is modelled of it is an
algorithm on graphs with a definition to compare it with: dominators, dominance
frontiers and the splitting of critical edges before them.

Paths below are relative to `src/src/mrt/compiler-rt/` unless they start with
`src/`.

## 1. Inventory

| Component | State it keeps | Operations | Hard behaviour |
|---|---|---|---|
| Saferegion and stop-the-world handshake (`include/saferegion.h`, `src/yieldpoint.cpp`) | one 64-bit atomic word with two counters, `inSaferegion` of each mutator, polling page protection, `stwMutex`, `worldStopped`, `saferegionStateChanged` | Enter/LeaveSaferegion, yieldpoint signal, Init/FiniYieldpoint, StopTheWorld, StartTheWorld, LockStopTheWorld | every interleaving of atomics and futex calls; lost wake-ups; three locks |
| Mutator list (`include/mutator_list.h`) | list of active mutators, its mutex | AddMutator, RemoveMutator with a callback under the lock | attaching or detaching against a stop |
| Concurrent stack scan (`src/collector/collector_ms.cpp`, `include/collector/collector.h`) | `scanState` of each mutator, `snapshotMutators`, `numMutatorToBeScan`, `concurrentPhaseBarrier` | FastScanRoots, ConcurrentStackScan, StackScanBarrier, waiting in ConcurrentMark | two parties claim one stack; futex and condition variable; deletion of a Mutator |
| SATB marking (`include/collector/satb_buffer.h`, `src/collector/collector.cpp`, `collector_ms.cpp`) | mark bitmap, enqueue bitmap, SATB node of each mutator, retired nodes, `concurrentMarking` | SatbWriteBarrier, allocation, mark tasks, ConcurrentReMark, the two pauses | stores racing with marking; a record lost is an object lost |
| GC thread pool (`src/collector/mpl_thread_pool.cpp`) | task queue, `running`, `exit`, three counters, four condition variables | AddTask, Start, WaitFinish, Stop, DrainTaskQueue, SetMaxActiveThreadNum, Exit | counting by notified but not yet running threads |
| GC request queue and triggering (`include/collector/task_queue.h`, `gc_reason.cpp`, `collector_tracing.cpp`) | lock-free priority word, synchronous queue, finished index | Enqueue, Dequeue with timeout, RequestGCAndWait, NotifyGCFinished | duplicate requests, waiting for a GC already running |
| Naive reference counting (`include/collector/rc_inline.h`, `collector_naiverc.cpp`) | strong, weak and resurrect counts in one header word | IncRef, DecRef, weak variants, load/store barriers | CAS loops, saturation of the counts |
| Naive RC with mark-sweep backup (`collector_naiverc_ms.cpp`) | as above and the mark bitmap | renewal of objects released during marking | two collectors over one heap |
| Cycle collector (`cycle_collector.cpp`, `cp_generator.cpp`) | learnt patterns | match, trial deletion, pattern update | decides on counts that change |
| Reference processors (`rp_base.cpp`, `gc_reference_processor.cpp`, `rc_reference_processor.cpp`) | finalizer lists with two locks, discover and enqueue lists linked through `pendingNext`, flags of the RP thread | RunFinalization, Notify, Wait, Stop; DiscoverReference, ConcurrentProcessDisovered, ProcessDiscoveredReference, EnqeueReferences | own thread; swapped lists; a filter that runs beside marking and Java code |
| ROS allocator (`src/allocator/`) | runs, page map, thread-local slots | allocate, free, concurrent sweep | sweeping runs while mutators allocate |
| Class initialisation (`src/src/mrt/maplert/src/mrt_class_init.cpp`) | state word and monitor of each class, pending exception of each thread | TryInitClass, InitClassImpl, InitSuperClasses, CallClinit | competing threads, nested calls out of `<clinit>`, failures in the middle |
| Exceptions, unwinding, linker, loader, interpreter | machine frames, tables | | mostly lookups in binary formats; out of reach of a state model |
| Middle end: dominance (`src/src/mapleall/maple_util/include/dominance.h`, `src/src/mapleall/maple_me/src/me_critical_edge.cpp`) | successor and predecessor lists, immediate dominators, frontiers, iterated frontiers, preorder | MeSplitCEdge, PostOrderWalk, ComputeDominance, ComputeDomFrontiers, ComputeIterDomFrontiers, ComputeDtPreorder | fixpoint on irreducible graphs; results reused while they are computed; entry blocks with a predecessor |
| Maple IR, rest of the middle end, back end, front ends, driver, MapleEng | compiler data structures | phases | sequential; about the semantics of the IR |

How they interact: the collectors run between StopTheWorld and StartTheWorld, so
all rely on the handshake. A mutator that leaves the saferegion passes
the stack-scan barrier on the same path. Both sides of the stack scan put mark
tasks into the thread pool; the pool is stopped and drained before each pause
ends. The SATB nodes of listed mutators are collected in the second pause. A
thread that exits walks through all of these: off the list
(`FiniYieldpoint`), out of the saferegion, through the barrier, `~Mutator`.
The marker discovers references on its way, the second pause clears them and
hands dead objects with a finalizer over, and the RP thread enqueues the ones
and finalizes the others between the pauses. Class initialisation is on the
path of Java code only, MeSplitCEdge and Dominance are phases of the compiler.

`PROJECT.json` lists all components with what is and is not modelled, and the
hazards at their lines with the properties aimed at them.

## 2. Modules

| Module | Models |
|---|---|
| `StopTheWorld` | saferegion, yieldpoints, mutator list, StopTheWorld/StartTheWorld |
| `WorldControl` | what stopping the world promises: the abstract specification |
| `ConcurrentStackScan` | concurrent scanning of mutator stacks |
| `SatbMark` | snapshot-at-the-beginning marking |
| `MplThreadPool` | the GC workers' pool |
| `GcRequest` | requests for collections, the GC thread's task queue, its start and stop |
| `Finalization` | the reference-processor thread, finalizer lists, runFinalization |
| `GcReferences` | discovery, filtering, clearing and enqueueing of references |
| `ReferenceLifecycle` | what `java.lang.ref` promises to Java code: the abstract specification |
| `ClassInit` | initialisation of classes by competing threads |
| `Dominance` | critical edges, dominators, frontiers, preorder |
| `StopTheWorldProofs`, `ConcurrentStackScanProofs`, `SatbMarkProofs`, `MplThreadPoolProofs`, `GcRequestProofs`, `FinalizationProofs`, `ClassInitProofs`, `GcReferencesProofs` | TLAPS proofs about the module of that name (section 5) |
| `MC*` | the symmetry set of `SatbMark` and the class hierarchy of `ClassInit` for TLC; other constants are in the `.cfg` files |

The type invariant of each module is `TypeOK`. It is the first conjunct of the
invariant that says most about the state (`NoLostWakeup` of `StopTheWorld`,
`NumIsExact`, `EnqueuedPending`, `CountsExact`, `IndexOrder`, `ClinitOnce`,
`FinalizedOnce`, `NoReferenceLost`, `DominatorsExact`).

That no wake-up is lost is stated in each module where threads sleep on a futex
or a condition variable: whoever sleeps has a reason that still holds, or
somebody is on the way to wake it. These are the invariants
`NoLostWakeup` (of `StopTheWorld`; of `MplThreadPool` within `CountsExact`; of
`GcRequest` within `IndexOrder`), `FutexWoken` (within `NumIsExact`) and
`NothingForgotten` (within `FinalizedOnce`). They are what the liveness
properties need of the code besides fair scheduling, and unlike these they can
be proved.

`Mutant...` operators are plausible errors in the definition that follows them.
They are used by no specification; putting one in place of the original must
break a property, which shows that the property depends on that code.

### StopTheWorld

One action is one access to shared memory (atomic operation, lock, `mprotect`,
futex call) and the local work up to the next. `pc` is the control point of each
thread; `ret` is where an inlined Enter/LeaveSaferegion continues. `sr` is the
`SaferegionState` word with both counters modulo `Width`: `IncSaferegionCount`
and `DecSaferegionCount` carry and borrow between the halves as `fetch_add(1)`
and `fetch_sub(1)` on 64 bits do. A futex sleep has two steps (compare and
sleep; woken), and `FutexInterrupt` ends one at any time (signal, timeout).
`Stoppers` may be mutators as well as GC threads. `stwMutex` is recursive and a
GC thread may hold it around a whole collection (`LockStopTheWorld`). The
thread list lock belongs to libart and is external (`Runtime`).

Abstracted: time (the aborts after waiting too long for the thread list lock,
the mutator list lock or, after 30 futex timeouts, the mutators are left out; a
single futex timeout may come at any moment), logging, stack bookkeeping in
FiniYieldpoint. `YieldpointInitAfterFork` is not modelled: it runs in a child
process with one thread.

### WorldControl

Attached mutators, those running, and the owner of the stopped world. A thread
becomes owner only when nothing runs; while there is an owner nothing starts,
attaches or detaches. `StopTheWorld` implements it under `attached <- list`,
`running <- Running` (listed mutators at a point where they may touch the heap)
and `owner <- Owner` (the thread between the successful check and clearing the
pending count).

### ConcurrentStackScan

Starts from what `WorldControl` promises: a pause is one atomic step, possible
when every listed mutator is in the saferegion and the list lock is free
(`CanStop`). Between the pauses every access to `scanState`, `snapshotMutators`,
`numMutatorToBeScan` and the condition variable is a step. What a stack holds is
abstracted to one mark task per stack (`tasks`, then `traced`). `target` is a
history variable: the mutators of the snapshot.

### SatbMark

The heap has one reference field per object; the static fields are one more
holder, read concurrently. A store is two steps, the barrier and the write, so
that two mutators can race for a field; pauses cannot fall between them, because
there is no safepoint there. Marking an object and reading its field are two
steps. Stacks count as scanned in the first pause, which `ConcurrentStackScan`
justifies (`ScannedBeforeRun`, `StacksComplete`). `snapshot` is a history
variable. What is reachable (`ReachThrough`) is defined as the smallest closed
set, not by recursion, so that proofs can use it. Where the code's behaviour is
undefined (a live object swept, or a page returned that a thread still uses; see
finding 2), the model starts no further collection (guard of
`ConcurrentMSPreSTW1`).

Abstracted: pushes to the lock-free lists of SatbBuffer are atomic; the barriers
for arraycopy, which record all elements of an array, and weak references are
left out; the sweep happens in the pause, since only unmarked objects are
touched by it.

### MplThreadPool

All counters are guarded by `taskMutex`, so one action is one critical section;
a wait on a condition variable is left in a second step, so that notified
threads do not run at once. The order of the task queue is left open: no
property depends on it. `owed` is a history variable: the tasks a WaitFinish
has to see through, with those they fork. `SetMaxActiveThreadNum` is only called
on a stopped pool, as the manual in the header demands and all callers do.

### GcRequest

The GC thread's loop (Dequeue, Execute, NotifyGCFinished) and the threads that
ask for collections. `syncQ` is the locked list, `tq` the lock-free word as a
set of bits, so that Push, Pop and the erasing of lower priorities are set
operations; reasons are the numbers of `GCReason` and their kind that of
`reasonCfgs`. The increment of `queueSyncIndex` is a load and a store, because
`taskQueue.Init` writes it without the lock. A collection is the one control
point `gc`. `seen` is a history variable: whether a collection has begun, and
ended, since a thread's request. Requests and StopThread may come at any time,
also while the GC thread starts or exits, because the code checks nothing about
it; and `queueSyncIndex`, which no constructor sets, has any value at first. What
this leads to is finding 3. `inherited` is a history variable: whether a task had
been numbered before `taskQueue.Init` began the present life of the GC thread.
`BlocksUntilCollected` is what the header promises; `GcBeforeReturn`, the order in
`IndexOrder` and the answers in `RequestReturns` say that it is kept in every life
that inherits no number. StopThread is obeyed in every life.
`MaxIndex` bounds `queueSyncIndex`; a restart of the GC thread sets it back.
Abstracted: the timestamps by which frequent requests are ignored (the request
is not made), the priority of threads, the watchdog.

### Finalization

The RP thread from its start to its exit (`rp`), the thread that creates and stops
it (`ctl`), the GC thread that hands objects over, and mutators in
`RunFinalization`. The three lists are sequences that are swapped as the code
swaps them; `processing` and `run` are the owners of the two locks; one call of
`finalize()` is two steps, so that others run during it. `Wait` has no condition:
the RP thread leaves it at any time, because it is notified or because the time is
over, and then asks `ShouldStartIteration`. `due` is a history variable: what was
queued when RunFinalization or Stop was called. An object is finalizable once.
Around a fork the RP thread is stopped and created again. Before the first one
`PreFork` sets the mygote bit of every object of the heap (`zygote`), those queued
included, and such an object later leaves its list without `finalize()`
(`SkipMygote`). The properties therefore speak of objects that are settled:
finalized, or of the zygote. Left out: the request for a background collection in
the RP thread's loop, and statistics.

### GcReferences

`list` holds the `pendingNext` field of every reference (empty, the next one,
or the reference itself at the end of a list), its referent and the heads of the
discover and the enqueue list. A collection marks, lets two marking threads find
the same reference (`Visit` tests `pendingNext` without the lock,
`DiscoverReference` takes it and tests again), filters the discovered
references beside Java code, marks from finalizers in a second bitmap, and in
the second pause clears, resurrects and clears again. Java code holds referents
(`strong`), gets them out of references with the barrier of `Reference.get`,
clears references and forgets referents. The model has one kind of reference
with all steps; kinds differ in the lists they use. Marking itself is
abstracted to what `SatbMark` shows: what the mutators hold or load is marked
when the second pause begins (`snap`). The properties name the elements of a
list by `Chain`, the smallest set that has the head and follows `pendingNext`.

### ReferenceLifecycle

The references that still have a referent, those the collector has cleared and
handed over, how often each was enqueued, what Java code holds and what was
freed. The collector clears a reference only if nobody holds its referent, and
hands it over in the same step; `enqueue()` takes it from there; nothing is freed
that code holds or can get from a reference. `GcReferences` implements it under
`referent <- list.referent`, `pending <- Chain(list.enqueue)`, the other three
variables as they are: marking, discovery, the filter and both passes up to the
clearing are stuttering steps.

### ClassInit

Every thread has a stack of frames, one per nested call of TryInitClass, or of
InitSuperClasses for an interface that is not initialised itself. A step is one
access to the state word or the monitor, or the choice of what Java code in
`<clinit>` does next: touch a class of `Uses`, catch, throw, return. `pend` is
the pending exception, which InitSuperClasses does not look at before it has
gone through the whole array. `ran` is a history variable. `Family` and
`Reached`, which the properties use, are smallest closed sets. Left out:
verification, lazy linking, other users of the class objects' monitors.

### Dominance

A behaviour chooses a graph in which every block can be reached (the code
deletes the others before), splits its critical edges or not, walks it in
postorder, iterates ComputeDominance node by node, and computes frontiers,
children, iterated frontiers and the preorder. The lists of predecessors and
successors are sequences, because the code counts and replaces their elements.
The common entry block is the successor-only node the code makes it.
`Contracted` takes the blocks that splitting added out again, to state that nothing
else was changed. How a function's statements give the graph is left out, and so are
exception edges, computed gotos, double edges; post-dominance is the same code
on the reversed graph.

## 3. Runs

| Run | Instance | What it shows |
|---|---|---|
| `stw` | 2 mutators and 1 GC thread; stoppers: one mutator and the GC thread; Width 4 | no futex sleep outlasts its reason; a stopped world is quiet; the FATAL branch of the wait is unreachable; the counter is exact; detaching is not interrupted; the list is frozen during a stop; WorldControl is implemented; a stop completes; blocked mutators resume |
| `stack_scan` | 3 mutators | each stack is scanned once, before its mutator runs; all traced at the end; no deleted Mutator touched; a mutator sleeps only while the GC thread has still to wake it; a mutator waiting for the GC thread's scan gets through |
| `stack_scan_notify` | 2 mutators, expected violation | finding 1 |
| `satb_safety` | 2 mutators, 2 objects and the statics, nodes of 1 entry | the SATB invariant; records are not dropped; what is lost is lost by an exiting thread |
| `satb_exit` | the same, expected violation | finding 2 |
| `pool` | 3 workers, 2 tasks | exact counts within the active limit; no wake-up of the four condition variables is lost; all work done and all workers at rest when WaitFinish returns; WaitFinish returns; workers exit |
| `request` | 2 requesters at any time; reasons 0 (blocking), 7 (lite), 5 (asynchronous); MaxIndex 3 | in a life of the GC thread that inherits no number, tasks are numbered in the order they are served, a blocking request returns after a collection that began after it, and waiting requesters are answered; in every life nobody sleeps on a condition variable whose notification was lost, and StopThread is obeyed |
| `request_restart` | the same, expected violation | finding 3 |
| `class_init` | 2 threads, 6 classes and interfaces, 2 touches per `<clinit>` | `<clinit>` runs once, by the owner of the monitor, after the super classes; whoever returns without an exception finds the class ready, for good; a class that failed without running failed for something in its family; every request ends |
| `finalization` | 1 object, RP thread, 2 mutators, stops and forks | finalized once and in the end, or dropped if it was there at the first fork; no list with objects is forgotten; RunFinalization and Stop(true) end with what they saw finalized; RunFinalization returns |
| `gc_references` | 2 references, 2 marking threads | the lists lose nothing and share nothing; no reference points to swept memory; what is cleared is enqueued; ReferenceLifecycle is implemented |
| `dominance` | all graphs of 3 blocks with up to 2 successors each, 1 or 2 entries, split or not | dominators, preorder, frontiers and iterated frontiers are those of the definitions; splitting puts a block on every edge that was critical in the input and changes nothing else; the analysis ends |

Why the bounds are enough. In `StopTheWorld` two mutators give the last and a
not-last one to enter, and two stoppers that compete, one of them a mutator; Width 4
is small enough for a wrong carry or borrow to show after a few steps; the
proofs remove the bounds. In the stack scan three mutators allow one scanned
by the GC thread, one by itself and one detaching at once. In `SatbMark` two
objects give a chain static -> a -> b whose link can be moved behind the
marker, and one entry per node makes every second record retire a node; the
collections repeat without bound. In the pool three workers allow one asleep,
one waiting and one executing, with `maxActive` from 1 to 3; two tasks allow one
executed while the other is forked or submitted late; uses of the pool repeat
without bound. In `GcRequest` two requesters give a request that joins a queued
equal one and, with the lite-blocking reason, one that gets a number of its own;
three numbers allow several collections before a restart and a number left over
from the life before. In `ClassInit` the hierarchy
has a super class, an interface with a default method behind one without, a
missing super class, a class without `<clinit>`, and a `<clinit>` that touches
its own class, another class and one that fails. In `Finalization` one object is
contended for by three threads and can be in each of the three lists; a second
object does not meet the first in any step but the swap. In `GcReferences` two
references give a list with a head, a tail, and an element to unlink at either
end. In `Dominance` three blocks give loops, irreducible loops, joins and
self-loops, and splitting adds up to six more. No state constraint is used in
any run.

Deadlock is checked in all runs but `pool`, because after `Delete` the pool
really is at an end. `Dominance` ends properly and its `Next`
says so with a stuttering step at `done`. Finding 1 is not a deadlock of the
model: mutators go on while the GC thread sleeps.

Fairness. `StopTheWorld`: weak fairness of each thread's `Progress`, the steps it
takes without being asked: the OS schedules it, locks are handed out, managed
code polls, a collector ends its pause. Attaching, detaching and stopping are
not fair. Futex sleeps are interrupted only finitely often, so the liveness
properties do not lean on the timeout. `ConcurrentStackScan`: weak fairness of the
GC thread and of each mutator in the barrier; strong fairness of the second
pause, since mutators in managed code poll and `StopCompletes` says the world can be
stopped. `MplThreadPool`: weak fairness of each worker and of the GC thread
within WaitFinish; tasks end. `GcRequest`: weak fairness of the GC thread,
which includes that a collection ends and that `wait_for` times out after its
second, and of each requester once it has asked. `ClassInit`: weak fairness of
each thread inside a request; a `<clinit>` ends (`MaxUses`) and `Uses` has no
cycle that two threads could enter at different ends (see Observations).
`Finalization`: weak fairness of the RP thread, the GC thread's notification and
a mutator inside RunFinalization; `finalize()` returns; strong fairness of taking
the two mutexes, which are free again and again. Nobody has to collect, to call
RunFinalization or to stop. `GcReferences`: weak fairness of a collection that
has begun, strong fairness of EnqueueReferences, which runs only between
pauses. `Dominance`: weak fairness of its one thread.

## 4. Findings

1. **Lost notification** (`stack_scan_notify`,
   `src/collector/collector_ms.cpp:862`). The last scanner decrements
   `numMutatorToBeScan` and notifies `concurrentPhaseBarrier` without holding
   `snapshotMutex`. The GC thread evaluates the predicate with the mutex held; if
   decrement and notification fall between that and its going to sleep, it is not
   woken again. The GC thread sleeps with the counter at 0 and no collection
   follows.
2. **SATB entries of an exiting thread** (`satb_exit`,
   `include/collector/collector.h:266`). A thread leaves the mutator list in
   FiniYieldpoint and retires its SATB node later in `~Mutator`. A second pause
   between the two sees the node neither in the list nor among the retired ones,
   so a live object recorded only there stays unmarked and is swept; Reset then
   returns the page of a node that is still to be retired.
   `MarkedUnlessOrphaned` shows that this is the only way to lose an object in
   the model.
3. **Numbers that survive a restart** (`request_restart`,
   `src/collector/collector_tracing.cpp:260`). RunTaskLoop sets `finishedGcIndex`
   to 1 and then, in `taskQueue.Init`, `queueSyncIndex` to 1. A request that comes
   before that, as all requests may while a GC thread exits or starts, is numbered
   from the old count, or from an uninitialised one, and stays queued. Its
   collection sets `finishedGcIndex` to the old number; the next blocking request
   gets a low number and returns without a collection, although
   `public-headers/gc_reason.h:36` says that it "will block until the current GC
   finishes". A thread can also sleep for ever: A gets number 4 between
   the two assignments and sleeps; B gets number 2 after them; A's collection is
   notified, but B's task sets `finishedGcIndex` back to 2 before A is scheduled.
   `GcBeforeReturn` and `RequestReturns` show that inherited numbers are the only
   way to either.

### Observations

Behaviour met while modelling that no run is about, or that a property states as
it is:

- Before RunTaskLoop has run, and after an exit, `finishedGcIndex` is
  `kIndexExit` and a blocking request returns at once
  (`src/collector/collector_tracing.cpp:343`); its task stays queued (finding 3).
- A Timeout task erases queued asynchronous requests, because "the force gc
  removes all other gcs", but usually forces no collection
  (`include/collector/collector_tracing.h:144`). An asynchronous request may
  therefore go without a collection, where `public-headers/gc_reason.h:42` says
  that one "will be triggered asynchronously".
- Objects whose finalizers are still queued at the first fork are never finalized:
  they get the mygote bit like the rest of the heap
  (`src/collector/rp_base.cpp:325`). A comment there says that this is meant.
- On a Timeout task `reasonCfgs` is indexed with -1
  (`src/collector/collector_tracing.cpp:232`); timestamps are not modelled.
- Lowering `maxActiveThreadNum` on a running pool would leave more workers
  waiting than WaitFinish compares with (`src/collector/mpl_thread_pool.cpp:182`);
  no caller does it.
- `ClearStackInfo` at thread exit and the GC thread's scan of the same stack
  are ordered only by the barrier (`src/yieldpoint.cpp:265`); what a stack holds
  is not modelled.
- A forced background collection that is requested between two statements of
  the RP thread's loop is forgotten (`src/collector/rp_base.cpp:222`), and a
  `finalize()` that calls runFinalization waits for itself.
- Two threads whose `<clinit>` bodies touch each other's class wait for each
  other: InitClassImpl keeps the monitor during `<clinit>`, where the Java
  specification releases it. `RequestEnds` holds for hierarchies without such a
  circle.
- An interface that is requested itself is initialised without its super
  interfaces, and what one super class throws makes the later interfaces of
  the array fail as well (`FailureInFamily`).
- ConcurrentProcessDisovered links the rest of the list behind the last
  reference it looked at, also when that one was just unlinked
  (`src/collector/gc_reference_processor.cpp:127`). No marking thread discovers
  references while the filter runs, so the branch is not taken (`PhaseInv` of
  `GcReferencesProofs`).
- The header of MeSplitCEdge says "find all critical edge in func and split",
  but the edges are collected before the first one is broken. Breaking the edge
  of the common entry block gives an old entry block one more predecessor, so
  edges back to it become critical and stay. `EdgesSplit` is about the edges that
  are critical in the function as it is given.

## 5. Proofs

Every `...Proofs` module extends the module it is about, states an inductive
invariant `IInv` as a conjunction of named parts, and proves `Spec => []IInv`
(theorem `InductiveInvariant` in each) and from it the properties below, for
every value of the constants that satisfies the assumptions. The `IInv` of
each module was checked by TLC on the constants of its run before it was
proved (that of `GcReferences` with three references). The theorems about
wake-ups have an invariant of their own (`WakeInv`, `NoticeInv`), which is
inductive given `IInv` and is proved in a second stage from
`InductiveInvariant`.

| Module | Theorem | Property of the runs it states |
|---|---|---|
| `StopTheWorldProofs` | `TypeCorrect` | `TypeOK` (conjunct of `NoLostWakeup`) |
| | `WakeupsArrive` | `NoLostWakeup` |
| | `StopIsSafe` | `StoppedWorldIsQuiet` |
| | `CountCorrect` | `CountIsExact` |
| | `FatalUnreachable` | `NeverFatal` |
| | `DetachIsSafe` | `DetachNotInterrupted` |
| | `ListIsFrozen` | `ListFrozen` (action property) |
| | `Refinement` | `ImplementsWorldControl` |
| `ConcurrentStackScanProofs` | `NumCorrect` | `NumIsExact` |
| | `WakeupsArrive` | `FutexWoken` (conjunct of `NumIsExact`) |
| | `RunsAfterScan` | `ScannedBeforeRun` |
| | `AllStacksTraced` | `StacksComplete` |
| | `MutatorAlive` | `NoUseAfterFree` |
| `SatbMarkProofs` | `SnapshotKept` | `SnapshotCovered` |
| | `EnqueuedKept` | `EnqueuedPending` |
| | `SweepsOnlyOrphaned` | `MarkedUnlessOrphaned` (action property) |
| `MplThreadPoolProofs` | `CountsCorrect` | `CountsExact` |
| | `WakeupsArrive` | `NoLostWakeup` (conjunct of `CountsExact`) |
| | `WorkIsDone` | `AllWorkDone` |
| `GcRequestProofs` | `BlockingRequestServed` | `GcBeforeReturn` (action property) |
| | `NumbersAscend` | `IndexOrder` |
| | `WakeupsArrive` | `NoLostWakeup` (conjunct of `IndexOrder`) |
| `FinalizationProofs` | `FinalizesOnce` | `FinalizedOnce` |
| | `NoNotificationLost` | `NothingForgotten` (conjunct of `FinalizedOnce`) |
| | `StopKeepsNothing` | `StopFinalizes` |
| | `RunFinalizationWaits` | `RunFinalizationComplete` (action property) |
| `ClassInitProofs` | `ClinitRunsOnce` | `ClinitOnce` |
| | `SupersAreReady` | `SupersReady` |
| | `ReadyWhenReturned` | `ReadyOnReturn` (action property) |
| | `FailuresInFamily` | `FailureInFamily` |
| `GcReferencesProofs` | `NoneDangles` | `NoDanglingReferent` (conjunct of `NoReferenceLost`) |
| | `NoneIsLost` | `NoReferenceLost` |
| | `Refinement` | `ImplementsReferenceLifecycle` |

Assumptions about constants, all evaluated by TLC in the runs: the mutators of
`StopTheWorld` and of the stack scan, the workers and tasks of the pool, the
objects of the marking and of the finalizer lists are finite sets, and names
like `NoOne` and `Null` are not members of them; `Cardinality(Mutators) < Width`
(the code has 2^32); `NodeSize` and `MaxIndex` are positive; the kinds of GC
reasons are disjoint. `HierarchyAssumption` only types the class hierarchy: it
may be infinite and have circles. References and markers may be any sets.
Whatever bounds the models have for TLC (`MaxIndex`, `MaxUses`) is a parameter
here.

### StopTheWorldProofs

That a stopped world is quiet is not inductive: it depends on the
stopper having seen equal counters, on the counter being the number of mutators
inside, on the pending count being the length of the list, and on nobody
changing the list. `IInv` is the conjunction of

- `TypeOK`, `NeverFatal`;
- `ControlInv`: which control points and return points go together, `inSafe`
  and membership of the list as functions of the control point;
- `LockInv`: who holds the list lock and `stwMutex` at which point;
- `PendingInv`: while a stop is pending the pending count is the size of the
  list, and it is nonzero only then;
- `CountIsExact`: the low counter is the number of mutators at `CountedPCs`;
- `DetachNotInterrupted`;
- `QuietInv`: the owner of a stopped world has nothing running.

The counting lemmas (`CountUp`, `CountDown`) say how the cardinality of the
counted set follows one thread's step. The key lemma is `CheckPasses`: if
the check finds both counters equal, the counted mutators are a subset of the
list as large as the list, so every listed mutator is counted and none is
running; and they can never be more, which makes the FATAL branch unreachable.
There is one lemma per conjunct with one step per action. The refinement uses
`IInv` to show that there is at most one owner.

`WakeInv` is `StopperWoken`, `BlockedWoken` and `SleepInv`, which says what
a thread holds between loading the word and FUTEX_WAIT: a stopper a count that
is not the pending one, a mutator a pending count that is not 0. So if the
word has not changed since, the reason to sleep still holds. For the stopper, a
word that has become equal in both halves since the load has a thread in
`Wakers`, the one whose increment made it so; for a mutator, a pending count that
is 0 has the stopper before its FUTEX_WAKE.

### ConcurrentStackScanProofs

`scanState` decides who may touch a stack. `ClaimInv` says that it is `kInScan`
exactly while one of the two sides is between its claim and FinishStackScan,
and where a mutator with an unscanned stack can be; `TargetInv` follows every
stack of the snapshot to its mark task; `NumIsExact` is inductive with these,
because the set it counts changes by one element where the counter changes by
one. A `Mutator` is alive when the GC thread works on it since its thread
cannot pass the barrier. `FutexWoken` is inductive with `ClaimInv`: the futex
compares `scanState` with `kInScan`, which at that moment only the GC thread can
have stored.

### SatbMarkProofs

`SnapshotCovered` is not inductive: between a mutator's barrier and its store
another mutator may write the field, so the store may overwrite a value that
its own barrier did not record. `CoverInv` does not use such a field at all.
It says: a set that contains what is marked and recorded and is closed along
all edges except those of fields between barrier and store (`Cut`) and those
already read (`Black`) contains the snapshot. Quantifying over closed sets
takes the place of induction over paths. `LiveInv` says that what becomes live
during marking was in the snapshot or is new and marked; with it, and with the
empty work list at the end of the second pause, only what an exiting thread
has in its node can be lost. `RecordInv` is `EnqueuedPending` for the records
in nodes.

### MplThreadPoolProofs

`CountInv` (both counters are cardinalities) is inductive by itself.
`LimitInv` bounds not only the executing but also the waiting workers, who go
on to execute without another look at the limit. `QuietInv` is what allows the
limit to be changed: a stopped pool has no busy worker. `ExecutorInv` gives
every running task an executor, so that with the queue empty and all workers
waiting, what WaitFinish owes (`OwedInv`) is done.

`WakeInv` is `NoLostWakeup` and `LeaveInv` (nobody leaves a pool that was not
told to exit). The delicate part is `TaskWoken`: AddTask notifies one worker for
one task, and a notified worker that finds the queue empty sleeps again. The
invariant compares the number of queued tasks with that of workers which are
notified and have not slept again; a worker that takes a task lowers both, one
that sleeps again does so with an empty queue. There is one lemma per way out of
the worker's critical section (`SleepWakes`, `AwaitWakes`, `TakeWakes`,
`TakeNoneWakes`), shared by the actions that end in it.

### GcRequestProofs

A requester compares its number with `finishedGcIndex`; this means "served"
because the numbers ascend from the finished task through the executed one to
the queued ones (`QueueInv`), and because a request that no collection has yet
begun for is above the task that is executed (`RequestInv`), whether it has a
number of its own or that of an equal task that still waits. Both parts are stated
for a life that inherited no number (`Orderly`); nothing is assumed of when
requests come. `StoreInv` is
about the unlocked increment of `queueSyncIndex`, `PhaseInv` about the start
and the end of the GC thread: who waits before it serves has a task in the queue,
so that `taskQueue.Init` records the number as inherited.

`WakeInv` adds what sleeping threads rely on: `IdleInv` (from its look at the
queue to its sleep nobody adds a synchronous task), `SleepInv` (whoever sleeps on
`gcFinishedCondVar` found its condition false and it still is), `ServeInv` (a
request that is not answered is queued or being executed) and `JoinInv` (so is
the Terminate task). `ServeInv` uses the order of the numbers: the queue loses
its first task only, and Terminate, which ends the loop, is notified to all as
`kIndexExit`.

### FinalizationProofs

Each of the two working lists belongs to the holder of its lock and is empty when
the lock is free (`LockInv`), so that a swap gives an empty list back and no
object returns to `finalizables`; with disjoint lists (`ListInv`) this gives
`OnceInv`. `DueInv` says in which lists an object that was seen queued, and is
neither finalized nor an object of the zygote, can still be: the lock for
`runFinalizations` rules out one, the lock for `workingFinalizables` the other,
and the last round of the RP thread the third. `StopInv` relates the flags to the
thread that stops the RP thread. `NoticeInv` is about the notification without a
lock: objects that the RP thread's swap has not seen are announced by a Notify
still to come or by `processAll`, which the RP thread takes back only before its
next swap.

### ClassInitProofs

Every step of a thread is one of sixteen `Alternatives` on its innermost frame
(`StepAlternatives`), which change the stack by moving, removing or calling one
frame. `OwnInv` and `StateInv` say that at most one frame of all stacks holds a
class, that its thread owns the monitor once, and that its control point
determines the state word and `ran`. `NestInv` says what a nested call was made
for. For `SupersReady`, `ReadyInv` says of every loop over super classes: as
long as no exception is pending, or Java code further in could still catch it,
all entries before the one in progress are initialised or held by a frame
further out. An entry for an interface without default method counts as dealt
with when all it reaches is (`ReachedFacts`). For `FailureInFamily`, `LinkInv`
and `PendInv` follow the chain of super class calls back to the call by Java
code (`Start`): all its classes, and the origin of a pending exception, are in
the family of the class that was asked for.

### GcReferencesProofs

A list is a function from positions 1 to n into the references (`IsList`), and
`Listed` says that such a function exists for a head, a set of elements and the
links. What the code does to a list is a lemma about these functions:
`ListedPush` (DiscoverReference, and the hand-over to the enqueue list),
`ListedDrop` (Unlink behind `prev`, and the removal of the head), `ListedFrame`
(the links of other references do not matter). `ListInv` says that there are two
disjoint lists, one from where the collector currently holds the discovered
references (`Anchor`: the discover list, the head that the filter has taken, or
the element the pass has come to) and one from the enqueue list, with every
reference whose `pendingNext` is set and that was not enqueued; and, for the
filter, that `prev` is the element before `cur`. `CoverInv` says that a visited
reference that still has its referent is marked, in a list, found by the
finalizer marking, or about to be discovered by a marker: at the end of the
second pass the list is empty and nothing is found or raced for, so its referent
is marked and not swept. `StrongInv` does the same for what Java code holds.
`ListedChain` connects the lists with `Chain`; it needs induction over
positions, in the form of the least position that is not reached
(`LeastNumber`, from the library's theorem that `<` is well-founded on the
naturals).

The refinement needs of every step what happens to `Chain(list.enqueue)`. A step
that leaves the links of that list alone leaves the set alone; the two passes put
one reference in front, which is not in the list since `ListInv` has the lists
disjoint; EnqueueReferences removes the head. That the reference cleared has a
referent nobody holds follows from `StrongInv`: what Java code holds is marked
when the passes run, and they clear unmarked referents only.

### What is only model-checked

- Liveness (`StopCompletes`, `BlockedResume`, `BarrierPasses`,
  `NoThreadLeftWaiting`, `RequestReturns`, `RequestEnds`,
  `FinalizationEnds`, `ClearedIsEnqueued`, `AnalysisEnds`):
  fairness and ENABLED are outside the prover's reach. The part of them that is
  not about scheduling, that no wake-up is lost, is proved.
- `Dominance`: what its recursive functions compute (reachability, folds, closures)
  needs induction over data.

All other properties of the passing runs are theorems, both refinements included.

## 6. Not modelled

- Naive reference counting and the cycle collector: a header word of packed
  counts with CAS loops. A candidate for the next module; its renewal under the
  mark-sweep backup needs it first.
- ROS allocator: page map and concurrent sweep. Sweeping is one step in
  `SatbMark` and `GcReferences`.
- The RC reference processor, the RP thread's background collection.
- Exceptions, unwinding, linker, loader, interpreter: lookups in binary
  formats and machine frames, without a protocol between threads.
- Front ends, IR, the other phases of the middle end, the back end, driver: what
  makes them right is that programs keep their meaning, over inputs that
  no bounded instance stands for. They are by far the larger part of the
  repository.

## 7. Plan

Next modules, in this order:
1. naive RC: the header word and its CAS loops, against an abstract count;
2. the ROS allocator's page map and concurrent sweep; RC with mark-sweep backup;
3. the lock-free lists of SatbBuffer below `SatbMark`;
4. the compiler's own `MplScheduler`.

Next proofs: those of the next modules; for `Dominance`, with reachability as a
smallest closed set in place of a recursive function, that the idoms that the
fixpoint settles on are dominators.

## 8. Running

    tlc -config MCStopTheWorld.cfg MCStopTheWorld
    tlapm StopTheWorldProofs.tla

and likewise for the other `MC*` and `*Proofs` modules. Each proof takes a few
minutes.
