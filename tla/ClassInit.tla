------------------------------ MODULE ClassInit ------------------------------
(***************************************************************************)
(* Initialisation of Java classes by competing threads:                    *)
(* src/src/mrt/maplert/src/mrt_class_init.cpp.                             *)
(*                                                                         *)
(* A thread that touches a class whose state word is not "initialized"     *)
(* enters MRT_TryInitClass or, from the SIGSEGV handler,                   *)
(* MRT_TryInitClassOnDemand.  TryInitClass reads the state without a lock; *)
(* InitClassImpl takes the monitor of the class object, reads the state    *)
(* again, initialises the super classes and interfaces, and runs <clinit>, *)
(* all of it while it holds the monitor.  <clinit> is Java code: it may    *)
(* touch further classes, catch what they throw, or throw.  The calls of a *)
(* thread nest, so a thread has a stack of frames; a pending exception is  *)
(* a per-thread variable that the C++ code tests only where it says so.    *)
(***************************************************************************)
EXTENDS Integers, Sequences, FiniteSets

CONSTANTS
    Threads,
    Classes,     \* classes and interfaces
    Interfaces,  \* the classes for which IsInterface() holds
    Defaults,    \* the interfaces that declare a default method
    Supers,      \* the superclass array: super class first, then interfaces
    Missing,     \* an entry of a superclass array that is not defined
    HasClinit,   \* the classes with a <clinit>
    Uses,        \* the classes that the <clinit> of a class may touch
    Throwers,    \* the classes whose <clinit> may throw
    MaxUses,     \* bound: touches of a class by one <clinit>
    NoOne        \* no thread; no class

ASSUME HierarchyAssumption ==
    /\ Interfaces \subseteq Classes /\ Defaults \subseteq Interfaces
    /\ HasClinit \subseteq Classes /\ Throwers \subseteq HasClinit
    /\ Supers \in [Classes -> Seq(Classes \cup {Missing})]
    /\ Uses \in [Classes -> SUBSET Classes]
    /\ Missing \notin Classes /\ NoOne \notin Classes \cup Threads \cup {Missing}
    /\ MaxUses \in Nat

VARIABLES
    state,    \* ClassMetadata::initState
    monitor,  \* the re-entrant monitor of the class object
    stack,    \* the nested calls of each thread, innermost last
    pend,     \* the pending exception: the class it is about, or NoOne
    ran       \* history: how often <clinit> of a class was started

vars == <<state, monitor, stack, pend, ran>>

ClassInitState == {"uninitialized", "initializing", "failed", "initialized"}

(* A frame "init" is a call of TryInitClass, a frame "supers" a call of    *)
(* InitSuperClasses on behalf of an interface that is not initialised      *)
(* itself.  i is the next entry of the superclass array; once <clinit>     *)
(* runs, i counts the classes it has touched.                              *)
Frame == [cls : Classes, kind : {"init", "supers"}, rec : BOOLEAN,
          pc : {"try", "enter", "supers", "clinit", "exit"}, i : Nat]

InitFrame(c, rec) == [cls |-> c, kind |-> "init", rec |-> rec, pc |-> "try", i |-> 1]
SupersFrame(c) == [cls |-> c, kind |-> "supers", rec |-> TRUE, pc |-> "supers", i |-> 1]

Init ==
    /\ state = [c \in Classes |-> "uninitialized"]
    /\ monitor = [c \in Classes |-> [owner |-> NoOne, depth |-> 0]]
    /\ stack = [t \in Threads |-> << >>]
    /\ pend = [t \in Threads |-> NoOne]
    /\ ran = [c \in Classes |-> 0]

-----------------------------------------------------------------------------
Top(t) == stack[t][Len(stack[t])]
At(t, pc) == stack[t] # << >> /\ Top(t).pc = pc
Goto(t, pc) == stack' = [stack EXCEPT ![t][Len(stack[t])].pc = pc]
Push(s, f) == Append(s, f)
Pop(s) == SubSeq(s, 1, Len(s) - 1)
Return(t) == stack' = [stack EXCEPT ![t] = Pop(@)]
Throw(t, c) == pend' = [pend EXCEPT ![t] = c]

(* The monitor of a class object is re-entrant. *)
Free(t, c) == monitor[c].owner \in {NoOne, t}
MonitorEnter(t, c) == monitor' = [monitor EXCEPT ![c] = [owner |-> t, depth |-> @.depth + 1]]
MonitorExit(t, c) ==
    monitor' = [monitor EXCEPT ![c] =
        [owner |-> IF @.depth = 1 THEN NoOne ELSE t, depth |-> @.depth - 1]]

-----------------------------------------------------------------------------
(* MRT_TryInitClass and MRT_TryInitClassOnDemand from Java code outside    *)
(* any <clinit>.  An interface is initialised without its super            *)
(* interfaces.                                                             *)
Request(t) ==
    /\ stack[t] = << >> /\ pend[t] = NoOne
    /\ \E c \in Classes : stack' = [stack EXCEPT ![t] = <<InitFrame(c, c \notin Interfaces)>>]
    /\ UNCHANGED <<state, monitor, pend, ran>>

(* The unlocked test at the head of TryInitClass. *)
TryInitClass(t) ==
    /\ At(t, "try")
    /\ LET c == Top(t).cls IN
        \/ /\ state[c] \in {"uninitialized", "initializing"}
           /\ Goto(t, "enter") /\ UNCHANGED pend
        \/ state[c] = "failed" /\ Throw(t, c) /\ Return(t)
        \/ state[c] = "initialized" /\ Return(t) /\ UNCHANGED pend
    /\ UNCHANGED <<state, monitor, ran>>

(* Without the second test of the state under the monitor. *)
MutantInitClassImpl(t) ==
    /\ At(t, "enter")
    /\ LET c == Top(t).cls IN
        /\ Free(t, c)
        /\ MonitorEnter(t, c)
        /\ state' = [state EXCEPT ![c] = "initializing"]
        /\ Goto(t, "supers") /\ UNCHANGED <<pend, ran>>

(* RecordKlassInitializing returns with the monitor still held. *)
MutantMonitorLeak(t) ==
    /\ At(t, "enter")
    /\ LET c == Top(t).cls IN
        /\ Free(t, c)
        /\ \/ /\ state[c] = "failed"
              /\ Throw(t, c) /\ Return(t) /\ UNCHANGED <<state, monitor>>
           \/ /\ state[c] = "initialized"
              /\ Return(t) /\ UNCHANGED <<state, monitor, pend>>
           \/ /\ state[c] = "initializing" /\ MonitorEnter(t, c)
              /\ Return(t) /\ UNCHANGED <<state, pend>>
           \/ /\ state[c] = "uninitialized" /\ MonitorEnter(t, c)
              /\ state' = [state EXCEPT ![c] = "initializing"]
              /\ Goto(t, "supers") /\ UNCHANGED pend
    /\ UNCHANGED ran

(* RecordKlassInitFailed unlocks but does not throw. *)
MutantSilentFailure(t) ==
    /\ At(t, "enter")
    /\ LET c == Top(t).cls IN
        /\ Free(t, c)
        /\ \/ /\ state[c] # "uninitialized"
              /\ Return(t) /\ UNCHANGED <<state, monitor, pend>>
           \/ /\ state[c] = "uninitialized" /\ MonitorEnter(t, c)
              /\ state' = [state EXCEPT ![c] = "initializing"]
              /\ Goto(t, "supers") /\ UNCHANGED pend
    /\ UNCHANGED ran

(* The monitor and the second test of the state.  A failed, initialised or *)
(* recursively initialised class is unlocked again and reported            *)
(* (RecordKlassInitFailed, RecordKlassInitialized, RecordKlassInitializing) *)
(* before anybody can see the monitor taken.                               *)
InitClassImpl(t) ==
    /\ At(t, "enter")
    /\ LET c == Top(t).cls IN
        /\ Free(t, c)
        /\ \/ /\ state[c] = "failed"
              /\ Throw(t, c) /\ Return(t) /\ UNCHANGED <<state, monitor>>
           \/ /\ state[c] \in {"initializing", "initialized"}
              /\ Return(t) /\ UNCHANGED <<state, monitor, pend>>
           \/ /\ state[c] = "uninitialized" /\ MonitorEnter(t, c)
              /\ state' = [state EXCEPT ![c] = "initializing"]
              /\ Goto(t, "supers") /\ UNCHANGED pend
    /\ UNCHANGED ran

-----------------------------------------------------------------------------
SuperArray(f) == IF f.rec THEN Supers[f.cls] ELSE << >>

(* One round of the loop of InitSuperClasses.  What the call for one super *)
(* class throws stays pending and the loop goes on to the next.            *)
InitSuperClasses(t) ==
    /\ At(t, "supers") /\ Top(t).i <= Len(SuperArray(Top(t)))
    /\ LET s == Supers[Top(t).cls][Top(t).i]
           next == [stack[t] EXCEPT ![Len(stack[t])].i = @ + 1]
       IN
        \/ /\ s = Missing /\ Throw(t, Missing)
           /\ stack' = [stack EXCEPT ![t][Len(stack[t])].i = Len(Supers[Top(t).cls]) + 1]
        \/ /\ s \in (Classes \ Interfaces) \cup Defaults
           /\ stack' = [stack EXCEPT ![t] = Push(next, InitFrame(s, TRUE))]
           /\ UNCHANGED pend
        \/ /\ s \in Interfaces \ Defaults
           /\ stack' = [stack EXCEPT ![t] = Push(next, SupersFrame(s))]
           /\ UNCHANGED pend
    /\ UNCHANGED <<state, monitor, ran>>

SupersDone(t) == At(t, "supers") /\ Top(t).i > Len(SuperArray(Top(t)))

(* InitSuperClasses of an interface that is not initialised itself ends. *)
SupersReturn(t) ==
    /\ SupersDone(t) /\ Top(t).kind = "supers"
    /\ Return(t) /\ UNCHANGED <<state, monitor, pend, ran>>

SetInitState(c, s) == state' = [state EXCEPT ![c] = s]

(* Runs <clinit> whatever is pending. *)
MutantAfterSupers(t) ==
    /\ SupersDone(t) /\ Top(t).kind = "init"
    /\ LET c == Top(t).cls IN
        \/ /\ c \in HasClinit
           /\ ran' = [ran EXCEPT ![c] = @ + 1]
           /\ stack' = [stack EXCEPT ![t][Len(stack[t])] = [@ EXCEPT !.pc = "clinit", !.i = 0]]
           /\ UNCHANGED state
        \/ /\ c \notin HasClinit
           /\ SetInitState(c, "initialized") /\ Goto(t, "exit") /\ UNCHANGED ran
    /\ UNCHANGED <<monitor, pend>>

(* The rest of InitClassImpl after the super classes: the pending          *)
(* exception, then CallClinit or RecordNoClinitFuncState.                  *)
AfterSupers(t) ==
    /\ SupersDone(t) /\ Top(t).kind = "init"
    /\ LET c == Top(t).cls IN
        \/ /\ pend[t] # NoOne
           /\ SetInitState(c, "failed") /\ Goto(t, "exit") /\ UNCHANGED ran
        \/ /\ pend[t] = NoOne /\ c \in HasClinit
           /\ ran' = [ran EXCEPT ![c] = @ + 1]
           /\ stack' = [stack EXCEPT ![t][Len(stack[t])] = [@ EXCEPT !.pc = "clinit", !.i = 0]]
           /\ UNCHANGED state
        \/ /\ pend[t] = NoOne /\ c \notin HasClinit
           /\ SetInitState(c, "initialized") /\ Goto(t, "exit") /\ UNCHANGED ran
    /\ UNCHANGED <<monitor, pend>>

(* Java code goes on with the exception still pending. *)
MutantClinitUse(t) ==
    /\ At(t, "clinit") /\ Top(t).i < MaxUses
    /\ \E c \in Uses[Top(t).cls] :
        LET counted == [stack[t] EXCEPT ![Len(stack[t])].i = @ + 1] IN
        stack' = [stack EXCEPT ![t] =
                    IF state[c] = "initialized" THEN counted
                    ELSE Push(counted, InitFrame(c, c \notin Interfaces))]
    /\ UNCHANGED <<state, monitor, pend, ran>>

(* <clinit> touches a class; the compiled code enters the runtime only     *)
(* when the state word says that the class is not initialised.             *)
ClinitUse(t) ==
    /\ At(t, "clinit") /\ pend[t] = NoOne /\ Top(t).i < MaxUses
    /\ \E c \in Uses[Top(t).cls] :
        LET counted == [stack[t] EXCEPT ![Len(stack[t])].i = @ + 1] IN
        stack' = [stack EXCEPT ![t] =
                    IF state[c] = "initialized" THEN counted
                    ELSE Push(counted, InitFrame(c, c \notin Interfaces))]
    /\ UNCHANGED <<state, monitor, pend, ran>>

(* <clinit> catches what the touched class threw. *)
ClinitCatch(t) ==
    /\ At(t, "clinit") /\ pend[t] # NoOne
    /\ Throw(t, NoOne) /\ UNCHANGED <<state, monitor, stack, ran>>

(* The end of CallClinit: <clinit> returns, with an exception of its own,  *)
(* with one it did not catch, or with none.                                *)
ClinitEnd(t) ==
    /\ At(t, "clinit")
    /\ LET c == Top(t).cls IN
        \/ pend[t] # NoOne /\ SetInitState(c, "failed") /\ UNCHANGED pend
        \/ /\ pend[t] = NoOne /\ c \in Throwers
           /\ Throw(t, c) /\ SetInitState(c, "failed")
        \/ pend[t] = NoOne /\ SetInitState(c, "initialized") /\ UNCHANGED pend
    /\ Goto(t, "exit") /\ UNCHANGED <<monitor, ran>>

(* MonitorExit at the end of InitClassImpl. *)
ExitImpl(t) ==
    /\ At(t, "exit")
    /\ MonitorExit(t, Top(t).cls) /\ Return(t) /\ UNCHANGED <<state, pend, ran>>

(* The exception reaches the Java code that made the outermost request. *)
Delivered(t) ==
    /\ stack[t] = << >> /\ pend[t] # NoOne
    /\ Throw(t, NoOne) /\ UNCHANGED <<state, monitor, stack, ran>>

Step(t) ==
    \/ TryInitClass(t) \/ InitClassImpl(t) \/ InitSuperClasses(t) \/ SupersReturn(t)
    \/ AfterSupers(t) \/ ClinitUse(t) \/ ClinitCatch(t) \/ ClinitEnd(t)
    \/ ExitImpl(t) \/ Delivered(t)

Next == \E t \in Threads : Request(t) \/ Step(t)

Spec == Init /\ [][Next]_vars

(* Every thread that is inside the runtime keeps running, and a free       *)
(* monitor goes to a thread that waits for it.                             *)
FairSpec == Spec /\ \A t \in Threads : WF_vars(Step(t))

-----------------------------------------------------------------------------
Frames(t) == {stack[t][k] : k \in 1..Len(stack[t])}
Holds(f) == f.kind = "init" /\ f.pc \in {"supers", "clinit", "exit"}

(* Type invariant of the class states, monitors and call stacks. *)
TypeOK ==
    /\ state \in [Classes -> ClassInitState]
    /\ monitor \in [Classes -> [owner : Threads \cup {NoOne}, depth : Nat]]
    /\ \A t \in Threads : Frames(t) \subseteq Frame
    /\ pend \in [Threads -> Classes \cup {Missing, NoOne}]
    /\ ran \in [Classes -> Nat]

(* A class stays "initializing" exactly as long as one thread is inside    *)
(* InitClassImpl for it, and that thread owns the monitor.  A class that   *)
(* were left "initializing", or whose monitor were not released on one of  *)
(* the early returns, would block all threads that need it.                *)
InitializingIsOwned ==
    \A c \in Classes :
        LET inside == {t \in Threads : \E f \in Frames(t) : f.cls = c /\ Holds(f)} IN
        /\ monitor[c].owner = (IF inside = {} THEN NoOne ELSE CHOOSE t \in inside : TRUE)
        /\ monitor[c].depth = Cardinality(inside)
        /\ state[c] = "initializing" => inside # {}

(* No <clinit> runs twice, whichever threads race for the class and        *)
(* however their calls nest, because only the owner of the monitor         *)
(* initialises a class.  (Checked together with the types.)                *)
ClinitOnce ==
    /\ TypeOK
    /\ \A c \in Classes : ran[c] <= 1
    /\ InitializingIsOwned

Entry == Classes \cup {Missing}
SuperSet(c) == IF c = Missing THEN {} ELSE {Supers[c][k] : k \in 1..Len(Supers[c])}
Plain == Interfaces \ Defaults

(* The entries that can be reached from an entry along a relation: those   *)
(* in every set that contains it and is closed under the relation.         *)
Closed(D, above) == \A d \in D : above[d] \subseteq D
Closure(above) ==
    [c \in Entry |-> {d \in Entry : \A D \in SUBSET Entry :
                                       c \in D /\ Closed(D, above) => d \in D}]

SuperSets == [d \in Entry |-> SuperSet(d)]
PlainSupers == [d \in Entry |-> SuperSet(d) \cap Plain]

(* A class and everything above it. *)
Family == Closure(SuperSets)

(* A class and the interfaces without default method that are above it     *)
(* with no other class or interface in between.                            *)
ThroughPlain == Closure(PlainSupers)

(* The entries of superclass arrays that the initialisation of c reaches:  *)
(* its own, and those behind interfaces without default method.            *)
Reached ==
    [c \in Entry |-> {s \in Entry \ Plain : \E d \in ThroughPlain[c] : s \in SuperSet(d)}]

ReadyFor(t, c) ==
    \/ state[c] = "initialized"
    \/ state[c] = "initializing" /\ monitor[c].owner = t

(* While <clinit> of a class runs, its super class and its default-method  *)
(* interfaces are initialised, or are being initialised further out by the *)
(* same thread: no exception of a super class is overlooked, and no thread *)
(* runs ahead of another one that still initialises the super class.       *)
SupersReady ==
    \A t \in Threads : \A f \in Frames(t) :
        f.pc = "clinit" /\ f.rec => \A s \in Reached[f.cls] : ReadyFor(t, s)

(* The step in which the innermost call of t ends without an exception. *)
Returns(t) ==
    /\ stack[t] # << >> /\ stack'[t] = Pop(stack[t])
    /\ Top(t).kind = "init" /\ pend'[t] = NoOne

ReadyAfter(t, c) ==
    \/ state'[c] = "initialized"
    \/ state'[c] = "initializing" /\ monitor'[c].owner = t

(* Java code that gets past the initialisation of a class without an       *)
(* exception finds it initialised, or in the middle of its own             *)
(* initialisation by the same thread; never in that of another thread, and *)
(* never failed.  It stays so, because a verdict is final: "class init     *)
(* state has been modified" is fatal for CallClinit.                       *)
ReadyOnReturn ==
    [][/\ \A t \in Threads : Returns(t) => ReadyAfter(t, Top(t).cls)
       /\ \A c \in Classes :
             state[c] \in {"failed", "initialized"} => state'[c] = state[c]]_vars

(* Every request ends when the <clinit> bodies do not wait for each other  *)
(* in a circle: no monitor is lost and no thread waits for ever.           *)
RequestEnds == \A t \in Threads : stack[t] # << >> ~> stack[t] = << >>

(* A class that failed before its own <clinit> ran was initialised on      *)
(* behalf of a class k, possibly itself, and something else above k had    *)
(* failed or is missing.  The exception stays pending while the loop over  *)
(* the super classes goes on, so an interface can fail for what its        *)
(* neighbour in the superclass array did; an exception that Java code has  *)
(* caught never makes an unrelated class fail.                             *)
FailureInFamily ==
    \A c \in Classes :
        state[c] = "failed" /\ ran[c] = 0 =>
            \E k \in Classes : c \in Family[k] /\
                \E d \in Family[k] \ {c} : d = Missing \/ state[d] = "failed"
=============================================================================
