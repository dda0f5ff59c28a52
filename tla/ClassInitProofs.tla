--------------------------- MODULE ClassInitProofs ---------------------------
(***************************************************************************)
(* Proofs about ClassInit for any threads and any class hierarchy.         *)
(*                                                                         *)
(* A class is held by at most one frame of all stacks, the one whose       *)
(* thread owns its monitor, and the control point of that frame determines *)
(* the state of the class.  The frames above a frame that initialises      *)
(* super classes work on its current superclass entry; the entries before  *)
(* it are ready unless an exception is pending.                            *)
(***************************************************************************)
EXTENDS ClassInit, FiniteSetTheorems, TLAPS

-----------------------------------------------------------------------------
(* The inductive invariant.                                                *)

TypeInv ==
    /\ state \in [Classes -> ClassInitState]
    /\ monitor \in [Classes -> [owner : Threads \cup {NoOne}, depth : Nat]]
    /\ stack \in [Threads -> Seq(Frame)]
    /\ pend \in [Threads -> Classes \cup {Missing, NoOne}]
    /\ ran \in [Classes -> Nat]

Depths(t) == 1 .. Len(stack[t])

\* The shape of a frame.
FrameInv ==
    \A t \in Threads : \A k \in Depths(t) :
       /\ stack[t][k].kind = "supers" => stack[t][k].pc = "supers" /\ stack[t][k].rec
       /\ stack[t][k].pc \in {"try", "enter"} => stack[t][k].i = 1
       /\ stack[t][k].pc = "supers" => stack[t][k].i >= 1

\* Only the innermost call can be about to enter or leave; the call that is
\* nested in a loop over super classes is for the entry before the next one.
NestInv ==
    \A t \in Threads : \A k \in Depths(t) :
       k < Len(stack[t]) =>
          /\ stack[t][k].pc \in {"supers", "clinit"}
          /\ stack[t][k].pc = "supers" =>
                /\ stack[t][k].i - 1 \in 1 .. Len(Supers[stack[t][k].cls])
                /\ stack[t][k + 1].cls = Supers[stack[t][k].cls][stack[t][k].i - 1]
                /\ stack[t][k + 1].rec
                /\ stack[t][k + 1].kind = "supers" <=> stack[t][k + 1].cls \in Plain

Holder(t, k, c) == k \in Depths(t) /\ stack[t][k].cls = c /\ Holds(stack[t][k])

\* The frame that holds a class, and the monitor.
OwnInv ==
    /\ \A t \in Threads : \A k \in Depths(t) : \A c \in Classes :
          Holder(t, k, c) => monitor[c].owner = t /\ monitor[c].depth = 1
    /\ \A t \in Threads : \A j, k \in Depths(t) : \A c \in Classes :
          Holder(t, j, c) /\ Holder(t, k, c) => j = k
    /\ \A c \in Classes : monitor[c].owner = NoOne => monitor[c].depth = 0
    /\ \A c \in Classes : \A t \in Threads :
          monitor[c].owner = t => \E k \in Depths(t) : Holder(t, k, c)

\* The state of a class and the frame that holds it.
Consistent(t, k, c) ==
    /\ stack[t][k].pc # "exit" => state[c] = "initializing"
    /\ stack[t][k].pc = "exit" => state[c] \in {"failed", "initialized"}
    /\ stack[t][k].pc = "exit" /\ state[c] = "failed" => pend[t] # NoOne
    /\ stack[t][k].pc = "supers" => ran[c] = 0
    /\ stack[t][k].pc = "clinit" => ran[c] = 1

StateInv ==
    /\ \A t \in Threads : \A k \in Depths(t) : \A c \in Classes :
          Holder(t, k, c) => Consistent(t, k, c)
    /\ \A c \in Classes : monitor[c].owner = NoOne => state[c] # "initializing"
    /\ \A c \in Classes : ran[c] <= 1 /\ (state[c] = "uninitialized" => ran[c] = 0)

\* Class c is initialised, or being initialised by t in a frame up to k.
ReadyAt(t, k, c) ==
    \/ state[c] = "initialized"
    \/ \E j \in 1 .. k : Holder(t, j, c) /\ stack[t][j].pc # "exit"

\* What the loop over the super classes has to do for entry s.
EntryReady(t, k, s) ==
    IF s \in Plain THEN \A r \in Reached[s] : r # Missing /\ ReadyAt(t, k, r)
    ELSE s # Missing /\ ReadyAt(t, k, s)

\* The entries of frame k of thread t that are dealt with: not the one that
\* a nested call works on.
Passed(t, k) ==
    IF k = Len(stack[t]) THEN 1 .. stack[t][k].i - 1 ELSE 1 .. stack[t][k].i - 2

EntriesReady(t, k) ==
    \A e \in Passed(t, k) :
       e <= Len(Supers[stack[t][k].cls]) => EntryReady(t, k, Supers[stack[t][k].cls][e])

ClinitAbove(t, k) == \E j \in Depths(t) : j > k /\ stack[t][j].pc = "clinit"

\* A loop that may still lead to <clinit> has left no super class behind.
ReadyInv ==
    /\ \A t \in Threads : \A k \in Depths(t) :
          stack[t][k].pc = "supers" /\ stack[t][k].rec /\ (pend[t] = NoOne \/ ClinitAbove(t, k)) =>
             EntriesReady(t, k)
    /\ \A t \in Threads : \A k \in Depths(t) :
          stack[t][k].pc = "clinit" /\ stack[t][k].rec =>
             \A s \in Reached[stack[t][k].cls] : s # Missing /\ ReadyAt(t, k, s)

\* Frame b of t was called by Java code, and all frames from it up to frame k
\* are calls for super classes.
Start(t, k, b) ==
    /\ b \in 1 .. k
    /\ b = 1 \/ stack[t][b - 1].pc = "clinit"
    /\ \A j \in b .. k - 1 : stack[t][j].pc = "supers"

\* Such a chain of calls stays above the class that Java code has asked for.
LinkInv ==
    \A t \in Threads : \A k \in Depths(t) :
       /\ \E b \in 1 .. k : Start(t, k, b)
       /\ \A b \in 1 .. k : Start(t, k, b) => stack[t][k].cls \in Family[stack[t][b].cls]

BrokenFamily(c) == \E d \in Family[c] : d = Missing \/ (d \in Classes /\ state[d] = "failed")

\* An exception that is pending in such a chain of calls comes from above the
\* class that Java code has asked for.
PendInv ==
    \A t \in Threads : \A k \in Depths(t) :
       k = Len(stack[t]) /\ stack[t][k].pc # "clinit" /\ pend[t] # NoOne =>
          \A b \in 1 .. k : Start(t, k, b) => BrokenFamily(stack[t][b].cls)

IInv ==
    /\ TypeInv /\ FrameInv /\ NestInv /\ OwnInv /\ StateInv
    /\ ReadyInv /\ LinkInv /\ PendInv /\ FailureInFamily

-----------------------------------------------------------------------------
(* The class hierarchy.                                                    *)

\* What a closure contains and is contained in.
LEMMA ClosureFacts ==
    ASSUME NEW above \in [Entry -> SUBSET Entry], NEW c \in Entry
    PROVE  /\ c \in Closure(above)[c] /\ Closure(above)[c] \subseteq Entry
           /\ Closed(Closure(above)[c], above)
           /\ \A D \in SUBSET Entry : c \in D /\ Closed(D, above) => Closure(above)[c] \subseteq D
<1> DEFINE S == {d \in Entry : \A D \in SUBSET Entry : c \in D /\ Closed(D, above) => d \in D}
<1>1. Closure(above)[c] = S
  BY DEF Closure
<1>2. c \in S /\ S \subseteq Entry
  OBVIOUS
<1>3. \A D \in SUBSET Entry : c \in D /\ Closed(D, above) => S \subseteq D
  OBVIOUS
<1>4. Closed(S, above)
  <2> SUFFICES ASSUME NEW d \in S, NEW e \in above[d] PROVE e \in S
    BY DEF Closed
  <2>1. d \in Entry /\ e \in Entry
    OBVIOUS
  <2>2. ASSUME NEW D \in SUBSET Entry, c \in D, Closed(D, above) PROVE e \in D
    <3>1. d \in D
      BY <2>2
    <3>2. QED
      BY <2>2, <3>1 DEF Closed
  <2>3. QED
    BY <2>1, <2>2
<1>5. QED
  BY <1>1, <1>2, <1>3, <1>4

\* Entries and their superclass arrays.
LEMMA SuperSetType ==
    /\ \A d \in Entry : SuperSet(d) \subseteq Entry
    /\ SuperSets \in [Entry -> SUBSET Entry] /\ PlainSupers \in [Entry -> SUBSET Entry]
    /\ Plain \subseteq Classes /\ Classes \subseteq Entry /\ Missing \in Entry
    /\ \A c \in Classes : SuperSet(c) = {Supers[c][k] : k \in 1 .. Len(Supers[c])}
<1>1. ASSUME NEW c \in Classes PROVE SuperSet(c) = {Supers[c][k] : k \in 1 .. Len(Supers[c])}
  BY HierarchyAssumption DEF SuperSet
<1>2. ASSUME NEW c \in Classes PROVE SuperSet(c) \subseteq Entry
  <2>1. Supers[c] \in Seq(Entry)
    BY HierarchyAssumption DEF Entry
  <2>2. \A k \in 1 .. Len(Supers[c]) : Supers[c][k] \in Entry
    BY <2>1
  <2>3. QED
    BY <1>1, <2>2
<1>3. \A d \in Entry : SuperSet(d) \subseteq Entry
  BY <1>2 DEF Entry, SuperSet
<1>4. QED
  BY <1>1, <1>3, HierarchyAssumption DEF SuperSets, PlainSupers, Plain, Entry

\* Everything above a member of a family belongs to the family.
LEMMA FamilyFacts ==
    ASSUME NEW c \in Entry
    PROVE  /\ c \in Family[c] /\ Family[c] \subseteq Entry
           /\ \A d \in Family[c] : SuperSet(d) \subseteq Family[c]
<1>1. /\ c \in Family[c] /\ Family[c] \subseteq Entry /\ Closed(Family[c], SuperSets)
  BY ClosureFacts, SuperSetType DEF Family
<1>2. QED
  BY <1>1 DEF Closed, SuperSets

\* What a class reaches is in its superclass array, or reached from an
\* interface without default method that is in it.
LEMMA ReachedFacts ==
    ASSUME NEW c \in Classes, NEW r \in Reached[c]
    PROVE  r \in Entry /\ \E k \in 1 .. Len(Supers[c]) :
              IF Supers[c][k] \in Plain THEN r \in Reached[Supers[c][k]] ELSE r = Supers[c][k]
<1>1. c \in Entry /\ Plain \subseteq Entry
  BY SuperSetType
<1>2. r \in Entry \ Plain /\ \E d \in ThroughPlain[c] : r \in SuperSet(d)
  BY <1>1 DEF Reached
<1>3. PICK d \in ThroughPlain[c] : r \in SuperSet(d)
  BY <1>2
<1> DEFINE above == SuperSet(c) \cap Plain
           D == {c} \cup {e \in Entry : \E p \in above : e \in ThroughPlain[p]}
<1>4. \A p \in above : p \in ThroughPlain[p] /\ Closed(ThroughPlain[p], PlainSupers)
                       /\ ThroughPlain[p] \subseteq Entry
  BY <1>1, ClosureFacts, SuperSetType DEF ThroughPlain
<1>5. D \in SUBSET Entry /\ c \in D
  BY <1>1
<1>6. Closed(D, PlainSupers)
  <2> SUFFICES ASSUME NEW e \in D, NEW s \in PlainSupers[e] PROVE s \in D
    BY DEF Closed
  <2>1. s \in Entry /\ e \in Entry
    BY <1>5, SuperSetType
  <2>2. CASE e = c
    <3>1. s \in above
      BY <2>1, <2>2 DEF PlainSupers
    <3>2. QED
      BY <1>4, <2>1, <3>1
  <2>3. CASE e # c
    <3>1. PICK p \in above : e \in ThroughPlain[p]
      BY <2>3
    <3>2. s \in ThroughPlain[p]
      BY <1>4, <3>1 DEF Closed
    <3>3. QED
      BY <2>1, <3>2
  <2>4. QED
    BY <2>2, <2>3
<1>7. ThroughPlain[c] \subseteq D
  BY <1>1, <1>5, <1>6, ClosureFacts, SuperSetType DEF ThroughPlain
<1>8. \A s \in SuperSet(c) : \E k \in 1 .. Len(Supers[c]) : s = Supers[c][k]
  BY SuperSetType
<1>9. CASE d = c
  BY <1>2, <1>3, <1>8, <1>9
<1>10. CASE d # c
  <2>1. PICK p \in above : d \in ThroughPlain[p]
    BY <1>7, <1>10
  <2>2. p \in Plain /\ p \in Entry /\ r \in Reached[p]
    BY <1>1, <1>2, <1>3, <2>1 DEF Reached
  <2>3. QED
    BY <1>2, <1>8, <2>1, <2>2
<1>11. QED
  BY <1>9, <1>10


-----------------------------------------------------------------------------
(* Steps of a stack.                                                       *)

Size(t) == Len(stack[t])

\* The frames of t up to m and all other stacks stay as they are.
Kept(t, m) ==
    /\ stack' \in [Threads -> Seq(Frame)]
    /\ \A u \in Threads \ {t} : stack'[u] = stack[u]
    /\ \A k \in 1 .. m : stack'[t][k] = stack[t][k]

\* The innermost frame goes to pc and i.
TopAt(t, pc, i) ==
    /\ stack'[t][Size(t)].cls = Top(t).cls /\ stack'[t][Size(t)].kind = Top(t).kind
    /\ stack'[t][Size(t)].rec = Top(t).rec
    /\ stack'[t][Size(t)].pc = pc /\ stack'[t][Size(t)].i = i

Moved(t, pc, i) == Kept(t, Size(t) - 1) /\ Len(stack'[t]) = Size(t) /\ TopAt(t, pc, i)

\* The innermost frame is gone.
Popped(t) == Kept(t, Size(t) - 1) /\ Len(stack'[t]) = Size(t) - 1

\* The innermost frame goes on to i and calls g.
Called(t, i, g) ==
    /\ Kept(t, Size(t) - 1) /\ Len(stack'[t]) = Size(t) + 1
    /\ TopAt(t, Top(t).pc, i) /\ stack'[t][Size(t) + 1] = g

LEMMA StackType ==
    ASSUME TypeInv, NEW t \in Threads
    PROVE  /\ stack[t] \in Seq(Frame) /\ Size(t) \in Nat /\ Depths(t) = 1 .. Size(t)
           /\ \A k \in Depths(t) : stack[t][k] \in Frame
           /\ stack[t] # << >> => Size(t) \in Depths(t) /\ Size(t) >= 1 /\ Top(t) \in Frame
           /\ stack[t] = << >> => Size(t) = 0
           /\ Top(t) = stack[t][Size(t)]
  BY DEF TypeInv, Size, Depths, Top

LEMMA ChangeStep ==
    ASSUME TypeInv, NEW t \in Threads, stack[t] # << >>, NEW f \in Frame,
           f.cls = Top(t).cls, f.kind = Top(t).kind, f.rec = Top(t).rec,
           stack' = [stack EXCEPT ![t] = [stack[t] EXCEPT ![Len(stack[t])] = f]]
    PROVE  Moved(t, f.pc, f.i)
<1> DEFINE new == [stack[t] EXCEPT ![Len(stack[t])] = f]
<1>1. stack[t] \in Seq(Frame) /\ Len(stack[t]) \in Nat /\ Len(stack[t]) >= 1
  BY StackType DEF Size
<1>2. /\ new \in Seq(Frame) /\ Len(new) = Len(stack[t]) /\ new[Len(stack[t])] = f
      /\ \A k \in 1 .. Len(stack[t]) - 1 : new[k] = stack[t][k]
  BY <1>1
<1> HIDE DEF new
<1>3. stack' = [stack EXCEPT ![t] = new] /\ stack \in [Threads -> Seq(Frame)]
  BY DEF new, TypeInv
<1>4. QED
  BY <1>2, <1>3 DEF Moved, TopAt, Kept, Size

LEMMA ReturnStep ==
    ASSUME TypeInv, NEW t \in Threads, stack[t] # << >>, Return(t)
    PROVE  Popped(t)
<1> DEFINE new == SubSeq(stack[t], 1, Len(stack[t]) - 1)
<1>1. stack[t] \in Seq(Frame) /\ Len(stack[t]) \in Nat /\ Len(stack[t]) >= 1
  BY StackType DEF Size
<1>2. /\ new \in Seq(Frame) /\ Len(new) = Len(stack[t]) - 1
      /\ \A k \in 1 .. Len(stack[t]) - 1 : new[k] = stack[t][k]
  BY <1>1
<1>3. stack' = [stack EXCEPT ![t] = new] /\ stack \in [Threads -> Seq(Frame)]
  BY DEF TypeInv, Return, Pop
<1> HIDE DEF new
<1>4. QED
  BY <1>2, <1>3 DEF Popped, Kept, Size

LEMMA PushStep ==
    ASSUME TypeInv, NEW t \in Threads, stack[t] # << >>, NEW f \in Frame, NEW g \in Frame,
           f.cls = Top(t).cls, f.kind = Top(t).kind, f.rec = Top(t).rec, f.pc = Top(t).pc,
           stack' = [stack EXCEPT ![t] = Append([stack[t] EXCEPT ![Len(stack[t])] = f], g)]
    PROVE  Called(t, f.i, g)
<1> DEFINE old == [stack[t] EXCEPT ![Len(stack[t])] = f]
           new == Append(old, g)
<1>1. stack[t] \in Seq(Frame) /\ Len(stack[t]) \in Nat /\ Len(stack[t]) >= 1
  BY StackType DEF Size
<1>2. /\ old \in Seq(Frame) /\ Len(old) = Len(stack[t]) /\ old[Len(stack[t])] = f
      /\ \A k \in 1 .. Len(stack[t]) - 1 : old[k] = stack[t][k]
  BY <1>1
<1>3. stack' = [stack EXCEPT ![t] = new] /\ stack \in [Threads -> Seq(Frame)]
  BY DEF TypeInv
<1> HIDE DEF old
<1>4. /\ new \in Seq(Frame) /\ Len(new) = Len(stack[t]) + 1 /\ new[Len(stack[t]) + 1] = g
      /\ \A k \in 1 .. Len(stack[t]) : new[k] = old[k]
  BY <1>1, <1>2
<1> HIDE DEF new
<1>5. QED
  BY <1>1, <1>2, <1>3, <1>4 DEF Called, TopAt, Kept, Size

\* The frames that are called.
LEMMA FrameTypes ==
    ASSUME NEW c \in Classes, NEW rec \in BOOLEAN
    PROVE  InitFrame(c, rec) \in Frame /\ SupersFrame(c) \in Frame
  BY DEF InitFrame, SupersFrame, Frame

LEMMA GotoStep ==
    ASSUME TypeInv, NEW t \in Threads, stack[t] # << >>,
           NEW pc \in {"try", "enter", "supers", "clinit", "exit"}, Goto(t, pc)
    PROVE  Moved(t, pc, Top(t).i)
<1> DEFINE f == [Top(t) EXCEPT !.pc = pc]
<1>1. Top(t) \in Frame
  BY StackType
<1>2. /\ f \in Frame /\ f.cls = Top(t).cls /\ f.kind = Top(t).kind /\ f.rec = Top(t).rec
      /\ f.pc = pc /\ f.i = Top(t).i
  BY <1>1 DEF Frame
<1>3. stack' = [stack EXCEPT ![t] = [stack[t] EXCEPT ![Len(stack[t])] = f]]
  BY DEF Goto, Top
<1> HIDE DEF f
<1>4. QED
  BY <1>2, <1>3, ChangeStep

-----------------------------------------------------------------------------
(* The alternatives of the actions, in terms of the innermost frame.       *)

Inside(t, pc) == Size(t) >= 1 /\ Size(t) \in Depths(t) /\ Top(t) \in Frame /\ Top(t).pc = pc
OnlyStack == UNCHANGED <<state, monitor, pend, ran>>

\* Java code asks for a class.
Begins(t) ==
    /\ Size(t) = 0 /\ pend[t] = NoOne /\ OnlyStack
    /\ \E c \in Classes : \E rec \in BOOLEAN :
          Kept(t, 0) /\ Len(stack'[t]) = 1 /\ stack'[t][1] = InitFrame(c, rec)

\* The unlocked test finds the class not initialised.
Tries(t) == Inside(t, "try") /\ Moved(t, "enter", Top(t).i) /\ OnlyStack

\* The class has failed before.
Refuses(t) ==
    /\ Inside(t, "try") \/ Inside(t, "enter")
    /\ state[Top(t).cls] = "failed" /\ Throw(t, Top(t).cls)
    /\ Popped(t) /\ UNCHANGED <<state, monitor, ran>>

\* The class is initialised, or being initialised by the same thread.
Accepts(t) ==
    /\ Inside(t, "try") \/ Inside(t, "enter")
    /\ \/ state[Top(t).cls] = "initialized"
       \/ state[Top(t).cls] = "initializing" /\ Free(t, Top(t).cls)
    /\ Popped(t) /\ OnlyStack

\* The thread takes the class.
Takes(t) ==
    /\ Inside(t, "enter") /\ Free(t, Top(t).cls) /\ state[Top(t).cls] = "uninitialized"
    /\ MonitorEnter(t, Top(t).cls) /\ SetInitState(Top(t).cls, "initializing")
    /\ Moved(t, "supers", Top(t).i) /\ UNCHANGED <<pend, ran>>

InLoop(t) ==
    /\ Inside(t, "supers") /\ Top(t).rec /\ Top(t).i >= 1
    /\ Top(t).i \in 1 .. Len(Supers[Top(t).cls])

\* The loop over the super classes: an undefined one, and a call.
Misses(t) ==
    /\ InLoop(t) /\ Supers[Top(t).cls][Top(t).i] = Missing /\ Throw(t, Missing)
    /\ Moved(t, "supers", Len(Supers[Top(t).cls]) + 1) /\ UNCHANGED <<state, monitor, ran>>

Climbs(t) ==
    /\ InLoop(t) /\ OnlyStack
    /\ \E s \in Classes : \E g \in Frame :
          /\ s = Supers[Top(t).cls][Top(t).i]
          /\ Called(t, Top(t).i + 1, g)
          /\ g = IF s \in Plain THEN SupersFrame(s) ELSE InitFrame(s, TRUE)

LoopDone(t) == Inside(t, "supers") /\ (Top(t).rec => Top(t).i > Len(Supers[Top(t).cls]))

\* The loop has ended, for an interface without default method.
Leaves(t) == LoopDone(t) /\ Top(t).kind = "supers" /\ Popped(t) /\ OnlyStack

\* A class fails because of its super classes.
Fails(t) ==
    /\ LoopDone(t) /\ Top(t).kind = "init" /\ pend[t] # NoOne
    /\ SetInitState(Top(t).cls, "failed") /\ Moved(t, "exit", Top(t).i)
    /\ UNCHANGED <<monitor, pend, ran>>

\* <clinit> starts.
Starts(t) ==
    /\ LoopDone(t) /\ Top(t).kind = "init" /\ pend[t] = NoOne
    /\ ran' = [ran EXCEPT ![Top(t).cls] = @ + 1] /\ Moved(t, "clinit", 0)
    /\ UNCHANGED <<state, monitor, pend>>

\* A class is initialised, without <clinit> or after it.
Succeeds(t) ==
    /\ (LoopDone(t) /\ Top(t).kind = "init") \/ Inside(t, "clinit")
    /\ pend[t] = NoOne
    /\ SetInitState(Top(t).cls, "initialized") /\ Moved(t, "exit", Top(t).i)
    /\ UNCHANGED <<monitor, pend, ran>>

\* <clinit> touches a class that is initialised, or calls the runtime.
Touches(t) == Inside(t, "clinit") /\ Moved(t, "clinit", Top(t).i + 1) /\ OnlyStack

Asks(t) ==
    /\ Inside(t, "clinit") /\ pend[t] = NoOne /\ OnlyStack
    /\ \E c \in Classes : \E rec \in BOOLEAN : Called(t, Top(t).i + 1, InitFrame(c, rec))

\* Java code catches an exception, in <clinit> or at the outermost level.
Catches(t) ==
    /\ Inside(t, "clinit") \/ Size(t) = 0
    /\ Throw(t, NoOne) /\ UNCHANGED <<state, monitor, stack, ran>>

\* <clinit> ends with an exception.
Throws(t) ==
    /\ Inside(t, "clinit") /\ SetInitState(Top(t).cls, "failed") /\ Moved(t, "exit", Top(t).i)
    /\ \E c \in Classes \cup {Missing} : Throw(t, c)
    /\ UNCHANGED <<monitor, ran>>

\* The thread gives the class back.
Releases(t) ==
    /\ Inside(t, "exit") /\ MonitorExit(t, Top(t).cls) /\ Popped(t)
    /\ UNCHANGED <<state, pend, ran>>

Alternatives(t) ==
    \/ Begins(t) \/ Tries(t) \/ Refuses(t) \/ Accepts(t) \/ Takes(t) \/ Misses(t) \/ Climbs(t)
    \/ Leaves(t) \/ Fails(t) \/ Starts(t) \/ Succeeds(t) \/ Touches(t) \/ Asks(t) \/ Catches(t)
    \/ Throws(t) \/ Releases(t)


\* Every step of a thread is one of these.
LEMMA StepAlternatives ==
    ASSUME TypeInv, FrameInv, NEW t \in Threads, Request(t) \/ Step(t)
    PROVE  Alternatives(t)
<1>1. CASE Request(t)
  <2>1. PICK c \in Classes : stack' = [stack EXCEPT ![t] = <<InitFrame(c, c \notin Interfaces)>>]
    BY <1>1 DEF Request
  <2> DEFINE f == InitFrame(c, c \notin Interfaces)
  <2>2. f \in Frame
    BY FrameTypes
  <2>3. stack' = [stack EXCEPT ![t] = <<f>>] /\ stack \in [Threads -> Seq(Frame)]
    BY <2>1 DEF TypeInv
  <2> HIDE DEF f
  <2>4. Kept(t, 0) /\ Len(stack'[t]) = 1 /\ stack'[t][1] = f
    BY <2>2, <2>3 DEF Kept
  <2>5. Size(t) = 0 /\ pend[t] = NoOne /\ OnlyStack
    BY <1>1, StackType DEF Request, OnlyStack
  <2>6. Begins(t)
    BY <2>4, <2>5 DEF Begins, f
  <2>7. QED
    BY <2>6 DEF Alternatives
<1>2. CASE Step(t)
  <2>1. ASSUME NEW pc, At(t, pc) PROVE Inside(t, pc) /\ stack[t] # << >>
    BY <2>1, StackType DEF At, Inside
  <2>2. ASSUME TryInitClass(t) PROVE Alternatives(t)
    <3>1. Inside(t, "try") /\ stack[t] # << >>
      BY <2>1, <2>2 DEF TryInitClass
    <3>2. CASE Goto(t, "enter") /\ UNCHANGED pend
      BY <2>2, <3>1, <3>2, GotoStep DEF TryInitClass, Tries, OnlyStack, Alternatives
    <3>3. CASE state[Top(t).cls] = "failed" /\ Throw(t, Top(t).cls) /\ Return(t)
      BY <2>2, <3>1, <3>3, ReturnStep DEF TryInitClass, Refuses, Alternatives
    <3>4. CASE state[Top(t).cls] = "initialized" /\ Return(t) /\ UNCHANGED pend
      BY <2>2, <3>1, <3>4, ReturnStep DEF TryInitClass, Accepts, OnlyStack, Alternatives
    <3>5. QED
      BY <2>2, <3>2, <3>3, <3>4 DEF TryInitClass
  <2>3. ASSUME InitClassImpl(t) PROVE Alternatives(t)
    <3>1. Inside(t, "enter") /\ stack[t] # << >> /\ Free(t, Top(t).cls) /\ UNCHANGED ran
      BY <2>1, <2>3 DEF InitClassImpl
    <3>2. CASE /\ state[Top(t).cls] = "failed" /\ Throw(t, Top(t).cls) /\ Return(t)
               /\ UNCHANGED <<state, monitor>>
      BY <3>1, <3>2, ReturnStep DEF Refuses, Alternatives
    <3>3. CASE /\ state[Top(t).cls] \in {"initializing", "initialized"} /\ Return(t)
               /\ UNCHANGED <<state, monitor, pend>>
      BY <3>1, <3>3, ReturnStep DEF Accepts, OnlyStack, Alternatives
    <3>4. CASE /\ state[Top(t).cls] = "uninitialized" /\ MonitorEnter(t, Top(t).cls)
               /\ state' = [state EXCEPT ![Top(t).cls] = "initializing"]
               /\ Goto(t, "supers") /\ UNCHANGED pend
      BY <3>1, <3>4, GotoStep DEF Takes, SetInitState, Alternatives
    <3>5. QED
      BY <2>3, <3>2, <3>3, <3>4 DEF InitClassImpl
  <2>4. ASSUME InitSuperClasses(t) PROVE Alternatives(t)
    <3> DEFINE c == Top(t).cls
               i == Top(t).i
               s == Supers[c][i]
    <3>1. Inside(t, "supers") /\ stack[t] # << >> /\ Top(t).i <= Len(SuperArray(Top(t)))
      BY <2>1, <2>4 DEF InitSuperClasses
    <3>2. c \in Classes /\ i \in Nat /\ i >= 1 /\ Top(t).rec \in BOOLEAN /\ Supers[c] \in Seq(Entry)
      <4>1. c \in Classes /\ i \in Nat /\ Top(t).rec \in BOOLEAN
        BY <3>1 DEF Inside, Frame
      <4>2. i >= 1
        BY <3>1, StackType DEF Inside, FrameInv
      <4>3. Supers[c] \in Seq(Entry)
        BY <4>1, HierarchyAssumption DEF Entry
      <4>4. QED
        BY <4>1, <4>2, <4>3
    <3>3. Top(t).rec /\ i \in 1 .. Len(Supers[c]) /\ Len(Supers[c]) \in Nat
      BY <3>1, <3>2 DEF SuperArray
    <3>4. InLoop(t) /\ s \in Entry
      BY <3>1, <3>2, <3>3 DEF InLoop
    <3>5. UNCHANGED <<state, monitor, ran>> /\ Top(t) \in Frame
      BY <2>4, <3>1 DEF InitSuperClasses, Inside
    <3> HIDE DEF c, i, s
    <3>6. CASE /\ s = Missing /\ Throw(t, Missing)
               /\ stack' = [stack EXCEPT ![t][Len(stack[t])].i = Len(Supers[c]) + 1]
      <4> DEFINE last == Len(Supers[c]) + 1
                 f == [Top(t) EXCEPT !.i = last]
      <4>0. last \in Nat
        BY <3>3
      <4> HIDE DEF last
      <4>1. /\ f \in Frame /\ f.cls = Top(t).cls /\ f.kind = Top(t).kind /\ f.rec = Top(t).rec
            /\ f.pc = Top(t).pc /\ f.i = last
        BY <3>5, <4>0 DEF Frame
      <4>2. stack' = [stack EXCEPT ![t] = [stack[t] EXCEPT ![Len(stack[t])] = f]]
        BY <3>6 DEF Top, last
      <4> HIDE DEF f
      <4>3. Moved(t, Top(t).pc, last)
        BY <3>1, <4>1, <4>2, ChangeStep
      <4>4. Misses(t)
        BY <3>1, <3>4, <3>5, <3>6, <4>3 DEF Misses, Inside, last, c, i, s
      <4>5. QED
        BY <4>4 DEF Alternatives
    <3> DEFINE f == [Top(t) EXCEPT !.i = @ + 1]
    <3>7. /\ f \in Frame /\ f.cls = Top(t).cls /\ f.kind = Top(t).kind /\ f.rec = Top(t).rec
          /\ f.pc = Top(t).pc /\ f.i = Top(t).i + 1
      BY <3>5 DEF Frame
    <3>8. [stack[t] EXCEPT ![Len(stack[t])].i = @ + 1] = [stack[t] EXCEPT ![Len(stack[t])] = f]
      BY DEF Top
    <3> HIDE DEF f
    <3>9. ASSUME NEW g \in Frame, UNCHANGED pend, s \in Classes,
                 stack' = [stack EXCEPT ![t] =
                             Push([stack[t] EXCEPT ![Len(stack[t])].i = @ + 1], g)],
                 g = IF s \in Plain THEN SupersFrame(s) ELSE InitFrame(s, TRUE)
          PROVE  Alternatives(t)
      <4>1. stack' = [stack EXCEPT ![t] = Append([stack[t] EXCEPT ![Len(stack[t])] = f], g)]
        BY <3>8, <3>9 DEF Push
      <4>2. Called(t, f.i, g)
        BY <3>1, <3>7, <4>1, PushStep
      <4>3. Climbs(t)
        BY <3>4, <3>5, <3>7, <3>9, <4>2 DEF Climbs, OnlyStack, c, i, s
      <4>4. QED
        BY <4>3 DEF Alternatives
    <3>10. CASE /\ s \in (Classes \ Interfaces) \cup Defaults /\ UNCHANGED pend
                /\ stack' = [stack EXCEPT ![t] =
                      Push([stack[t] EXCEPT ![Len(stack[t])].i = @ + 1], InitFrame(s, TRUE))]
      <4>1. s \in Classes /\ s \notin Plain
        BY <3>10, HierarchyAssumption DEF Plain
      <4>2. QED
        BY <3>9, <3>10, <4>1, FrameTypes
    <3>11. CASE /\ s \in Interfaces \ Defaults /\ UNCHANGED pend
                /\ stack' = [stack EXCEPT ![t] =
                      Push([stack[t] EXCEPT ![Len(stack[t])].i = @ + 1], SupersFrame(s))]
      <4>1. s \in Classes /\ s \in Plain
        BY <3>11, HierarchyAssumption DEF Plain
      <4>2. QED
        BY <3>9, <3>11, <4>1, FrameTypes
    <3>12. QED
      BY <2>4, <3>6, <3>10, <3>11 DEF InitSuperClasses, c, i, s
  <2>5. ASSUME SupersDone(t) PROVE LoopDone(t) /\ stack[t] # << >>
    BY <2>1, <2>5 DEF SupersDone, LoopDone, SuperArray
  <2>6. ASSUME SupersReturn(t) PROVE Alternatives(t)
    BY <2>5, <2>6, ReturnStep DEF SupersReturn, Leaves, OnlyStack, Alternatives
  <2>7. ASSUME AfterSupers(t) PROVE Alternatives(t)
    <3>1. /\ LoopDone(t) /\ stack[t] # << >> /\ Top(t).kind = "init"
          /\ UNCHANGED <<monitor, pend>>
      BY <2>5, <2>7 DEF AfterSupers
    <3>2. CASE /\ pend[t] # NoOne /\ SetInitState(Top(t).cls, "failed") /\ Goto(t, "exit")
               /\ UNCHANGED ran
      BY <3>1, <3>2, GotoStep DEF Fails, Alternatives
    <3>3. CASE /\ pend[t] = NoOne /\ ran' = [ran EXCEPT ![Top(t).cls] = @ + 1] /\ UNCHANGED state
               /\ stack' = [stack EXCEPT ![t][Len(stack[t])] = [@ EXCEPT !.pc = "clinit", !.i = 0]]
      <4> DEFINE f == [Top(t) EXCEPT !.pc = "clinit", !.i = 0]
      <4>1. Top(t) \in Frame
        BY <3>1 DEF LoopDone, Inside
      <4>2. /\ f \in Frame /\ f.cls = Top(t).cls /\ f.kind = Top(t).kind /\ f.rec = Top(t).rec
            /\ f.pc = "clinit" /\ f.i = 0
        BY <4>1 DEF Frame
      <4>3. stack' = [stack EXCEPT ![t] = [stack[t] EXCEPT ![Len(stack[t])] = f]]
        BY <3>3 DEF Top
      <4> HIDE DEF f
      <4>4. Moved(t, "clinit", 0)
        BY <3>1, <4>2, <4>3, ChangeStep
      <4>5. QED
        BY <3>1, <3>3, <4>4 DEF Starts, Alternatives
    <3>4. CASE /\ pend[t] = NoOne /\ SetInitState(Top(t).cls, "initialized") /\ Goto(t, "exit")
               /\ UNCHANGED ran
      BY <3>1, <3>4, GotoStep DEF Succeeds, Alternatives
    <3>5. QED
      BY <2>7, <3>2, <3>3, <3>4 DEF AfterSupers
  <2>8. ASSUME ClinitUse(t) PROVE Alternatives(t)
    <3>1. Inside(t, "clinit") /\ stack[t] # << >> /\ pend[t] = NoOne /\ OnlyStack
      BY <2>1, <2>8 DEF ClinitUse, OnlyStack
    <3> DEFINE f == [Top(t) EXCEPT !.i = @ + 1]
    <3>2. /\ f \in Frame /\ f.cls = Top(t).cls /\ f.kind = Top(t).kind /\ f.rec = Top(t).rec
          /\ f.pc = Top(t).pc /\ f.i = Top(t).i + 1
      BY <3>1 DEF Frame, Inside
    <3>3. [stack[t] EXCEPT ![Len(stack[t])].i = @ + 1] = [stack[t] EXCEPT ![Len(stack[t])] = f]
      BY DEF Top
    <3>4. Top(t).cls \in Classes /\ Top(t).pc = "clinit"
      BY <3>1 DEF Inside, Frame
    <3>5. PICK c \in Uses[Top(t).cls] :
             stack' = [stack EXCEPT ![t] =
                IF state[c] = "initialized" THEN [stack[t] EXCEPT ![Len(stack[t])] = f]
                ELSE Append([stack[t] EXCEPT ![Len(stack[t])] = f], InitFrame(c, c \notin Interfaces))]
      BY <2>8, <3>3 DEF ClinitUse, Push
    <3>6. c \in Classes
      BY <3>4, HierarchyAssumption
    <3> HIDE DEF f
    <3>7. CASE state[c] = "initialized"
      <4>1. Moved(t, "clinit", Top(t).i + 1)
        BY <3>1, <3>2, <3>4, <3>5, <3>7, ChangeStep
      <4>2. QED
        BY <3>1, <4>1 DEF Touches, Alternatives
    <3>8. CASE state[c] # "initialized"
      <4>1. InitFrame(c, c \notin Interfaces) \in Frame
        BY <3>6, FrameTypes
      <4>2. Called(t, Top(t).i + 1, InitFrame(c, c \notin Interfaces))
        BY <3>1, <3>2, <3>5, <3>8, <4>1, PushStep
      <4>3. Asks(t)
        BY <3>1, <3>6, <4>2 DEF Asks
      <4>4. QED
        BY <4>3 DEF Alternatives
    <3>9. QED
      BY <3>7, <3>8
  <2>9. ASSUME ClinitCatch(t) PROVE Alternatives(t)
    BY <2>1, <2>9 DEF ClinitCatch, Catches, Alternatives
  <2>10. ASSUME ClinitEnd(t) PROVE Alternatives(t)
    <3>1. /\ Inside(t, "clinit") /\ stack[t] # << >> /\ Goto(t, "exit") /\ UNCHANGED <<monitor, ran>>
          /\ Top(t).cls \in Classes
      BY <2>1, <2>10 DEF ClinitEnd, Inside, Frame
    <3>2. Moved(t, "exit", Top(t).i)
      BY <3>1, GotoStep
    <3>3. CASE pend[t] # NoOne /\ SetInitState(Top(t).cls, "failed") /\ UNCHANGED pend
      <4>1. pend[t] \in Classes \cup {Missing} /\ Throw(t, pend[t])
        BY <3>3 DEF Throw, TypeInv
      <4>2. QED
        BY <3>1, <3>2, <3>3, <4>1 DEF Throws, Alternatives
    <3>4. CASE Throw(t, Top(t).cls) /\ SetInitState(Top(t).cls, "failed")
      BY <3>1, <3>2, <3>4 DEF Throws, Alternatives
    <3>5. CASE pend[t] = NoOne /\ SetInitState(Top(t).cls, "initialized") /\ UNCHANGED pend
      BY <3>1, <3>2, <3>5 DEF Succeeds, Alternatives
    <3>6. QED
      BY <2>10, <3>3, <3>4, <3>5 DEF ClinitEnd
  <2>11. ASSUME ExitImpl(t) PROVE Alternatives(t)
    BY <2>1, <2>11, ReturnStep DEF ExitImpl, Releases, Alternatives
  <2>12. ASSUME Delivered(t) PROVE Alternatives(t)
    BY <2>12, StackType DEF Delivered, Catches, Alternatives
  <2>13. QED
    BY <1>2, <2>2, <2>3, <2>4, <2>6, <2>7, <2>8, <2>9, <2>10, <2>11, <2>12 DEF Step
<1>3. QED
  BY <1>1, <1>2

-----------------------------------------------------------------------------
(* The parts of the invariant.                                             *)

\* The innermost frame and the class it works on.
LEMMA TopFacts ==
    ASSUME TypeInv, FrameInv, NEW t \in Threads, Size(t) \in Depths(t)
    PROVE  /\ Top(t) = stack[t][Size(t)] /\ Top(t) \in Frame /\ Top(t).cls \in Classes
           /\ Top(t).i \in Nat /\ Top(t).rec \in BOOLEAN
           /\ Top(t).pc \in {"clinit", "exit"} => Top(t).kind = "init"
           /\ Holder(t, Size(t), Top(t).cls) <=> Holds(Top(t))
           /\ Supers[Top(t).cls] \in Seq(Entry) /\ Len(Supers[Top(t).cls]) \in Nat
           /\ \A j \in 1 .. Len(Supers[Top(t).cls]) : Supers[Top(t).cls][j] \in Entry
<1>1. Top(t) = stack[t][Size(t)] /\ Top(t) \in Frame
  BY StackType
<1>2. /\ Top(t).cls \in Classes /\ Top(t).i \in Nat /\ Top(t).rec \in BOOLEAN
      /\ Top(t).kind \in {"init", "supers"}
  BY <1>1 DEF Frame
<1>3. Top(t).pc \in {"clinit", "exit"} => Top(t).kind = "init"
  BY <1>1, <1>2 DEF FrameInv
<1>4. Supers[Top(t).cls] \in Seq(Entry)
  BY <1>2, HierarchyAssumption DEF Entry
<1>5. /\ Len(Supers[Top(t).cls]) \in Nat
      /\ \A j \in 1 .. Len(Supers[Top(t).cls]) : Supers[Top(t).cls][j] \in Entry
  BY <1>4
<1>6. QED
  BY <1>1, <1>2, <1>3, <1>4, <1>5 DEF Holder

\* What a step does to the stack of its thread.
LEMMA StackKinds ==
    ASSUME NEW t \in Threads, Alternatives(t)
    PROVE  \/ Begins(t)
           \/ Size(t) >= 1 /\ Size(t) \in Depths(t) /\ \E pc, i : Moved(t, pc, i)
           \/ Size(t) >= 1 /\ Size(t) \in Depths(t) /\ Popped(t)
           \/ Climbs(t) \/ Asks(t) \/ stack' = stack
  BY DEF Alternatives, Tries, Refuses, Accepts, Takes, Misses, Leaves, Fails, Starts, Succeeds,
         Touches, Catches, Throws, Releases, Inside, InLoop, LoopDone

\* Types.
LEMMA TypeStep ==
    ASSUME TypeInv, FrameInv, OwnInv, NEW t \in Threads, Alternatives(t)
    PROVE  TypeInv'
<1>1. stack' \in [Threads -> Seq(Frame)]
  <2>1. CASE Climbs(t) \/ Asks(t)
    BY <2>1 DEF Climbs, Asks, Called, Kept
  <2>2. CASE ~(Climbs(t) \/ Asks(t))
    BY <2>2, StackKinds DEF Begins, Moved, Popped, Kept, TypeInv
  <2>3. QED
    BY <2>1, <2>2
<1>2. pend' \in [Threads -> Classes \cup {Missing, NoOne}]
  <2>1. CASE Refuses(t) \/ Misses(t) \/ Throws(t) \/ Catches(t)
    <3>1. \E c \in Classes \cup {Missing, NoOne} : Throw(t, c)
      BY <2>1, TopFacts DEF Refuses, Misses, Throws, Catches, Inside
    <3>2. QED
      BY <3>1 DEF Throw, TypeInv
  <2>2. CASE ~(Refuses(t) \/ Misses(t) \/ Throws(t) \/ Catches(t))
    BY <2>2 DEF Alternatives, Begins, Tries, Accepts, Takes, Climbs, Leaves, Fails, Starts, Succeeds,
       Touches, Asks, Releases, OnlyStack, TypeInv
  <2>3. QED
    BY <2>1, <2>2
<1>3. state' \in [Classes -> ClassInitState]
  <2>1. CASE Takes(t) \/ Fails(t) \/ Succeeds(t) \/ Throws(t)
    <3>1. \E v \in ClassInitState : SetInitState(Top(t).cls, v)
      BY <2>1 DEF Takes, Fails, Succeeds, Throws, ClassInitState
    <3>2. QED
      BY <3>1 DEF SetInitState, TypeInv
  <2>2. CASE ~(Takes(t) \/ Fails(t) \/ Succeeds(t) \/ Throws(t))
    BY <2>2 DEF Alternatives, Begins, Tries, Refuses, Accepts, Misses, Climbs, Leaves, Starts, Touches,
       Asks, Catches, Releases, OnlyStack, TypeInv
  <2>3. QED
    BY <2>1, <2>2
<1>4. monitor' \in [Classes -> [owner : Threads \cup {NoOne}, depth : Nat]]
  <2>1. CASE Takes(t)
    <3>1. PICK c : c = Top(t).cls
      OBVIOUS
    <3>2. monitor[c].depth + 1 \in Nat /\ c \in Classes
      BY <2>1, <3>1, TopFacts DEF Takes, Inside, TypeInv
    <3>3. monitor' = [monitor EXCEPT ![c] = [owner |-> t, depth |-> monitor[c].depth + 1]]
      BY <2>1, <3>1 DEF Takes, MonitorEnter
    <3>4. [owner |-> t, depth |-> monitor[c].depth + 1] \in [owner : Threads \cup {NoOne}, depth : Nat]
      BY <3>2
    <3>5. QED
      BY <3>3, <3>4 DEF TypeInv
  <2>2. CASE Releases(t)
    <3>1. monitor[Top(t).cls].depth = 1 /\ Top(t).cls \in Classes
      BY <2>2, TopFacts DEF Releases, Inside, Holds, OwnInv
    <3>2. QED
      BY <2>2, <3>1 DEF Releases, MonitorExit, TypeInv
  <2>3. CASE ~(Takes(t) \/ Releases(t))
    BY <2>3 DEF Alternatives, Begins, Tries, Refuses, Accepts, Misses, Climbs, Leaves, Fails, Starts,
       Succeeds, Touches, Asks, Catches, Throws, OnlyStack, TypeInv
  <2>4. QED
    BY <2>1, <2>2, <2>3
<1>5. ran' \in [Classes -> Nat]
  <2>1. CASE Starts(t)
    <3>1. PICK c : c = Top(t).cls
      OBVIOUS
    <3>2. ran' = [ran EXCEPT ![c] = ran[c] + 1]
      BY <2>1, <3>1 DEF Starts
    <3>3. c \in Classes /\ ran[c] + 1 \in Nat
      BY <2>1, <3>1, TopFacts DEF Starts, LoopDone, Inside, TypeInv
    <3>4. QED
      BY <3>2, <3>3 DEF TypeInv
  <2>2. CASE ~Starts(t)
    BY <2>2 DEF Alternatives, Begins, Tries, Refuses, Accepts, Takes, Misses, Climbs, Leaves, Fails,
       Succeeds, Touches, Asks, Catches, Throws, Releases, OnlyStack, TypeInv
  <2>3. QED
    BY <2>1, <2>2
<1>6. QED
  BY <1>1, <1>2, <1>3, <1>4, <1>5 DEF TypeInv

\* A frame that a step of t leaves as it is, below the innermost one of t.
Old(t, u, k) ==
    k \in Depths(u) /\ stack'[u][k] = stack[u][k] /\ (u = t => k < Size(t))

\* What the frames are called for does not change.
SameCall(u, k) ==
    /\ stack'[u][k].cls = stack[u][k].cls /\ stack'[u][k].kind = stack[u][k].kind
    /\ stack'[u][k].rec = stack[u][k].rec

\* The frames after a step.
LEMMA KeptFrames ==
    ASSUME TypeInv, NEW t \in Threads, Kept(t, Size(t) - 1)
    PROVE  /\ \A u \in Threads \ {t} : Depths(u)' = Depths(u) /\ Len(stack'[u]) = Len(stack[u])
           /\ \A u \in Threads : \A k \in Depths(u) : Old(t, u, k) \/ (u = t /\ k = Size(t))
<1>1. Size(t) \in Nat /\ Depths(t) = 1 .. Size(t)
  BY StackType
<1>2. QED
  BY <1>1 DEF Kept, Old, Depths

LEMMA MovedFrames ==
    ASSUME TypeInv, NEW t \in Threads, NEW pc, NEW i, Moved(t, pc, i)
    PROVE  /\ \A u \in Threads : Depths(u)' = Depths(u) /\ Len(stack'[u]) = Len(stack[u])
           /\ \A u \in Threads : \A k \in Depths(u) : Old(t, u, k) \/ (u = t /\ k = Size(t))
           /\ \A u \in Threads : \A k \in Depths(u) : SameCall(u, k)
<1>1. Kept(t, Size(t) - 1) /\ Len(stack'[t]) = Len(stack[t]) /\ TopAt(t, pc, i)
  BY DEF Moved, Size
<1>2. Depths(t)' = Depths(t)
  BY <1>1 DEF Depths
<1>3. ASSUME NEW u \in Threads, NEW k \in Depths(u) PROVE SameCall(u, k)
  <2>1. CASE Old(t, u, k)
    BY <2>1 DEF Old, SameCall
  <2>2. CASE u = t /\ k = Size(t)
    BY <1>1, <2>2, StackType DEF TopAt, SameCall
  <2>3. QED
    BY <1>1, <2>1, <2>2, KeptFrames
<1>4. QED
  BY <1>1, <1>2, <1>3, KeptFrames

LEMMA PoppedFrames ==
    ASSUME TypeInv, NEW t \in Threads, Popped(t), Size(t) \in Depths(t)
    PROVE  /\ \A u \in Threads \ {t} : Depths(u)' = Depths(u) /\ Len(stack'[u]) = Len(stack[u])
           /\ Depths(t)' = Depths(t) \ {Size(t)} /\ Len(stack'[t]) = Size(t) - 1
           /\ \A u \in Threads : \A k \in Depths(u)' : Old(t, u, k)
<1>1. Kept(t, Size(t) - 1) /\ Len(stack'[t]) = Size(t) - 1
  BY DEF Popped
<1>2. Size(t) \in Nat /\ Depths(t) = 1 .. Size(t)
  BY StackType
<1>3. Depths(t)' = 1 .. Len(stack'[t])
  BY DEF Depths
<1>4. Depths(t)' = Depths(t) \ {Size(t)}
  BY <1>1, <1>2, <1>3
<1>5. QED
  BY <1>1, <1>4, KeptFrames

LEMMA CalledFrames ==
    ASSUME TypeInv, NEW t \in Threads, NEW i, NEW g, Called(t, i, g), Size(t) \in Depths(t)
    PROVE  /\ \A u \in Threads \ {t} : Depths(u)' = Depths(u) /\ Len(stack'[u]) = Len(stack[u])
           /\ Depths(t)' = Depths(t) \cup {Size(t) + 1} /\ Len(stack'[t]) = Size(t) + 1
           /\ \A u \in Threads : \A k \in Depths(u) : Old(t, u, k) \/ (u = t /\ k = Size(t))
           /\ \A u \in Threads : \A k \in Depths(u) :
                 SameCall(u, k) /\ stack'[u][k].pc = stack[u][k].pc
           /\ stack'[t][Size(t) + 1] = g /\ stack'[t][Size(t)].i = i
<1>1. Kept(t, Size(t) - 1) /\ Len(stack'[t]) = Size(t) + 1 /\ TopAt(t, Top(t).pc, i)
  BY DEF Called
<1>2. Size(t) \in Nat /\ Depths(t) = 1 .. Size(t)
  BY StackType
<1>3. Depths(t)' = 1 .. Len(stack'[t])
  BY DEF Depths
<1>4. Depths(t)' = Depths(t) \cup {Size(t) + 1}
  BY <1>1, <1>2, <1>3
<1>5. ASSUME NEW u \in Threads, NEW k \in Depths(u)
      PROVE  SameCall(u, k) /\ stack'[u][k].pc = stack[u][k].pc
  <2>1. CASE Old(t, u, k)
    BY <2>1 DEF Old, SameCall
  <2>2. CASE u = t /\ k = Size(t)
    BY <1>1, <2>2, StackType DEF TopAt, SameCall
  <2>3. QED
    BY <1>1, <2>1, <2>2, KeptFrames
<1>6. QED
  BY <1>1, <1>4, <1>5, KeptFrames DEF Called, TopAt

\* The shape of a frame.
Shaped(f) ==
    /\ f.kind = "supers" => f.pc = "supers" /\ f.rec
    /\ f.pc \in {"try", "enter"} => f.i = 1
    /\ f.pc = "supers" => f.i >= 1

LEMMA FrameStep ==
    ASSUME TypeInv, FrameInv, NEW t \in Threads, Alternatives(t)
    PROVE  FrameInv'
<1>1. \A u \in Threads : \A k \in Depths(u) : Shaped(stack[u][k])
  BY DEF FrameInv, Shaped
<1>2. ASSUME \A u \in Threads : \A k \in Depths(u)' : Shaped(stack'[u][k]) PROVE FrameInv'
  BY <1>2 DEF FrameInv, Shaped
<1>3. ASSUME NEW u \in Threads, NEW k \in Depths(u), Old(t, u, k) PROVE Shaped(stack'[u][k])
  BY <1>1, <1>3 DEF Old
<1>4. CASE Begins(t)
  <2> SUFFICES ASSUME NEW u \in Threads, NEW k \in Depths(u)' PROVE Shaped(stack'[u][k])
    BY <1>2
  <2>1. CASE u = t
    <3>1. Len(stack'[t]) = 1 /\ Shaped(stack'[t][1])
      BY <1>4 DEF Begins, InitFrame, Shaped
    <3>2. k = 1
      BY <2>1, <3>1 DEF Depths
    <3>3. QED
      BY <2>1, <3>1, <3>2
  <2>2. CASE u # t
    BY <1>1, <1>4, <2>2 DEF Begins, Kept, Depths
  <2>3. QED
    BY <2>1, <2>2
<1>5. ASSUME Size(t) \in Depths(t), NEW pc, NEW i, Moved(t, pc, i),
             Top(t).kind = "supers" => pc = "supers" /\ Top(t).rec,
             pc \in {"try", "enter"} => i = 1, pc = "supers" => i >= 1
      PROVE  FrameInv'
  <2>1. Shaped(stack'[t][Size(t)])
    BY <1>5 DEF Moved, TopAt, Shaped
  <2>2. QED
    BY <1>2, <1>3, <1>5, <2>1, MovedFrames
<1>6. ASSUME Size(t) \in Depths(t), Popped(t) PROVE FrameInv'
  BY <1>2, <1>3, <1>6, PoppedFrames DEF Old
<1>7. ASSUME Size(t) \in Depths(t), NEW i \in Nat, NEW g, Called(t, i, g), i >= 1, Shaped(g),
             Top(t).pc \in {"supers", "clinit"}
      PROVE  FrameInv'
  <2> SUFFICES ASSUME NEW u \in Threads, NEW k \in Depths(u)' PROVE Shaped(stack'[u][k])
    BY <1>2
  <2>1. Shaped(stack'[t][Size(t)])
    <3>1. Shaped(Top(t))
      BY <1>1, <1>7, StackType
    <3>2. QED
      BY <1>7, <3>1 DEF Called, TopAt, Shaped
  <2>2. Shaped(stack'[t][Size(t) + 1])
    BY <1>7 DEF Called
  <2>3. k \in Depths(u) \/ (u = t /\ k = Size(t) + 1)
    <3>1. CASE u = t
      BY <1>7, <3>1, CalledFrames
    <3>2. CASE u # t
      BY <1>7, <3>2, CalledFrames
    <3>3. QED
      BY <3>1, <3>2
  <2>4. QED
    BY <1>3, <1>7, <2>1, <2>2, <2>3, CalledFrames
<1>8. ASSUME Size(t) \in Depths(t)
      PROVE  /\ Top(t).i \in Nat /\ Len(Supers[Top(t).cls]) + 1 >= 1 /\ Shaped(Top(t))
             /\ Top(t).kind = "supers" => Top(t).pc = "supers"
  <2>1. Shaped(Top(t))
    BY <1>1, <1>8, StackType
  <2>2. Top(t).i \in Nat /\ Len(Supers[Top(t).cls]) + 1 >= 1
    BY <1>8, TopFacts
  <2>3. QED
    BY <2>1, <2>2 DEF Shaped
<1>9. CASE Tries(t) \/ Takes(t)
  <2>1. \E pc \in {"enter", "supers"} : Moved(t, pc, Top(t).i)
    BY <1>9 DEF Tries, Takes
  <2>2. Size(t) \in Depths(t) /\ Top(t).pc \in {"try", "enter"}
    BY <1>9 DEF Tries, Takes, Inside
  <2>3. Top(t).i = 1 /\ Top(t).kind # "supers" /\ Top(t).i >= 1
    BY <1>8, <2>2 DEF Shaped
  <2>4. QED
    BY <1>5, <2>1, <2>2, <2>3
<1>10. CASE Refuses(t) \/ Accepts(t) \/ Leaves(t) \/ Releases(t)
  BY <1>6, <1>10 DEF Refuses, Accepts, Leaves, Releases, LoopDone, Inside
<1>11. CASE Misses(t)
  <2>1. Size(t) \in Depths(t) /\ Top(t).rec /\ Moved(t, "supers", Len(Supers[Top(t).cls]) + 1)
    BY <1>11 DEF Misses, InLoop, Inside
  <2>2. QED
    BY <1>5, <1>8, <2>1
<1>12. CASE Fails(t) \/ Starts(t) \/ Succeeds(t) \/ Touches(t) \/ Throws(t)
  <2>1. Size(t) \in Depths(t) /\ \E pc \in {"clinit", "exit"} : \E i : Moved(t, pc, i)
    BY <1>12 DEF Fails, Starts, Succeeds, Touches, Throws, LoopDone, Inside
  <2>2. Top(t).kind # "supers"
    BY <1>8, <1>12, <2>1 DEF Fails, Starts, Succeeds, Touches, Throws, LoopDone, Inside
  <2>3. QED
    BY <1>5, <2>1, <2>2
<1>13. CASE Climbs(t) \/ Asks(t)
  <2>1. Size(t) \in Depths(t) /\ Top(t).pc \in {"supers", "clinit"}
    BY <1>13 DEF Climbs, Asks, InLoop, Inside
  <2>2. \E g : Called(t, Top(t).i + 1, g) /\ Shaped(g)
    <3>1. ASSUME NEW c, NEW rec PROVE Shaped(InitFrame(c, rec))
      BY DEF InitFrame, Shaped
    <3>2. ASSUME NEW c PROVE Shaped(SupersFrame(c))
      BY DEF SupersFrame, Shaped
    <3>3. CASE Climbs(t)
      <4>1. PICK s, g : /\ Called(t, Top(t).i + 1, g)
                        /\ g = (IF s \in Plain THEN SupersFrame(s) ELSE InitFrame(s, TRUE))
        BY <3>3 DEF Climbs
      <4>2. QED
        BY <3>1, <3>2, <4>1
    <3>4. CASE Asks(t)
      BY <3>1, <3>4 DEF Asks
    <3>5. QED
      BY <1>13, <3>3, <3>4
  <2>3. Top(t).i + 1 \in Nat /\ Top(t).i + 1 >= 1
    BY <1>8, <2>1
  <2>4. QED
    BY <1>7, <2>1, <2>2, <2>3
<1>14. CASE Catches(t)
  BY <1>14 DEF Catches, FrameInv, Depths
<1>15. QED
  BY <1>4, <1>9, <1>10, <1>11, <1>12, <1>13, <1>14 DEF Alternatives

Nested(f, g) ==
    /\ f.pc \in {"supers", "clinit"}
    /\ f.pc = "supers" =>
          /\ f.i - 1 \in 1 .. Len(Supers[f.cls]) /\ g.cls = Supers[f.cls][f.i - 1]
          /\ g.rec /\ (g.kind = "supers" <=> g.cls \in Plain)

\* The nesting of calls.
LEMMA NestStep ==
    ASSUME TypeInv, FrameInv, NestInv, NEW t \in Threads, Alternatives(t)
    PROVE  NestInv'
<1>1. \A u \in Threads : \A k \in Depths(u) :
         k < Len(stack[u]) => k + 1 \in Depths(u) /\ Nested(stack[u][k], stack[u][k + 1])
  <2>1. ASSUME NEW u \in Threads, NEW k \in Depths(u), k < Len(stack[u])
        PROVE  k + 1 \in Depths(u)
    BY <2>1, StackType DEF Size, Depths
  <2>2. QED
    BY <2>1 DEF NestInv, Nested
<1>2. ASSUME \A u \in Threads : \A k \in Depths(u)' :
                k < Len(stack'[u]) => Nested(stack'[u][k], stack'[u][k + 1])
      PROVE  NestInv'
  BY <1>2 DEF NestInv, Nested
<1>3. Size(t) \in Nat /\ Depths(t) = 1 .. Size(t) /\ \A u \in Threads : Depths(u) = 1 .. Size(u)
                                                                      /\ Size(u) \in Nat
  BY StackType
<1>4. ASSUME Begins(t) PROVE NestInv'
  <2> SUFFICES ASSUME NEW u \in Threads, NEW k \in Depths(u)', k < Len(stack'[u])
               PROVE  Nested(stack'[u][k], stack'[u][k + 1])
    BY <1>2
  <2>1. Kept(t, 0) /\ Len(stack'[t]) = 1 /\ Depths(u)' = 1 .. Len(stack'[u])
    BY <1>4 DEF Begins, Depths
  <2>2. u # t
    <3>1. ASSUME u = t PROVE FALSE
      <4>1. Len(stack'[u]) = 1
        BY <2>1, <3>1
      <4>2. k \in 1 .. 1 /\ k < 1
        BY <2>1, <4>1
      <4>3. QED
        BY <4>2
    <3>2. QED
      BY <3>1
  <2>3. stack'[u] = stack[u]
    BY <2>1, <2>2 DEF Kept
  <2>4. QED
    BY <1>1, <2>1, <2>3 DEF Depths
<1>5. ASSUME Size(t) >= 1, Size(t) \in Depths(t), NEW pc, NEW i, Moved(t, pc, i) PROVE NestInv'
  <2> SUFFICES ASSUME NEW u \in Threads, NEW k \in Depths(u)', k < Len(stack'[u])
               PROVE  Nested(stack'[u][k], stack'[u][k + 1])
    BY <1>2
  <2>1. k \in Depths(u) /\ k < Len(stack[u]) /\ Len(stack'[u]) = Len(stack[u])
    BY <1>5, MovedFrames
  <2>2. k + 1 \in Depths(u) /\ Nested(stack[u][k], stack[u][k + 1])
    BY <1>1, <2>1
  <2>3. stack'[u][k] = stack[u][k]
    BY <1>5, <2>1, MovedFrames DEF Old, Size
  <2>4. SameCall(u, k + 1)
    BY <1>5, <2>2, MovedFrames
  <2>5. QED
    BY <2>2, <2>3, <2>4 DEF Nested, SameCall
<1>6. ASSUME Size(t) >= 1, Size(t) \in Depths(t), Popped(t) PROVE NestInv'
  <2> SUFFICES ASSUME NEW u \in Threads, NEW k \in Depths(u)', k < Len(stack'[u])
               PROVE  Nested(stack'[u][k], stack'[u][k + 1])
    BY <1>2
  <2>1. Depths(u)' = 1 .. Len(stack'[u]) /\ Len(stack'[u]) \in Int
    <3>1. CASE u = t
      BY <1>3, <1>6, <3>1 DEF Popped, Depths
    <3>2. CASE u # t
      BY <1>3, <1>6, <3>2 DEF Popped, Kept, Depths, Size
    <3>3. QED
      BY <3>1, <3>2
  <2>2. k + 1 \in Depths(u)' /\ k \in Int
    BY <2>1
  <2>3. /\ k \in Depths(u) /\ k + 1 \in Depths(u) /\ stack'[u][k] = stack[u][k]
        /\ stack'[u][k + 1] = stack[u][k + 1]
    BY <1>6, <2>2, PoppedFrames DEF Old
  <2>4. k < Len(stack[u])
    BY <1>3, <2>2, <2>3 DEF Size
  <2>5. QED
    BY <1>1, <2>3, <2>4
<1>7. ASSUME Size(t) >= 1, Size(t) \in Depths(t), NEW i, NEW g, Called(t, i, g),
             Nested(stack'[t][Size(t)], g)
      PROVE  NestInv'
  <2> SUFFICES ASSUME NEW u \in Threads, NEW k \in Depths(u)', k < Len(stack'[u])
               PROVE  Nested(stack'[u][k], stack'[u][k + 1])
    BY <1>2
  <2>1. CASE u = t /\ k = Size(t)
    BY <1>7, <2>1 DEF Called
  <2>2. CASE ~(u = t /\ k = Size(t))
    <3>1. k \in Depths(u) /\ k < Len(stack[u])
      <4>1. CASE u = t
        <5>1. k < Size(t) + 1 /\ k \in Depths(t) \cup {Size(t) + 1} /\ k # Size(t)
          BY <1>7, <2>2, <4>1, CalledFrames
        <5>2. k \in Depths(t) /\ k < Size(t)
          BY <1>3, <5>1
        <5>3. QED
          BY <4>1, <5>2 DEF Size
      <4>2. CASE u # t
        BY <1>7, <4>2, CalledFrames
      <4>3. QED
        BY <4>1, <4>2
    <3>2. k + 1 \in Depths(u) /\ Nested(stack[u][k], stack[u][k + 1])
      BY <1>1, <3>1
    <3>3. stack'[u][k] = stack[u][k]
      BY <1>7, <2>2, <3>1, CalledFrames DEF Old
    <3>4. SameCall(u, k + 1)
      BY <1>7, <3>2, CalledFrames
    <3>5. QED
      BY <3>2, <3>3, <3>4 DEF Nested, SameCall
  <2>3. QED
    BY <2>1, <2>2
<1>8. ASSUME Climbs(t) PROVE NestInv'
  <2>1. PICK s \in Classes, g \in Frame :
          /\ s = Supers[Top(t).cls][Top(t).i] /\ Called(t, Top(t).i + 1, g)
          /\ g = IF s \in Plain THEN SupersFrame(s) ELSE InitFrame(s, TRUE)
    BY <1>8 DEF Climbs
  <2>2. /\ Size(t) >= 1 /\ Size(t) \in Depths(t) /\ Top(t).pc = "supers" /\ Top(t).i \in Nat
        /\ Top(t).i \in 1 .. Len(Supers[Top(t).cls])
    BY <1>8, TopFacts DEF Climbs, InLoop, Inside
  <2>3. g.cls = s /\ g.rec /\ (g.kind = "supers" <=> s \in Plain)
    BY <2>1 DEF InitFrame, SupersFrame
  <2>4. /\ stack'[t][Size(t)].pc = "supers" /\ stack'[t][Size(t)].cls = Top(t).cls
        /\ stack'[t][Size(t)].i = Top(t).i + 1
    BY <2>1, <2>2 DEF Called, TopAt
  <2>5. stack'[t][Size(t)].i - 1 = Top(t).i
    BY <2>2, <2>4
  <2>6. Nested(stack'[t][Size(t)], g)
    BY <2>1, <2>2, <2>3, <2>4, <2>5 DEF Nested
  <2>7. QED
    BY <1>7, <2>1, <2>2, <2>6
<1>9. ASSUME Asks(t) PROVE NestInv'
  <2>1. PICK c \in Classes, rec \in BOOLEAN : Called(t, Top(t).i + 1, InitFrame(c, rec))
    BY <1>9 DEF Asks
  <2>2. Size(t) >= 1 /\ Size(t) \in Depths(t) /\ stack'[t][Size(t)].pc = "clinit"
    BY <1>9, <2>1 DEF Asks, Inside, Called, TopAt
  <2>3. QED
    BY <1>7, <2>1, <2>2 DEF Nested
<1>10. ASSUME stack' = stack PROVE NestInv'
  BY <1>10 DEF NestInv, Depths
<1>11. QED
  BY <1>4, <1>5, <1>6, <1>8, <1>9, <1>10, StackKinds

\* The frames that hold a class after a step.
LEMMA HoldersMoved ==
    ASSUME TypeInv, NEW t \in Threads, NEW pc, NEW i, Moved(t, pc, i), Size(t) \in Depths(t),
           NEW u \in Threads, NEW k, NEW c
    PROVE  /\ ~(u = t /\ k = Size(t)) => (Holder(u, k, c)' <=> Holder(u, k, c))
           /\ u = t /\ k = Size(t) =>
                 (Holder(u, k, c)' <=> /\ c = Top(t).cls /\ Top(t).kind = "init"
                                       /\ pc \in {"supers", "clinit", "exit"})
<1>1. Depths(u)' = Depths(u) /\ Depths(t)' = Depths(t)
  BY MovedFrames
<1>2. ASSUME ~(u = t /\ k = Size(t)), k \in Depths(u) PROVE stack'[u][k] = stack[u][k]
  BY <1>2, MovedFrames DEF Old
<1>3. /\ stack'[t][Size(t)].cls = Top(t).cls /\ stack'[t][Size(t)].kind = Top(t).kind
      /\ stack'[t][Size(t)].pc = pc
  BY DEF Moved, TopAt
<1>4. ~(u = t /\ k = Size(t)) => (Holder(u, k, c)' <=> Holder(u, k, c))
  BY <1>1, <1>2 DEF Holder, Holds
<1>5. Size(t) \in Depths(t)'
  BY <1>1
<1>6. u = t /\ k = Size(t) =>
        (Holder(u, k, c)' <=> c = stack'[t][Size(t)].cls /\ Holds(stack'[t][Size(t)]))
  BY <1>5 DEF Holder, Holds
<1>7. QED
  BY <1>3, <1>4, <1>6 DEF Holds

LEMMA HoldersPopped ==
    ASSUME TypeInv, NEW t \in Threads, Popped(t), Size(t) \in Depths(t),
           NEW u \in Threads, NEW k, NEW c
    PROVE  Holder(u, k, c)' <=> Holder(u, k, c) /\ ~(u = t /\ k = Size(t))
<1>1. CASE u = t
  <2>1. Depths(t)' = Depths(t) \ {Size(t)} /\ \A j \in Depths(t)' : stack'[t][j] = stack[t][j]
    BY PoppedFrames DEF Old
  <2>2. QED
    BY <1>1, <2>1 DEF Holder, Holds
<1>2. CASE u # t
  <2>1. Depths(u)' = Depths(u) /\ \A j \in Depths(u)' : stack'[u][j] = stack[u][j]
    BY <1>2, PoppedFrames DEF Old
  <2>2. QED
    BY <1>2, <2>1 DEF Holder, Holds
<1>3. QED
  BY <1>1, <1>2

LEMMA HoldersCalled ==
    ASSUME TypeInv, NEW t \in Threads, NEW i, NEW g, Called(t, i, g), Size(t) \in Depths(t), ~Holds(g),
           NEW u \in Threads, NEW k, NEW c
    PROVE  Holder(u, k, c)' <=> Holder(u, k, c)
<1>1. CASE u = t
  <2>1. Depths(t)' = Depths(t) \cup {Size(t) + 1} /\ stack'[t][Size(t) + 1] = g
    BY CalledFrames
  <2>2. \A j \in Depths(t) : /\ stack'[t][j].cls = stack[t][j].cls
                             /\ Holds(stack'[t][j]) <=> Holds(stack[t][j])
    BY CalledFrames DEF SameCall, Holds
  <2>3. Size(t) + 1 \notin Depths(t)
    BY StackType
  <2>4. QED
    BY <1>1, <2>1, <2>2, <2>3 DEF Holder, Holds
<1>2. CASE u # t
  <2>1. Depths(u)' = Depths(u)
    BY <1>2, CalledFrames
  <2>2. \A j \in Depths(u) : /\ stack'[u][j].cls = stack[u][j].cls
                             /\ Holds(stack'[u][j]) <=> Holds(stack[u][j])
    BY CalledFrames DEF SameCall, Holds
  <2>3. QED
    BY <2>1, <2>2 DEF Holder, Holds
<1>3. QED
  BY <1>1, <1>2

\* Most steps neither take nor release a class.
Holding(t) == Takes(t) \/ Releases(t)

LEMMA SameHolders ==
    ASSUME TypeInv, FrameInv, NEW t \in Threads, Alternatives(t), ~Holding(t),
           NEW u \in Threads, NEW k, NEW c
    PROVE  Holder(u, k, c)' <=> Holder(u, k, c)
<1>1. ASSUME NEW pc, NEW i, Moved(t, pc, i), Size(t) \in Depths(t),
             Top(t).kind = "init" => (pc \in {"supers", "clinit", "exit"} <=>
                                      Top(t).pc \in {"supers", "clinit", "exit"})
      PROVE  Holder(u, k, c)' <=> Holder(u, k, c)
  <2>1. u = t /\ k = Size(t) => (Holder(u, k, c) <=> c = Top(t).cls /\ Holds(Top(t)))
    BY <1>1, StackType DEF Holder
  <2>2. CASE u = t /\ k = Size(t)
    BY <1>1, <2>1, <2>2, HoldersMoved DEF Holds
  <2>3. CASE ~(u = t /\ k = Size(t))
    BY <1>1, <2>3, HoldersMoved
  <2>4. QED
    BY <2>2, <2>3
<1>2. ASSUME Popped(t), Size(t) \in Depths(t), ~Holds(Top(t))
      PROVE  Holder(u, k, c)' <=> Holder(u, k, c)
  <2>1. ~Holder(t, Size(t), c)
    BY <1>2, StackType DEF Holder
  <2>2. QED
    BY <1>2, <2>1, HoldersPopped
<1>3. ASSUME Begins(t) PROVE Holder(u, k, c)' <=> Holder(u, k, c)
  <2>1. PICK d \in Classes, rec \in BOOLEAN :
          Kept(t, 0) /\ Len(stack'[t]) = 1 /\ stack'[t][1] = InitFrame(d, rec)
    BY <1>3 DEF Begins
  <2>2. ~Holds(stack'[t][1])
    BY <2>1 DEF InitFrame, Holds
  <2>3. CASE u = t
    <3>1. Depths(t) = {}
      BY <1>3, StackType DEF Begins
    <3>2. Depths(t)' = {1}
      BY <2>1 DEF Depths
    <3>3. QED
      BY <2>2, <2>3, <3>1, <3>2 DEF Holder, Holds
  <2>4. CASE u # t
    BY <2>1, <2>4 DEF Kept, Holder, Depths, Holds
  <2>5. QED
    BY <2>3, <2>4
<1>4. ASSUME Climbs(t) PROVE Holder(u, k, c)' <=> Holder(u, k, c)
  <2>1. PICK s \in Classes, g \in Frame :
          /\ Called(t, Top(t).i + 1, g)
          /\ g = IF s \in Plain THEN SupersFrame(s) ELSE InitFrame(s, TRUE)
    BY <1>4 DEF Climbs
  <2>2. ~Holds(g)
    BY <2>1 DEF InitFrame, SupersFrame, Holds
  <2>3. Size(t) \in Depths(t)
    BY <1>4 DEF Climbs, InLoop, Inside
  <2>4. QED
    BY <2>1, <2>2, <2>3, HoldersCalled
<1>5. ASSUME Asks(t) PROVE Holder(u, k, c)' <=> Holder(u, k, c)
  <2>1. PICK d \in Classes, rec \in BOOLEAN : Called(t, Top(t).i + 1, InitFrame(d, rec))
    BY <1>5 DEF Asks
  <2>2. ~Holds(InitFrame(d, rec))
    BY DEF InitFrame, Holds
  <2>3. Size(t) \in Depths(t)
    BY <1>5 DEF Asks, Inside
  <2>4. QED
    BY <2>1, <2>2, <2>3, HoldersCalled
<1>6. ASSUME Catches(t) PROVE Holder(u, k, c)' <=> Holder(u, k, c)
  BY <1>6 DEF Catches, Holder, Depths, Holds
<1>7. ASSUME Tries(t) PROVE Holder(u, k, c)' <=> Holder(u, k, c)
  BY <1>1, <1>7 DEF Tries, Inside
<1>8. ASSUME Misses(t) \/ Fails(t) \/ Starts(t) \/ Touches(t) \/ Throws(t)
      PROVE  Holder(u, k, c)' <=> Holder(u, k, c)
  BY <1>1, <1>8 DEF Misses, Fails, Starts, Touches, Throws, InLoop, LoopDone, Inside
<1>9. ASSUME Succeeds(t) PROVE Holder(u, k, c)' <=> Holder(u, k, c)
  BY <1>1, <1>9 DEF Succeeds, LoopDone, Inside
<1>10. ASSUME Refuses(t) \/ Accepts(t) \/ Leaves(t) PROVE Holder(u, k, c)' <=> Holder(u, k, c)
  BY <1>2, <1>10 DEF Refuses, Accepts, Leaves, LoopDone, Inside, Holds
<1>11. QED
  BY <1>3, <1>4, <1>5, <1>6, <1>7, <1>8, <1>9, <1>10 DEF Alternatives, Holding

\* A thread takes a class that no frame holds, and releases one that only
\* this frame holds.
LEMMA TakesFree ==
    ASSUME TypeInv, FrameInv, OwnInv, StateInv, NEW t \in Threads, Takes(t)
    PROVE  /\ Top(t).cls \in Classes /\ monitor[Top(t).cls].owner = NoOne
           /\ monitor[Top(t).cls].depth = 0
           /\ \A u \in Threads : \A k \in Depths(u) : ~Holder(u, k, Top(t).cls)
<1>1. Top(t).cls \in Classes /\ state[Top(t).cls] = "uninitialized" /\ Free(t, Top(t).cls)
  BY TopFacts DEF Takes, Inside
<1>2. \A u \in Threads : \A k \in Depths(u) : ~Holder(u, k, Top(t).cls)
  BY <1>1 DEF StateInv, Consistent
<1>3. monitor[Top(t).cls].owner # t
  BY <1>1, <1>2 DEF OwnInv
<1>4. QED
  BY <1>1, <1>2, <1>3 DEF Free, OwnInv

LEMMA TakesHolder ==
    ASSUME TypeInv, FrameInv, OwnInv, NEW t \in Threads, Takes(t), NEW u \in Threads, NEW k,
           NEW c \in Classes
    PROVE  Holder(u, k, c)' <=> \/ Holder(u, k, c)
                                \/ u = t /\ k = Size(t) /\ c = Top(t).cls
<1>1. /\ Moved(t, "supers", Top(t).i) /\ Size(t) \in Depths(t) /\ Top(t).kind = "init"
      /\ Top(t).pc = "enter"
  BY TopFacts DEF Takes, Inside, FrameInv, Frame
<1>2. ~Holder(t, Size(t), c)
  BY <1>1, StackType DEF Holder, Holds
<1>3. CASE u = t /\ k = Size(t)
  BY <1>1, <1>2, <1>3, HoldersMoved
<1>4. CASE ~(u = t /\ k = Size(t))
  BY <1>1, <1>4, HoldersMoved
<1>5. QED
  BY <1>3, <1>4

LEMMA ReleasesOwn ==
    ASSUME TypeInv, FrameInv, OwnInv, NEW t \in Threads, Releases(t)
    PROVE  /\ Top(t).cls \in Classes /\ Size(t) \in Depths(t) /\ Holder(t, Size(t), Top(t).cls)
           /\ monitor[Top(t).cls].owner = t /\ monitor[Top(t).cls].depth = 1
           /\ \A u \in Threads : \A k \in Depths(u) :
                 Holder(u, k, Top(t).cls) => u = t /\ k = Size(t)
<1>1. Top(t).cls \in Classes /\ Size(t) \in Depths(t) /\ Holder(t, Size(t), Top(t).cls)
  BY TopFacts DEF Releases, Inside, Holds
<1>2. monitor[Top(t).cls].owner = t /\ monitor[Top(t).cls].depth = 1
  BY <1>1 DEF OwnInv
<1>3. QED
  BY <1>1, <1>2 DEF OwnInv

\* The frame that holds a class, and the monitor.
LEMMA OwnStep ==
    ASSUME TypeInv, FrameInv, OwnInv, StateInv, NEW t \in Threads, Alternatives(t)
    PROVE  OwnInv'
<1>1. \A u \in Threads : u # NoOne
  BY HierarchyAssumption
<1>2. CASE ~Holding(t)
  <2>1. monitor' = monitor
    BY <1>2 DEF Holding, Alternatives, Begins, Tries, Refuses, Accepts, Misses, Climbs, Leaves, Fails,
       Starts, Succeeds, Touches, Asks, Catches, Throws, OnlyStack
  <2>2. \A u \in Threads : \A k : \A c : Holder(u, k, c)' <=> Holder(u, k, c)
    BY <1>2, SameHolders
  <2>3. \A u \in Threads : \A k : \A c : Holder(u, k, c) => k \in Depths(u)
    BY DEF Holder
  <2>4. \A u \in Threads : \A k : \A c : Holder(u, k, c)' => k \in Depths(u)'
    BY DEF Holder
  <2>5. QED
    BY <2>1, <2>2, <2>3, <2>4 DEF OwnInv
<1>3. CASE Takes(t)
  <2> DEFINE d == Top(t).cls
             n == Size(t)
  <2>1. /\ d \in Classes /\ monitor[d].owner = NoOne /\ monitor[d].depth = 0
        /\ \A u \in Threads : \A k \in Depths(u) : ~Holder(u, k, d)
    BY <1>3, TakesFree
  <2>2. \A u \in Threads : \A k : \A c \in Classes :
           Holder(u, k, c)' <=> Holder(u, k, c) \/ (u = t /\ k = n /\ c = d)
    BY <1>3, TakesHolder
  <2>3. /\ monitor'[d].owner = t /\ monitor'[d].depth = 1
        /\ \A c \in Classes \ {d} : monitor'[c] = monitor[c]
    BY <1>3, <2>1 DEF Takes, MonitorEnter, TypeInv
  <2>4. /\ \A u \in Threads : \A k : \A c : Holder(u, k, c) => k \in Depths(u)
        /\ \A u \in Threads : \A k : \A c : Holder(u, k, c)' => k \in Depths(u)'
    BY DEF Holder
  <2> HIDE DEF d, n
  <2>5. QED
    BY <1>1, <2>1, <2>2, <2>3, <2>4 DEF OwnInv
<1>4. CASE Releases(t)
  <2> DEFINE d == Top(t).cls
             n == Size(t)
  <2>1. /\ d \in Classes /\ monitor[d].owner = t /\ monitor[d].depth = 1
        /\ \A u \in Threads : \A k \in Depths(u) : Holder(u, k, d) => u = t /\ k = n
        /\ n \in Depths(t) /\ Holder(t, n, d) /\ stack[t][n].cls = d
    BY <1>4, ReleasesOwn, StackType
  <2>2. \A u \in Threads : \A k : \A c : Holder(u, k, c)' <=> Holder(u, k, c) /\ ~(u = t /\ k = n)
    BY <1>4, <2>1, HoldersPopped DEF Releases
  <2>3. /\ monitor'[d].owner = NoOne /\ monitor'[d].depth = 0
        /\ \A c \in Classes \ {d} : monitor'[c] = monitor[c]
    BY <1>4, <2>1 DEF Releases, MonitorExit, TypeInv
  <2>4. /\ \A u \in Threads : \A k : \A c : Holder(u, k, c) => k \in Depths(u) /\ stack[u][k].cls = c
        /\ \A u \in Threads : \A k : \A c : Holder(u, k, c)' => k \in Depths(u)'
    BY DEF Holder
  <2> HIDE DEF d, n
  <2>5. QED
    BY <1>1, <2>1, <2>2, <2>3, <2>4 DEF OwnInv
<1>5. QED
  BY <1>2, <1>3, <1>4 DEF Holding

\* A step changes only the class that its thread works on: the one it takes,
\* or one that it holds.
LEMMA Changes ==
    ASSUME TypeInv, FrameInv, NEW t \in Threads, Alternatives(t)
    PROVE  /\ \A u \in Threads \ {t} : pend'[u] = pend[u]
           /\ \A c \in Classes : state'[c] # state[c] \/ ran'[c] # ran[c] =>
                 c = Top(t).cls /\ (Takes(t) \/ Holder(t, Size(t), Top(t).cls))
<1>1. ASSUME Size(t) \in Depths(t), Top(t).kind = "init", Top(t).pc \in {"supers", "clinit", "exit"}
      PROVE  Holder(t, Size(t), Top(t).cls)
  BY <1>1, TopFacts DEF Holds
<1>2. ASSUME Size(t) \in Depths(t), Top(t).pc = "clinit" PROVE Top(t).kind = "init"
  BY <1>2, TopFacts
<1>3. \A u \in Threads \ {t} : pend'[u] = pend[u]
  BY DEF Alternatives, Begins, Tries, Refuses, Accepts, Takes, Misses, Climbs, Leaves, Fails,
     Starts, Succeeds, Touches, Asks, Catches, Throws, Releases, OnlyStack, Throw, TypeInv
<1>4. CASE Takes(t)
  BY <1>3, <1>4 DEF Takes, SetInitState, TypeInv
<1>5. CASE Fails(t) \/ Succeeds(t) \/ Throws(t)
  <2>1. Holder(t, Size(t), Top(t).cls)
    BY <1>1, <1>2, <1>5 DEF Fails, Succeeds, Throws, LoopDone, Inside
  <2>2. UNCHANGED ran /\ \A c \in Classes : c # Top(t).cls => state'[c] = state[c]
    BY <1>5 DEF Fails, Succeeds, Throws, SetInitState, TypeInv
  <2>3. QED
    BY <1>3, <2>1, <2>2
<1>6. CASE Starts(t)
  <2>1. Holder(t, Size(t), Top(t).cls)
    BY <1>1, <1>6 DEF Starts, LoopDone, Inside
  <2>2. UNCHANGED state /\ \A c \in Classes : c # Top(t).cls => ran'[c] = ran[c]
    BY <1>6 DEF Starts, TypeInv
  <2>3. QED
    BY <1>3, <2>1, <2>2
<1>7. CASE ~(Takes(t) \/ Fails(t) \/ Succeeds(t) \/ Throws(t) \/ Starts(t))
  <2>1. UNCHANGED <<state, ran>>
    BY <1>7 DEF Alternatives, Begins, Tries, Refuses, Accepts, Misses, Climbs, Leaves, Touches,
       Asks, Catches, Releases, OnlyStack
  <2>2. QED
    BY <1>3, <2>1
<1>8. QED
  BY <1>4, <1>5, <1>6, <1>7

\* The frames that hold a class, except the innermost one of the thread that
\* makes the step.
LEMMA OtherHolders ==
    ASSUME TypeInv, FrameInv, NestInv, OwnInv, StateInv, NEW t \in Threads, Alternatives(t),
           NEW u \in Threads, NEW k, NEW c \in Classes, Holder(u, k, c)', ~(u = t /\ k = Size(t))
    PROVE  /\ Holder(u, k, c) /\ Old(t, u, k) /\ state'[c] = state[c] /\ ran'[c] = ran[c]
           /\ Consistent(u, k, c)'
<1>1. Holder(u, k, c)
  BY SameHolders, TakesHolder, HoldersPopped DEF Holding, Releases, Inside
<1>2. k \in Depths(u)
  BY <1>1 DEF Holder
<1>3. Old(t, u, k)
  <2>1. CASE Begins(t)
    <3>1. u # t
      BY <1>2, <2>1, StackType DEF Begins
    <3>2. QED
      BY <1>2, <2>1, <3>1 DEF Begins, Kept, Old
  <2>2. CASE stack' = stack
    BY <1>2, <2>2, StackType DEF Old
  <2>3. CASE Climbs(t) \/ Asks(t)
    <3>1. Size(t) \in Depths(t) /\ \E i, g : Called(t, i, g)
      BY <2>3 DEF Climbs, Asks, InLoop, Inside
    <3>2. QED
      BY <1>2, <3>1, CalledFrames
  <2>4. CASE Size(t) \in Depths(t) /\ \E pc, i : Moved(t, pc, i)
    BY <1>2, <2>4, MovedFrames
  <2>5. CASE Size(t) \in Depths(t) /\ Popped(t)
    <3>1. Kept(t, Size(t) - 1)
      BY <2>5 DEF Popped
    <3>2. QED
      BY <1>2, <3>1, KeptFrames
  <2>6. QED
    BY <2>1, <2>2, <2>3, <2>4, <2>5, StackKinds
<1>4. state'[c] = state[c] /\ ran'[c] = ran[c]
  <2>1. ASSUME Takes(t) PROVE c # Top(t).cls
    BY <1>1, <1>2, <2>1, TakesFree
  <2>2. ASSUME Holder(t, Size(t), Top(t).cls) PROVE c # Top(t).cls
    <3>1. Size(t) \in Depths(t)
      BY <2>2 DEF Holder
    <3>2. ASSUME c = Top(t).cls PROVE FALSE
      <4>1. u = t
        BY <1>1, <1>2, <2>2, <3>1, <3>2 DEF OwnInv
      <4>2. k = Size(t)
        BY <1>1, <1>2, <2>2, <3>1, <3>2, <4>1 DEF OwnInv
      <4>3. QED
        BY <4>1, <4>2
    <3>3. QED
      BY <3>2
  <2>3. QED
    BY <2>1, <2>2, Changes
<1>5. Consistent(u, k, c) /\ stack'[u][k] = stack[u][k]
  BY <1>1, <1>2, <1>3 DEF StateInv, Old
<1>6. CASE u = t
  <2>1. k < Len(stack[t])
    BY <1>3, <1>6 DEF Old, Size
  <2>2. stack[u][k].pc \in {"supers", "clinit"}
    BY <1>2, <1>6, <2>1 DEF NestInv
  <2>3. QED
    BY <1>1, <1>3, <1>4, <1>5, <2>2 DEF Consistent
<1>7. CASE u # t
  BY <1>1, <1>3, <1>4, <1>5, <1>7, Changes DEF Consistent
<1>8. QED
  BY <1>6, <1>7

\* The innermost frame of the thread that makes the step.
LEMMA TopConsistent ==
    ASSUME TypeInv, FrameInv, NestInv, OwnInv, StateInv, NEW t \in Threads, Alternatives(t),
           NEW k, k = Size(t), NEW c \in Classes, Holder(t, k, c)'
    PROVE  Consistent(t, k, c)'
<1>1. k \in Depths(t)' /\ stack'[t][k].cls = c /\ Holds(stack'[t][k])
  BY DEF Holder, Holds
<1>2. ASSUME Size(t) \in Depths(t), Holds(Top(t))
      PROVE  Consistent(t, k, Top(t).cls) /\ Top(t).cls \in Classes /\ Top(t) = stack[t][k]
  BY <1>2, TopFacts DEF StateInv
<1>3. ~Popped(t) \/ Size(t) \notin Depths(t)
  BY <1>1, PoppedFrames
<1>4. CASE Takes(t)
  <2>1. /\ stack'[t][k].pc = "supers" /\ c = Top(t).cls /\ state[c] = "uninitialized"
        /\ ran' = ran /\ state'[c] = "initializing"
    BY <1>1, <1>4, TopFacts DEF Takes, Moved, TopAt, SetInitState, TypeInv
  <2>2. QED
    BY <2>1 DEF Consistent, StateInv
<1>5. CASE Tries(t)
  BY <1>1, <1>5 DEF Tries, Moved, TopAt, Holds
<1>6. CASE Begins(t)
  BY <1>1, <1>6, StackType DEF Begins, Depths
<1>7. CASE Fails(t) \/ Succeeds(t) \/ Throws(t)
  <2>1. /\ stack'[t][k].pc = "exit" /\ c = Top(t).cls
        /\ \/ state'[c] = "failed" /\ pend'[t] # NoOne
           \/ state'[c] = "initialized"
    BY <1>1, <1>7, HierarchyAssumption
    DEF Fails, Succeeds, Throws, Throw, Moved, TopAt, SetInitState, TypeInv
  <2>2. QED
    BY <2>1 DEF Consistent
<1>8. CASE Starts(t)
  <2>1. Size(t) \in Depths(t) /\ Holds(Top(t)) /\ Top(t).pc = "supers"
    BY <1>8 DEF Starts, LoopDone, Inside, Holds
  <2>2. stack'[t][k].pc = "clinit" /\ c = Top(t).cls /\ state' = state /\ ran'[c] = ran[c] + 1
    BY <1>1, <1>8 DEF Starts, Moved, TopAt, TypeInv
  <2>3. QED
    BY <1>2, <2>1, <2>2 DEF Consistent
<1>9. CASE Misses(t) \/ Climbs(t) \/ Touches(t) \/ Asks(t)
  <2>1. /\ Size(t) \in Depths(t) /\ stack'[t][k].pc = Top(t).pc /\ Top(t).pc \in {"supers", "clinit"}
        /\ stack'[t][k].kind = Top(t).kind /\ stack'[t][k].cls = Top(t).cls
        /\ state' = state /\ ran' = ran
    BY <1>9 DEF Misses, Climbs, Touches, Asks, InLoop, Inside, Moved, Called, TopAt, OnlyStack
  <2>2. Holds(Top(t)) /\ c = Top(t).cls
    BY <1>1, <2>1 DEF Holds
  <2>3. QED
    BY <1>2, <2>1, <2>2 DEF Consistent
<1>10. CASE Catches(t)
  <2>1. stack' = stack /\ state' = state /\ ran' = ran /\ Size(t) \in Depths(t) /\ Top(t).pc = "clinit"
    BY <1>1, <1>10, StackType DEF Catches, Inside, Depths
  <2>2. Holds(Top(t)) /\ c = Top(t).cls
    BY <1>1, <2>1, StackType
  <2>3. QED
    BY <1>2, <2>1, <2>2 DEF Consistent
<1>11. CASE Refuses(t) \/ Accepts(t) \/ Leaves(t) \/ Releases(t)
  BY <1>3, <1>11 DEF Refuses, Accepts, Leaves, Releases, LoopDone, Inside
<1>12. QED
  BY <1>4, <1>5, <1>6, <1>7, <1>8, <1>9, <1>10, <1>11 DEF Alternatives

\* The state of a class and the frame that holds it.
LEMMA StateStep ==
    ASSUME TypeInv, FrameInv, NestInv, OwnInv, StateInv, NEW t \in Threads, Alternatives(t)
    PROVE  StateInv'
<1>1. ASSUME NEW u \in Threads, NEW k, NEW c \in Classes, Holder(u, k, c)' PROVE Consistent(u, k, c)'
  <2>1. CASE u = t /\ k = Size(t)
    BY <1>1, <2>1, TopConsistent
  <2>2. CASE ~(u = t /\ k = Size(t))
    BY <1>1, <2>2, OtherHolders
  <2>3. QED
    BY <2>1, <2>2
<1>2. ASSUME NEW c \in Classes, monitor'[c].owner = NoOne PROVE state'[c] # "initializing"
  <2>1. ASSUME Holder(t, Size(t), c) PROVE monitor[c].owner = t /\ t # NoOne
    BY <2>1, HierarchyAssumption DEF OwnInv, Holder
  <2>2. CASE Takes(t)
    <3>1. c # Top(t).cls
      BY <1>2, <2>2, TakesFree, HierarchyAssumption DEF Takes, MonitorEnter, TypeInv
    <3>2. monitor'[c] = monitor[c] /\ state'[c] = state[c]
      BY <2>2, <3>1, TakesFree DEF Takes, MonitorEnter, SetInitState, TypeInv
    <3>3. QED
      BY <1>2, <3>2 DEF StateInv
  <2>3. CASE Releases(t)
    <3>1. state' = state
      BY <2>3 DEF Releases
    <3>2. CASE c = Top(t).cls
      <4>1. Consistent(t, Size(t), c) /\ stack[t][Size(t)].pc = "exit"
        BY <2>3, <3>2, ReleasesOwn, StackType DEF StateInv, Releases, Inside
      <4>2. QED
        BY <3>1, <4>1 DEF Consistent
    <3>3. CASE c # Top(t).cls
      <4>1. monitor'[c] = monitor[c]
        BY <2>3, <3>3, ReleasesOwn DEF Releases, MonitorExit, TypeInv
      <4>2. QED
        BY <1>2, <3>1, <4>1 DEF StateInv
    <3>4. QED
      BY <3>2, <3>3
  <2>4. CASE ~Holding(t)
    <3>1. monitor' = monitor
      BY <2>4 DEF Holding, Alternatives, Begins, Tries, Refuses, Accepts, Misses, Climbs, Leaves,
         Fails, Starts, Succeeds, Touches, Asks, Catches, Throws, OnlyStack
    <3>2. ~Holder(t, Size(t), c) /\ state[c] # "initializing"
      BY <1>2, <2>1, <3>1 DEF StateInv
    <3>3. state'[c] = state[c]
      BY <2>4, <3>2, Changes DEF Holding
    <3>4. QED
      BY <3>2, <3>3
  <2>5. QED
    BY <2>2, <2>3, <2>4 DEF Holding
<1>3. ASSUME NEW c \in Classes PROVE ran'[c] <= 1 /\ (state'[c] = "uninitialized" => ran'[c] = 0)
  <2>1. CASE Starts(t) /\ c = Top(t).cls
    <3>1. Holder(t, Size(t), c) /\ Size(t) \in Depths(t) /\ stack[t][Size(t)].pc = "supers"
      BY <2>1, TopFacts DEF Starts, LoopDone, Inside, Holds
    <3>2. Consistent(t, Size(t), c)
      BY <3>1 DEF StateInv
    <3>3. ran'[c] = ran[c] + 1 /\ state' = state
      BY <2>1 DEF Starts, TypeInv
    <3>4. QED
      BY <3>1, <3>2, <3>3 DEF Consistent
  <2>2. CASE ~(Starts(t) /\ c = Top(t).cls)
    <3>1. ran'[c] = ran[c]
      BY <2>2 DEF Alternatives, Begins, Tries, Refuses, Accepts, Takes, Misses, Climbs, Leaves,
         Fails, Starts, Succeeds, Touches, Asks, Catches, Throws, Releases, OnlyStack, TypeInv
    <3>2. state'[c] = "uninitialized" => state[c] = "uninitialized"
      BY DEF Alternatives, Begins, Tries, Refuses, Accepts, Takes, Misses, Climbs, Leaves, Fails,
         Starts, Succeeds, Touches, Asks, Catches, Throws, Releases, OnlyStack, SetInitState, TypeInv
    <3>3. QED
      BY <3>1, <3>2 DEF StateInv
  <2>3. QED
    BY <2>1, <2>2
<1>4. QED
  BY <1>1, <1>2, <1>3 DEF StateInv

\* A verdict is final.
LEMMA VerdictFinal ==
    ASSUME TypeInv, FrameInv, StateInv, NEW t \in Threads, Alternatives(t), NEW c \in Classes,
           state[c] \in {"failed", "initialized"}
    PROVE  state'[c] = state[c]
<1>1. CASE Fails(t) \/ Succeeds(t) \/ Throws(t)
  <2>1. /\ Size(t) \in Depths(t) /\ Holder(t, Size(t), Top(t).cls)
        /\ stack[t][Size(t)].pc \in {"supers", "clinit"} /\ Top(t).cls \in Classes
    BY <1>1, TopFacts DEF Fails, Succeeds, Throws, LoopDone, Inside, Holds
  <2>2. state[Top(t).cls] = "initializing"
    BY <2>1 DEF StateInv, Consistent
  <2>3. QED
    BY <1>1, <2>1, <2>2 DEF Fails, Succeeds, Throws, SetInitState, TypeInv
<1>2. CASE ~(Fails(t) \/ Succeeds(t) \/ Throws(t))
  BY <1>2 DEF Alternatives, Begins, Tries, Refuses, Accepts, Takes, Misses, Climbs, Leaves, Starts,
     Touches, Asks, Catches, Releases, OnlyStack, SetInitState, TypeInv
<1>3. QED
  BY <1>1, <1>2

-----------------------------------------------------------------------------
(* Chains of calls for super classes.                                      *)

\* A frame that is there before and after a step has the same frames below.
LEMMA FramesBelow ==
    ASSUME TypeInv, FrameInv, NEW t \in Threads, Alternatives(t),
           NEW u \in Threads, NEW k \in Depths(u), k \in Depths(u)'
    PROVE  /\ k \in Nat /\ \A j \in 1 .. k - 1 : j \in Depths(u) /\ Old(t, u, j)
           /\ SameCall(u, k)
<1>1. Depths(u) = 1 .. Size(u) /\ Size(u) \in Nat /\ Depths(t) = 1 .. Size(t) /\ Size(t) \in Nat
  BY StackType
<1>2. k \in Nat /\ \A j \in 1 .. k - 1 : j \in Depths(u) /\ (u = t => j # Size(t) /\ j < Size(t))
  BY <1>1
<1>3. CASE Begins(t)
  <2>1. u # t
    BY <1>1, <1>3 DEF Begins
  <2>2. stack'[u] = stack[u]
    BY <1>3, <2>1 DEF Begins, Kept
  <2>3. QED
    BY <1>2, <2>1, <2>2 DEF Old, SameCall
<1>4. CASE Size(t) \in Depths(t) /\ \E pc, i : Moved(t, pc, i)
  BY <1>2, <1>4, MovedFrames
<1>5. CASE Size(t) \in Depths(t) /\ Popped(t)
  <2>1. Kept(t, Size(t) - 1)
    BY <1>5 DEF Popped
  <2>2. SameCall(u, k)
    BY <1>5, PoppedFrames DEF Old, SameCall
  <2>3. QED
    BY <1>2, <2>1, <2>2, KeptFrames
<1>6. CASE Climbs(t) \/ Asks(t)
  <2>1. Size(t) \in Depths(t) /\ \E i, g : Called(t, i, g)
    BY <1>6 DEF Climbs, Asks, InLoop, Inside
  <2>2. QED
    BY <1>2, <2>1, CalledFrames
<1>7. CASE stack' = stack
  BY <1>2, <1>7 DEF Old, SameCall
<1>8. QED
  BY <1>3, <1>4, <1>5, <1>6, <1>7, StackKinds

\* A chain of calls that ends in such a frame stays as it is.
LEMMA StartSame ==
    ASSUME TypeInv, FrameInv, NEW t \in Threads, Alternatives(t),
           NEW u \in Threads, NEW k \in Depths(u), k \in Depths(u)', NEW b \in 1 .. k
    PROVE  (Start(u, k, b)' <=> Start(u, k, b)) /\ stack'[u][b].cls = stack[u][b].cls
<1>1. /\ k \in Nat /\ \A j \in 1 .. k - 1 : stack'[u][j] = stack[u][j]
      /\ stack'[u][k].cls = stack[u][k].cls
  BY FramesBelow DEF Old, SameCall
<1>2. (b = 1 \/ b - 1 \in 1 .. k - 1) /\ (b = k \/ b \in 1 .. k - 1)
  BY <1>1
<1>3. \A j \in b .. k - 1 : j \in 1 .. k - 1
  BY <1>1
<1>4. QED
  BY <1>1, <1>2, <1>3 DEF Start

\* A frame that is new after a step.
LEMMA NewFrame ==
    ASSUME TypeInv, FrameInv, NEW t \in Threads, Alternatives(t),
           NEW u \in Threads, NEW k \in Depths(u)', k \notin Depths(u)
    PROVE  u = t /\ k = Size(t) + 1 /\ (Begins(t) \/ Climbs(t) \/ Asks(t))
<1>1. CASE Begins(t)
  <2>1. Kept(t, 0) /\ Len(stack'[t]) = 1
    BY <1>1 DEF Begins
  <2>2. u = t
    BY <2>1 DEF Kept, Depths
  <2>3. Depths(u)' = 1 .. 1 /\ Size(t) = 0
    BY <1>1, <2>1, <2>2 DEF Depths, Begins
  <2>4. QED
    BY <1>1, <2>2, <2>3
<1>2. CASE Size(t) \in Depths(t) /\ \E pc, i : Moved(t, pc, i)
  BY <1>2, MovedFrames
<1>3. CASE Size(t) \in Depths(t) /\ Popped(t)
  BY <1>3, PoppedFrames DEF Old
<1>4. CASE Climbs(t) \/ Asks(t)
  <2>1. Size(t) \in Depths(t) /\ \E i, g : Called(t, i, g)
    BY <1>4 DEF Climbs, Asks, InLoop, Inside
  <2>2. /\ \A v \in Threads \ {t} : Depths(v)' = Depths(v)
        /\ Depths(t)' = Depths(t) \cup {Size(t) + 1}
    BY <2>1, CalledFrames
  <2>3. u = t
    BY <2>2
  <2>4. QED
    BY <1>4, <2>2, <2>3
<1>5. CASE stack' = stack
  BY <1>5 DEF Depths
<1>6. QED
  BY <1>1, <1>2, <1>3, <1>4, <1>5, StackKinds

\* The chain of calls for a super class is that of its caller.
LEMMA ClimbStart ==
    ASSUME TypeInv, FrameInv, NestInv, NEW t \in Threads, Climbs(t), Alternatives(t),
           NEW k, k = Size(t) + 1
    PROVE  /\ k \in Depths(t)' /\ Size(t) \in Depths(t) /\ Size(t) \in Depths(t)' /\ k \in Nat
           /\ \A b \in 1 .. k : Start(t, k, b)' <=> b \in 1 .. Size(t) /\ Start(t, Size(t), b)
           /\ stack'[t][k].cls \in SuperSet(stack[t][Size(t)].cls)
           /\ stack[t][Size(t)].pc = "supers" /\ stack'[t][k].pc # "clinit"
<1>1. PICK s \in Classes, g \in Frame :
        /\ s = Supers[Top(t).cls][Top(t).i] /\ Called(t, Top(t).i + 1, g)
        /\ g = IF s \in Plain THEN SupersFrame(s) ELSE InitFrame(s, TRUE)
  BY DEF Climbs
<1>2. /\ Size(t) \in Depths(t) /\ stack[t][Size(t)].pc = "supers" /\ Top(t) = stack[t][Size(t)]
      /\ Top(t).i \in 1 .. Len(Supers[Top(t).cls]) /\ Top(t).cls \in Classes
      /\ Size(t) \in Nat /\ Depths(t) = 1 .. Size(t)
  BY TopFacts, StackType DEF Climbs, InLoop, Inside
<1>3. /\ Depths(t)' = Depths(t) \cup {k} /\ stack'[t][k] = g
      /\ \A j \in Depths(t) : stack'[t][j].pc = stack[t][j].pc
  BY <1>1, <1>2, CalledFrames
<1>4. stack'[t][k].cls \in SuperSet(stack[t][Size(t)].cls) /\ stack'[t][k].pc # "clinit"
  <2>1. stack'[t][k].cls = s /\ stack'[t][k].pc # "clinit"
    BY <1>1, <1>3 DEF InitFrame, SupersFrame
  <2>2. s \in SuperSet(Top(t).cls)
    BY <1>1, <1>2, SuperSetType
  <2>3. QED
    BY <1>2, <2>1, <2>2
<1>5. ASSUME NEW b \in 1 .. k
      PROVE  Start(t, k, b)' <=> b \in 1 .. Size(t) /\ Start(t, Size(t), b)
  <2>1. CASE b = k
    <3>1. b # 1 /\ b - 1 = Size(t) /\ stack'[t][b - 1].pc = "supers" /\ b \notin 1 .. Size(t)
      BY <1>2, <1>3, <2>1
    <3>2. QED
      BY <3>1 DEF Start
  <2>2. CASE b # k
    <3>1. b \in 1 .. Size(t) /\ b \in Depths(t) /\ (b = 1 \/ b - 1 \in Depths(t))
      BY <1>2, <2>2
    <3>2. b = 1 \/ stack'[t][b - 1].pc = stack[t][b - 1].pc
      BY <1>3, <3>1
    <3>3. k - 1 = Size(t) /\ Size(t) \in b .. k - 1
      BY <1>2, <3>1
    <3>4. \A j \in b .. k - 1 : j \in Depths(t) /\ (j = Size(t) \/ j \in b .. Size(t) - 1)
      BY <1>2, <3>1, <3>3
    <3>5. \A j \in b .. Size(t) - 1 : j \in b .. k - 1
      BY <1>2, <3>3
    <3>6. (\A j \in b .. k - 1 : stack'[t][j].pc = "supers") <=>
             \A j \in b .. Size(t) - 1 : stack[t][j].pc = "supers"
      BY <1>2, <1>3, <3>3, <3>4, <3>5
    <3>7. QED
      BY <3>1, <3>2, <3>6 DEF Start
  <2>3. QED
    BY <2>1, <2>2
<1>6. QED
  BY <1>2, <1>3, <1>4, <1>5

\* The chain of a call by Java code is this call.
LEMMA FirstStart ==
    ASSUME TypeInv, FrameInv, NEW t \in Threads, Begins(t) \/ Asks(t),
           NEW k, k = Size(t) + 1
    PROVE  /\ k \in Nat /\ k >= 1 /\ pend[t] = NoOne /\ pend' = pend
           /\ \A b \in 1 .. k : Start(t, k, b)' <=> b = k
           /\ stack'[t][k].cls \in Classes
<1>1. Size(t) \in Nat /\ k \in Nat /\ k >= 1 /\ pend[t] = NoOne /\ pend' = pend
  BY StackType DEF Begins, Asks, OnlyStack
<1>2. CASE Begins(t)
  <2>1. k = 1 /\ stack'[t][1].cls \in Classes
    BY <1>2 DEF Begins, InitFrame
  <2>2. QED
    BY <1>1, <2>1 DEF Start
<1>3. CASE Asks(t)
  <2>1. PICK c \in Classes, rec \in BOOLEAN : Called(t, Top(t).i + 1, InitFrame(c, rec))
    BY <1>3 DEF Asks
  <2>2. Size(t) >= 1 /\ stack'[t][k].cls \in Classes /\ stack'[t][Size(t)].pc = "clinit"
    BY <1>3, <2>1 DEF Asks, Inside, Called, TopAt, InitFrame
  <2>3. k - 1 = Size(t)
    BY <1>1
  <2>4. ASSUME NEW b \in 1 .. k PROVE Start(t, k, b)' <=> b = k
    <3>1. CASE b = k
      <4>1. b \in 1 .. k /\ stack'[t][b - 1].pc = "clinit" /\ \A j \in b .. k - 1 : FALSE
        BY <1>1, <2>2, <2>3, <3>1
      <4>2. QED
        BY <3>1, <4>1 DEF Start
    <3>2. CASE b # k
      <4>1. Size(t) \in b .. k - 1 /\ stack'[t][Size(t)].pc # "supers"
        BY <1>1, <2>2, <2>3, <3>2
      <4>2. QED
        BY <3>2, <4>1 DEF Start
    <3>3. QED
      BY <3>1, <3>2
  <2>5. QED
    BY <1>1, <2>2, <2>4
<1>4. QED
  BY <1>2, <1>3

\* A chain of calls stays above the class that Java code has asked for.
LEMMA LinkStep ==
    ASSUME TypeInv, FrameInv, NestInv, LinkInv, NEW t \in Threads, Alternatives(t)
    PROVE  LinkInv'
<1> SUFFICES ASSUME NEW u \in Threads, NEW k \in Depths(u)'
             PROVE  /\ \E b \in 1 .. k : Start(u, k, b)'
                    /\ \A b \in 1 .. k :
                          Start(u, k, b)' => stack'[u][k].cls \in Family[stack'[u][b].cls]
  BY DEF LinkInv
<1>1. CASE k \in Depths(u)
  <2>1. /\ \E b \in 1 .. k : Start(u, k, b)
        /\ \A b \in 1 .. k : Start(u, k, b) => stack[u][k].cls \in Family[stack[u][b].cls]
    BY <1>1 DEF LinkInv
  <2>2. \A b \in 1 .. k : (Start(u, k, b)' <=> Start(u, k, b)) /\ stack'[u][b].cls = stack[u][b].cls
    BY <1>1, StartSame
  <2>3. stack'[u][k].cls = stack[u][k].cls
    BY <1>1, FramesBelow DEF SameCall
  <2>4. QED
    BY <2>1, <2>2, <2>3
<1>2. CASE k \notin Depths(u)
  <2>1. u = t /\ k = Size(t) + 1 /\ (Begins(t) \/ Climbs(t) \/ Asks(t))
    BY <1>2, NewFrame
  <2>2. CASE Begins(t) \/ Asks(t)
    <3>1. k = Size(t) + 1
      BY <2>1
    <3>2. /\ k \in 1 .. k /\ stack'[t][k].cls \in Entry
          /\ \A b \in 1 .. k : Start(t, k, b)' <=> b = k
      BY <2>2, <3>1, FirstStart, SuperSetType
    <3>3. QED
      BY <2>1, <3>2, FamilyFacts
  <2>3. CASE Climbs(t)
    <3>1. k = Size(t) + 1
      BY <2>1
    <3>2. /\ Size(t) \in Depths(t) /\ Size(t) \in Depths(t)' /\ k \in Nat
          /\ \A b \in 1 .. k : Start(t, k, b)' <=> b \in 1 .. Size(t) /\ Start(t, Size(t), b)
          /\ stack'[t][k].cls \in SuperSet(stack[t][Size(t)].cls)
      BY <2>3, <3>1, ClimbStart
    <3>3. /\ \E b \in 1 .. Size(t) : Start(t, Size(t), b)
          /\ \A b \in 1 .. Size(t) :
                Start(t, Size(t), b) => stack[t][Size(t)].cls \in Family[stack[t][b].cls]
      BY <3>2 DEF LinkInv
    <3>4. \A b \in 1 .. Size(t) : b \in 1 .. k /\ b \in Depths(t)
      BY <3>1, <3>2, StackType
    <3>5. \A b \in 1 .. Size(t) : stack'[t][b].cls = stack[t][b].cls /\ stack[t][b].cls \in Entry
      BY <3>2, <3>4, StartSame, StackType, SuperSetType DEF Frame
    <3>6. QED
      BY <2>1, <3>2, <3>3, <3>4, <3>5, FamilyFacts
  <2>4. QED
    BY <2>1, <2>2, <2>3
<1>3. QED
  BY <1>1, <1>2

\* The other stacks do not change.
LEMMA OtherStacks ==
    ASSUME NEW t \in Threads, Alternatives(t), NEW u \in Threads, u # t
    PROVE  stack'[u] = stack[u] /\ Depths(u)' = Depths(u)
<1>1. CASE Climbs(t) \/ Asks(t)
  BY <1>1 DEF Climbs, Asks, Called, Kept, Depths
<1>2. CASE ~(Climbs(t) \/ Asks(t))
  BY <1>2, StackKinds DEF Begins, Moved, Popped, Kept, Depths
<1>3. QED
  BY <1>1, <1>2

\* A frame that is there before and after a step is old, or the innermost.
LEMMA FrameKept ==
    ASSUME TypeInv, FrameInv, NEW t \in Threads, Alternatives(t), NEW u \in Threads,
           NEW k \in Depths(u), k \in Depths(u)'
    PROVE  Old(t, u, k) \/ (u = t /\ k = Size(t))
<1>1. CASE u # t
  BY <1>1, OtherStacks DEF Old
<1>2. CASE u = t
  <2>1. Depths(t) = 1 .. Size(t) /\ Size(t) \in Nat
    BY StackType
  <2>2. CASE k = Size(t)
    BY <1>2, <2>2
  <2>3. CASE k # Size(t)
    <3>1. k < Size(t) /\ k \in 1 .. Size(t) - 1
      BY <1>2, <2>1, <2>3
    <3>2. CASE Climbs(t) \/ Asks(t)
      BY <1>2, <3>1, <3>2 DEF Climbs, Asks, Called, Kept, Old
    <3>3. CASE Begins(t)
      BY <2>1, <3>1, <3>3 DEF Begins
    <3>4. CASE ~(Climbs(t) \/ Asks(t) \/ Begins(t))
      BY <1>2, <3>1, <3>4, StackKinds DEF Moved, Popped, Kept, Old
    <3>5. QED
      BY <3>2, <3>3, <3>4
  <2>4. QED
    BY <2>2, <2>3
<1>3. QED
  BY <1>1, <1>2

\* What has gone wrong above a class stays wrong.
LEMMA BrokenStays ==
    ASSUME TypeInv, FrameInv, StateInv, NEW t \in Threads, Alternatives(t), NEW c,
           BrokenFamily(c)
    PROVE  BrokenFamily(c)'
  BY VerdictFinal DEF BrokenFamily

\* The chain of calls that ends in the caller of a frame that is left goes on
\* to that frame.
LEMMA PopStart ==
    ASSUME TypeInv, FrameInv, NestInv, NEW t \in Threads, Alternatives(t), Popped(t),
           Size(t) \in Depths(t), NEW k, k = Size(t) - 1, k \in Depths(t)',
           stack'[t][k].pc # "clinit", NEW b \in 1 .. k, Start(t, k, b)'
    PROVE  /\ b \in 1 .. Size(t) /\ Start(t, Size(t), b)
           /\ stack'[t][b].cls = stack[t][b].cls
<1>1. Size(t) \in Nat /\ Depths(t) = 1 .. Size(t)
  BY StackType
<1>2. Old(t, t, k)
  BY PoppedFrames
<1>3. k \in Depths(t) /\ stack'[t][k] = stack[t][k] /\ k < Len(stack[t])
  BY <1>2 DEF Old, Size
<1>4. stack[t][k].pc = "supers"
  BY <1>3 DEF NestInv
<1>5. Start(t, k, b) /\ stack'[t][b].cls = stack[t][b].cls
  BY <1>3, StartSame
<1>6. b \in 1 .. Size(t) /\ \A j \in b .. Size(t) - 1 : j = k \/ j \in b .. k - 1
  BY <1>1
<1>7. QED
  BY <1>4, <1>5, <1>6 DEF Start

\* Where a pending exception comes from.
LEMMA PendStep ==
    ASSUME TypeInv, FrameInv, NestInv, StateInv, LinkInv, PendInv, NEW t \in Threads,
           Alternatives(t)
    PROVE  PendInv'
<1> SUFFICES ASSUME NEW u \in Threads, NEW k \in Depths(u)', k = Len(stack'[u]),
                    stack'[u][k].pc # "clinit", pend'[u] # NoOne,
                    NEW b \in 1 .. k, Start(u, k, b)', NEW c, c = stack'[u][b].cls
             PROVE  BrokenFamily(c)'
  BY DEF PendInv, BrokenFamily
<1>1. CASE u # t
  <2>1. stack'[u] = stack[u] /\ pend'[u] = pend[u] /\ Depths(u)' = Depths(u)
    BY <1>1, OtherStacks, Changes
  <2>2. k \in Depths(u) /\ Start(u, k, b)
    BY <2>1, StartSame
  <2>3. BrokenFamily(c)
    BY <2>1, <2>2 DEF PendInv
  <2>4. QED
    BY <2>3, BrokenStays
<1>2. CASE u = t
  <2> DEFINE n == Size(t)
  <2>1. n \in Nat /\ Depths(t) = 1 .. n /\ n = Len(stack[t])
    BY StackType DEF Size
  <2>2. ASSUME n \in Depths(t)
        PROVE  /\ Top(t) = stack[t][n] /\ Top(t).cls \in Classes
               /\ \A a \in 1 .. n : stack[t][a].cls \in Entry
    BY <2>2, <2>1, TopFacts, StackType, SuperSetType DEF Frame
  <2>3. ASSUME n \in Depths(t), Start(t, n, b), b \in 1 .. n
        PROVE  stack[t][n].cls \in Family[stack[t][b].cls]
    BY <2>3 DEF LinkInv
  <2>4. ASSUME n \in Depths(t), Start(t, n, b), b \in 1 .. n, pend[t] # NoOne,
               Top(t).pc # "clinit", c = stack[t][b].cls
        PROVE  BrokenFamily(c)'
    <3>1. BrokenFamily(c)
      BY <2>1, <2>2, <2>4 DEF PendInv
    <3>2. QED
      BY <3>1, BrokenStays
  <2>5. ASSUME n \in Depths(t), NEW pc, NEW i, Moved(t, pc, i)
        PROVE  k = n /\ Start(t, n, b) /\ b \in 1 .. n /\ stack'[t][b].cls = stack[t][b].cls
    <3>1. k = n /\ k \in Depths(t)
      BY <1>2, <2>1, <2>5, MovedFrames
    <3>2. QED
      BY <1>2, <3>1, StartSame
  <2>6. ASSUME Popped(t), n \in Depths(t)
        PROVE  Start(t, n, b) /\ b \in 1 .. n /\ stack'[t][b].cls = stack[t][b].cls
    <3>1. k = n - 1
      BY <1>2, <2>6, PoppedFrames
    <3>2. QED
      BY <1>2, <2>6, <3>1, PopStart
  <2> HIDE DEF n
  <2>7. CASE Begins(t) \/ Asks(t)
    BY <1>2, <2>7, FirstStart
  <2>8. CASE Tries(t) \/ Takes(t) \/ Fails(t)
    <3>1. /\ n \in Depths(t) /\ Top(t).pc # "clinit" /\ pend' = pend /\ \E pc, i : Moved(t, pc, i)
      BY <2>8 DEF Tries, Takes, Fails, LoopDone, Inside, OnlyStack, n
    <3>2. QED
      BY <1>2, <2>4, <2>5, <3>1
  <2>9. CASE Refuses(t)
    <3>1. n \in Depths(t) /\ Popped(t) /\ state[Top(t).cls] = "failed"
      BY <2>9 DEF Refuses, Inside, n
    <3>2. BrokenFamily(c)
      BY <1>2, <2>2, <2>3, <2>6, <3>1 DEF BrokenFamily
    <3>3. QED
      BY <3>2, BrokenStays
  <2>10. CASE Accepts(t) \/ Leaves(t) \/ Releases(t)
    <3>1. n \in Depths(t) /\ Popped(t) /\ Top(t).pc # "clinit" /\ pend' = pend
      BY <2>10 DEF Accepts, Leaves, Releases, LoopDone, Inside, OnlyStack, n
    <3>2. QED
      BY <1>2, <2>4, <2>6, <3>1
  <2>11. CASE Misses(t)
    <3>1. /\ n \in Depths(t) /\ \E pc, i : Moved(t, pc, i)
          /\ Top(t).i \in 1 .. Len(Supers[Top(t).cls]) /\ Supers[Top(t).cls][Top(t).i] = Missing
      BY <2>11 DEF Misses, InLoop, Inside, n
    <3>2. Missing \in SuperSet(Top(t).cls)
      BY <2>2, <3>1, SuperSetType
    <3>3. b \in 1 .. n /\ Top(t).cls \in Family[stack[t][b].cls] /\ stack[t][b].cls \in Entry
      BY <2>2, <2>3, <2>5, <3>1
    <3>4. c = stack[t][b].cls
      BY <1>2, <2>5, <3>1
    <3>5. Missing \in Family[c]
      BY <3>2, <3>3, <3>4, FamilyFacts
    <3>6. QED
      BY <3>5 DEF BrokenFamily
  <2>12. CASE Climbs(t)
    <3>1. k = n + 1
      <4>1. n \in Depths(t) /\ \E i, g : Called(t, i, g)
        BY <2>12 DEF Climbs, InLoop, Inside, n
      <4>2. QED
        BY <1>2, <4>1, CalledFrames DEF n
    <3>2. /\ n \in Depths(t) /\ n \in Depths(t)' /\ b \in 1 .. n /\ Start(t, n, b)
          /\ stack[t][n].pc = "supers"
      BY <1>2, <2>12, <3>1, ClimbStart DEF n
    <3>3. stack'[t][b].cls = stack[t][b].cls
      BY <3>2, StartSame
    <3>4. pend' = pend
      BY <2>12 DEF Climbs, OnlyStack
    <3>5. QED
      BY <1>2, <2>2, <2>4, <3>2, <3>3, <3>4
  <2>13. CASE Starts(t) \/ Succeeds(t) \/ Catches(t)
    BY <1>2, <2>13 DEF Starts, Succeeds, Catches, Throw, TypeInv
  <2>14. CASE Touches(t)
    <3>1. n \in Depths(t) /\ Moved(t, "clinit", Top(t).i + 1)
      BY <2>14 DEF Touches, Inside, n
    <3>2. k = n /\ stack'[t][n].pc = "clinit"
      BY <2>5, <3>1 DEF Moved, TopAt, n
    <3>3. QED
      BY <1>2, <3>2
  <2>15. CASE Throws(t)
    <3>1. /\ n \in Depths(t) /\ \E pc, i : Moved(t, pc, i)
          /\ SetInitState(Top(t).cls, "failed")
      BY <2>15 DEF Throws, Inside, n
    <3>2. Top(t).cls \in Family[stack[t][b].cls] /\ Top(t).cls \in Classes
      BY <2>2, <2>3, <2>5, <3>1
    <3>3. state'[Top(t).cls] = "failed"
      BY <3>1, <3>2 DEF SetInitState, TypeInv
    <3>4. c = stack[t][b].cls
      BY <1>2, <2>5, <3>1
    <3>5. QED
      BY <3>2, <3>3, <3>4 DEF BrokenFamily
  <2>16. QED
    BY <2>7, <2>8, <2>9, <2>10, <2>11, <2>12, <2>13, <2>14, <2>15 DEF Alternatives
<1>3. QED
  BY <1>1, <1>2

\* A class that fails without <clinit> does so because of its family.
LEMMA FailureStep ==
    ASSUME TypeInv, FrameInv, StateInv, LinkInv, PendInv, FailureInFamily,
           NEW t \in Threads, Alternatives(t)
    PROVE  FailureInFamily'
<1> SUFFICES ASSUME NEW c \in Classes, state'[c] = "failed", ran'[c] = 0
             PROVE  \E k \in Classes : c \in Family[k] /\
                       \E d \in Family[k] \ {c} : d = Missing \/ state'[d] = "failed"
  BY DEF FailureInFamily
<1>1. ASSUME NEW k \in Classes, NEW d \in Family[k], d = Missing \/ state[d] = "failed"
      PROVE  d = Missing \/ state'[d] = "failed"
  <2>1. d \in Classes \cup {Missing}
    BY FamilyFacts, SuperSetType DEF Entry
  <2>2. QED
    BY <1>1, <2>1, VerdictFinal
<1>2. ran[c] = 0
  <2>1. CASE Starts(t)
    BY <2>1 DEF Starts, TypeInv
  <2>2. CASE ~Starts(t)
    BY <2>2 DEF Alternatives, Begins, Tries, Refuses, Accepts, Takes, Misses, Climbs, Leaves, Fails,
       Succeeds, Touches, Asks, Catches, Throws, Releases, OnlyStack
  <2>3. QED
    BY <2>1, <2>2
<1>3. CASE state[c] = "failed"
  BY <1>1, <1>2, <1>3 DEF FailureInFamily
<1>4. CASE state[c] # "failed"
  <2>1. c = Top(t).cls /\ (Fails(t) \/ Throws(t))
    BY <1>4 DEF Alternatives, Begins, Tries, Refuses, Accepts, Takes, Misses, Climbs, Leaves, Starts,
       Succeeds, Touches, Asks, Catches, Releases, Fails, Throws, OnlyStack, SetInitState, TypeInv
  <2> DEFINE n == Size(t)
  <2>2. /\ n \in Depths(t) /\ Top(t) = stack[t][n] /\ Holder(t, n, c) /\ n = Len(stack[t])
    BY <2>1, TopFacts DEF Fails, Throws, LoopDone, Inside, Holds, Size
  <2>3. Consistent(t, n, c)
    BY <2>2 DEF StateInv
  <2>4. CASE Throws(t)
    BY <1>2, <2>2, <2>3, <2>4 DEF Throws, Inside, Consistent
  <2>5. CASE Fails(t)
    <3>1. stack[t][n].pc = "supers" /\ pend[t] # NoOne
      BY <2>2, <2>5 DEF Fails, LoopDone, Inside
    <3>2. PICK b \in 1 .. n : Start(t, n, b)
      BY <2>2 DEF LinkInv
    <3> DEFINE k == stack[t][b].cls
    <3>3. k \in Classes
      BY <2>2, <3>2, StackType DEF Frame
    <3>4. c \in Family[k]
      BY <2>1, <2>2, <3>2 DEF LinkInv
    <3>5. PICK d \in Family[k] : d = Missing \/ (d \in Classes /\ state[d] = "failed")
      BY <2>2, <3>1, <3>2 DEF PendInv, BrokenFamily
    <3>6. d # c
      BY <1>4, <3>5, HierarchyAssumption
    <3> HIDE DEF k
    <3>7. QED
      BY <1>1, <3>3, <3>4, <3>5, <3>6
  <2>6. QED
    BY <2>1, <2>4, <2>5
<1>5. QED
  BY <1>3, <1>4


-----------------------------------------------------------------------------
(* Super classes that are ready.                                           *)

\* What is ready stays ready as long as the frame that relies on it.
LEMMA ReadyStays ==
    ASSUME TypeInv, FrameInv, StateInv, NEW t \in Threads, Alternatives(t),
           NEW u \in Threads, NEW k \in Depths(u)', NEW c \in Classes,
           u = t /\ k >= Size(t) => ~(Fails(t) \/ Throws(t)), ReadyAt(u, k, c)
    PROVE  ReadyAt(u, k, c)'
<1>1. CASE state[c] = "initialized"
  BY <1>1, VerdictFinal DEF ReadyAt
<1>2. CASE state[c] # "initialized"
  <2>1. PICK j \in 1 .. k : Holder(u, j, c) /\ stack[u][j].pc # "exit"
    BY <1>2 DEF ReadyAt
  <2>2. j \in Depths(u) /\ Depths(u) = 1 .. Size(u) /\ Size(u) \in Nat /\ j \in Nat
    BY <2>1, StackType DEF Holder
  <2>3. j \in Depths(u)' /\ k >= j
    BY <2>2 DEF Depths
  <2>4. CASE Old(t, u, j)
    BY <2>1, <2>3, <2>4 DEF Old, ReadyAt, Holder, Holds
  <2>5. CASE u = t /\ j = Size(t)
    <3>1. ~Popped(t) /\ ~Begins(t)
      BY <2>2, <2>3, <2>5, PoppedFrames DEF Begins
    <3>2. /\ Top(t) = stack[t][Size(t)] /\ Holds(Top(t)) /\ Top(t).pc # "exit" /\ c = Top(t).cls
          /\ Holder(t, j, c)
      BY <2>1, <2>2, <2>5, StackType DEF Holder
    <3>3. ~(Fails(t) \/ Throws(t)) /\ ~Tries(t) /\ ~Takes(t) /\ ~Releases(t)
      BY <2>3, <2>5, <3>2 DEF Tries, Takes, Releases, Inside, Holds
    <3>4. CASE Succeeds(t)
      BY <3>2, <3>4 DEF Succeeds, SetInitState, TypeInv, ReadyAt
    <3>5. CASE Misses(t) \/ Starts(t) \/ Touches(t)
      <4>1. \E pc, i : Moved(t, pc, i) /\ pc # "exit"
        BY <3>5 DEF Misses, Starts, Touches
      <4>2. stack'[t][j].pc # "exit"
        BY <2>5, <4>1 DEF Moved, TopAt
      <4>3. Holder(t, j, c)'
        BY <2>5, <3>2, <3>5, SameHolders DEF Holding, Takes, Releases, Misses, Starts, Touches,
           InLoop, LoopDone, Inside
      <4>4. QED
        BY <2>5, <4>2, <4>3 DEF ReadyAt
    <3>6. CASE Climbs(t) \/ Asks(t)
      <4>1. \E i, g : Called(t, i, g)
        BY <3>6 DEF Climbs, Asks
      <4>2. stack'[t][j].pc # "exit"
        BY <2>5, <3>2, <4>1 DEF Called, TopAt
      <4>3. Holder(t, j, c)'
        BY <2>5, <3>2, <3>3, SameHolders DEF Holding
      <4>4. QED
        BY <2>5, <4>2, <4>3 DEF ReadyAt
    <3>7. CASE Catches(t)
      BY <2>1, <2>3, <3>7 DEF Catches, ReadyAt, Holder, Holds
    <3>8. QED
      BY <3>1, <3>3, <3>4, <3>5, <3>6, <3>7
      DEF Alternatives, Refuses, Accepts, Leaves
  <2>6. Old(t, u, j) \/ (u = t /\ j = Size(t))
    BY <2>2, <2>3, FrameKept
  <2>7. QED
    BY <2>4, <2>5, <2>6
<1>3. QED
  BY <1>1, <1>2

LEMMA EntryStays ==
    ASSUME TypeInv, FrameInv, StateInv, NEW t \in Threads, Alternatives(t),
           NEW u \in Threads, NEW k \in Depths(u)', NEW s \in Entry,
           u = t /\ k >= Size(t) => ~(Fails(t) \/ Throws(t)), EntryReady(u, k, s)
    PROVE  EntryReady(u, k, s)'
<1>1. ASSUME NEW r \in Entry, r # Missing, ReadyAt(u, k, r) PROVE ReadyAt(u, k, r)'
  BY <1>1, ReadyStays DEF Entry
<1>2. \A r \in Reached[s] : r \in Entry
  BY DEF Reached
<1>3. QED
  BY <1>1, <1>2 DEF EntryReady

\* When the loop has come to its end, all that the class reaches is ready.
LEMMA AllReady ==
    ASSUME NEW t \in Threads, NEW k \in Depths(t), k = Len(stack[t]), NEW c \in Classes,
           c = stack[t][k].cls, stack[t][k].i \in Nat, stack[t][k].i > Len(Supers[c]),
           EntriesReady(t, k), NEW r \in Reached[c]
    PROVE  r \in Classes /\ r # Missing /\ ReadyAt(t, k, r)
<1>1. PICK e \in 1 .. Len(Supers[c]) :
        IF Supers[c][e] \in Plain THEN r \in Reached[Supers[c][e]] ELSE r = Supers[c][e]
  BY ReachedFacts
<1>2. Len(Supers[c]) \in Nat
  BY HierarchyAssumption
<1>3. e \in Passed(t, k) /\ e <= Len(Supers[c])
  BY <1>2 DEF Passed
<1>4. EntryReady(t, k, Supers[c][e])
  BY <1>3 DEF EntriesReady
<1>5. r # Missing /\ ReadyAt(t, k, r)
  BY <1>1, <1>4 DEF EntryReady
<1>6. QED
  BY <1>5, ReachedFacts DEF Entry

\* A loop that may lead to <clinit> after a step might before.
LEMMA MayStart ==
    ASSUME TypeInv, FrameInv, NEW t \in Threads, Alternatives(t), NEW k \in Depths(t),
           k < Size(t), pend'[t] = NoOne \/ ClinitAbove(t, k)'
    PROVE  pend[t] = NoOne \/ ClinitAbove(t, k)
<1>1. Size(t) \in Depths(t) /\ Size(t) > k /\ Top(t) = stack[t][Size(t)] /\ Size(t) >= 1
  BY StackType
<1>2. CASE Top(t).pc = "clinit"
  BY <1>1, <1>2 DEF ClinitAbove
<1>3. CASE Top(t).pc # "clinit"
  <2>1. CASE pend'[t] = NoOne
    <3>1. ~Catches(t)
      BY <1>1, <1>3 DEF Catches, Inside
    <3>2. CASE Refuses(t) \/ Misses(t) \/ Throws(t)
      <4>1. \E c \in Classes \cup {Missing} : Throw(t, c)
        BY <1>1, <3>2, TopFacts DEF Refuses, Misses, Throws
      <4>2. QED
        BY <2>1, <4>1, HierarchyAssumption DEF Throw, TypeInv
    <3>3. CASE ~(Refuses(t) \/ Misses(t) \/ Throws(t))
      BY <2>1, <3>1, <3>3 DEF Alternatives, Begins, Tries, Accepts, Takes, Climbs, Leaves, Fails,
         Starts, Succeeds, Touches, Asks, Releases, OnlyStack
    <3>4. QED
      BY <3>2, <3>3
  <2>2. CASE ClinitAbove(t, k)'
    <3>1. PICK j \in Depths(t)' : j > k /\ stack'[t][j].pc = "clinit"
      BY <2>2 DEF ClinitAbove
    <3>2. CASE j \notin Depths(t)
      <4>1. j = Size(t) + 1 /\ (Begins(t) \/ Climbs(t) \/ Asks(t))
        BY <3>2, NewFrame
      <4>2. Climbs(t)
        BY <1>1, <1>3, <4>1 DEF Begins, Asks, Inside
      <4>3. PICK g : g.pc # "clinit" /\ \E i : Called(t, i, g)
        BY <4>2 DEF Climbs, InitFrame, SupersFrame
      <4>4. QED
        BY <3>1, <4>1, <4>3 DEF Called
    <3>3. CASE Old(t, t, j)
      BY <3>1, <3>3 DEF Old, ClinitAbove
    <3>4. CASE j = Size(t)
      <4>1. CASE Starts(t)
        BY <4>1 DEF Starts
      <4>2. CASE ~Starts(t)
        <5>1. stack' # stack
          BY <1>1, <1>3, <3>1, <3>4
        <5>2. ~Popped(t)
          BY <1>1, <3>4, PoppedFrames
        <5>3. ~(\E i, g : Called(t, i, g))
          BY <1>1, <1>3, <3>1, <3>4 DEF Called, TopAt
        <5>4. ~(\E pc, i : pc # "clinit" /\ Moved(t, pc, i))
          BY <3>1, <3>4 DEF Moved, TopAt
        <5>5. QED
          BY <1>1, <1>3, <4>2, <5>1, <5>2, <5>3, <5>4
          DEF Alternatives, Begins, Tries, Refuses, Accepts, Takes, Misses, Climbs, Leaves, Fails,
              Succeeds, Touches, Asks, Catches, Throws, Releases, Inside
      <4>3. QED
        BY <4>1, <4>2
    <3>5. QED
      BY <3>2, <3>3, <3>4, FrameKept
  <2>3. QED
    BY <2>1, <2>2
<1>4. QED
  BY <1>2, <1>3

\* The entry that a nested call without exception has dealt with.
LEMMA ReturnReady ==
    ASSUME TypeInv, FrameInv, NestInv, OwnInv, StateInv, ReadyInv, NEW t \in Threads, Alternatives(t),
           Size(t) \in Depths(t), Popped(t), pend'[t] = NoOne, NEW k \in Depths(t), k = Size(t) - 1,
           stack[t][k].pc = "supers", NEW s, s = Top(t).cls
    PROVE  /\ s = Supers[stack[t][k].cls][stack[t][k].i - 1]
           /\ EntryReady(t, k, s) /\ pend[t] = NoOne
<1>1. Size(t) \in Nat /\ Depths(t) = 1 .. Size(t) /\ k < Len(stack[t]) /\ k + 1 = Size(t)
  BY StackType DEF Size
<1>2. /\ s = Supers[stack[t][k].cls][stack[t][k].i - 1] /\ (Top(t).kind = "supers" <=> s \in Plain)
  BY <1>1, TopFacts DEF NestInv
<1>3. s \in Classes /\ s # Missing /\ Top(t) = stack[t][Size(t)]
  BY TopFacts, HierarchyAssumption
<1>4. /\ Accepts(t) \/ Leaves(t) \/ Releases(t)
      /\ pend[t] = NoOne
  <2>1. ~Refuses(t)
    BY <1>3, HierarchyAssumption DEF Refuses, Throw, TypeInv
  <2>2. Len(stack'[t]) = Size(t) - 1
    BY DEF Popped
  <2>3. ~(\E pc, i : Moved(t, pc, i)) /\ ~(\E i, g : Called(t, i, g)) /\ stack' # stack
    BY <1>1, <2>2 DEF Moved, Called, Size
  <2>4. ~Begins(t)
    BY <1>1 DEF Begins
  <2>5. ~(Tries(t) \/ Takes(t) \/ Misses(t) \/ Fails(t) \/ Starts(t) \/ Succeeds(t) \/ Touches(t))
    BY <2>3 DEF Tries, Takes, Misses, Fails, Starts, Succeeds, Touches
  <2>6. ~(Climbs(t) \/ Asks(t) \/ Catches(t) \/ Throws(t))
    BY <2>3 DEF Climbs, Asks, Catches, Throws
  <2>7. Accepts(t) \/ Leaves(t) \/ Releases(t)
    BY <2>1, <2>4, <2>5, <2>6 DEF Alternatives
  <2>8. QED
    BY <2>7 DEF Accepts, Leaves, Releases, OnlyStack
<1>5. CASE Accepts(t)
  <2>1. Top(t).pc \in {"try", "enter"}
    BY <1>5 DEF Accepts, Inside
  <2>2. s \notin Plain
    BY <1>2, <1>3, <2>1 DEF FrameInv
  <2>3. CASE state[s] = "initialized"
    BY <1>2, <1>3, <1>4, <2>2, <2>3 DEF EntryReady, ReadyAt
  <2>4. CASE state[s] = "initializing" /\ Free(t, s)
    <3>1. monitor[s].owner = t
      BY <1>3, <2>4 DEF Free, StateInv
    <3>2. PICK j \in Depths(t) : Holder(t, j, s)
      BY <1>3, <3>1 DEF OwnInv
    <3>3. stack[t][j].pc # "exit"
      BY <1>3, <2>4, <3>2 DEF StateInv, Consistent
    <3>4. j # Size(t)
      BY <1>3, <2>1, <3>2 DEF Holder, Holds
    <3>5. j \in 1 .. k
      BY <1>1, <3>4
    <3>6. QED
      BY <1>2, <1>3, <1>4, <2>2, <3>2, <3>3, <3>5 DEF EntryReady, ReadyAt
  <2>5. QED
    BY <1>5, <2>3, <2>4 DEF Accepts
<1>6. CASE Releases(t)
  <2>1. Top(t).pc = "exit"
    BY <1>6 DEF Releases, Inside
  <2>2. s \notin Plain
    BY <1>2, <1>3, <2>1 DEF FrameInv
  <2>3. Holder(t, Size(t), s)
    BY <1>6, ReleasesOwn
  <2>4. state[s] = "initialized"
    BY <1>3, <1>4, <2>1, <2>3 DEF StateInv, Consistent
  <2>5. QED
    BY <1>2, <1>3, <1>4, <2>2, <2>4 DEF EntryReady, ReadyAt
<1>7. CASE Leaves(t)
  <2>1. /\ Top(t).kind = "supers" /\ Top(t).pc = "supers" /\ Top(t).rec
        /\ Top(t).i > Len(Supers[s]) /\ Top(t).i \in Nat
    BY <1>3, <1>7, TopFacts DEF Leaves, LoopDone, Inside, FrameInv
  <2>2. EntriesReady(t, Size(t))
    BY <1>3, <1>4, <2>1 DEF ReadyInv
  <2>3. ASSUME NEW r \in Reached[s] PROVE r # Missing /\ ReadyAt(t, k, r)
    <3>1. r \in Classes /\ r # Missing /\ ReadyAt(t, Size(t), r)
      BY <1>3, <2>1, <2>2, AllReady DEF Size
    <3>2. ~Holder(t, Size(t), r)
      BY <1>3, <2>1 DEF Holder, Holds
    <3>3. \A j \in 1 .. Size(t) : j = Size(t) \/ j \in 1 .. k
      BY <1>1
    <3>4. QED
      BY <3>1, <3>2, <3>3 DEF ReadyAt
  <2>4. QED
    BY <1>2, <1>4, <2>1, <2>3 DEF EntryReady
<1>8. QED
  BY <1>4, <1>5, <1>6, <1>7

\* A new frame has no entry behind it and is not in <clinit>.
LEMMA NewLoop ==
    ASSUME TypeInv, FrameInv, NEW t \in Threads, Alternatives(t), NEW u \in Threads,
           NEW k \in Depths(u)', k \notin Depths(u)
    PROVE  EntriesReady(u, k)' /\ stack'[u][k].pc # "clinit"
<1>1. u = t /\ k = Size(t) + 1 /\ (Begins(t) \/ Climbs(t) \/ Asks(t))
  BY NewFrame
<1>2. stack'[t][k].i = 1 /\ stack'[t][k].pc # "clinit" /\ Len(stack'[t]) = k
  <2>1. CASE Begins(t)
    BY <1>1, <2>1 DEF Begins, InitFrame
  <2>2. CASE Climbs(t) \/ Asks(t)
    <3>1. PICK g : g.i = 1 /\ g.pc # "clinit" /\ \E i : Called(t, i, g)
      BY <2>2 DEF Climbs, Asks, InitFrame, SupersFrame
    <3>2. QED
      BY <1>1, <3>1 DEF Called
  <2>3. QED
    BY <1>1, <2>1, <2>2
<1>3. Passed(t, k)' = 1 .. 0
  BY <1>2 DEF Passed
<1>4. QED
  BY <1>1, <1>2, <1>3 DEF EntriesReady

\* A frame gets to <clinit> only from the loop.
LEMMA NewClinit ==
    ASSUME TypeInv, FrameInv, NEW t \in Threads, Alternatives(t), NEW u \in Threads,
           NEW k \in Depths(u), k \in Depths(u)', stack'[u][k].pc = "clinit",
           stack[u][k].pc # "clinit"
    PROVE  u = t /\ k = Size(t) /\ Starts(t)
<1>1. u = t /\ k = Size(t) /\ Top(t) = stack[t][k] /\ Size(t) >= 1
  BY FrameKept, StackType DEF Old
<1>2. stack' # stack
  BY <1>1
<1>3. ~Popped(t)
  BY <1>1, PoppedFrames
<1>4. ~(\E i, g : Called(t, i, g))
  BY <1>1 DEF Called, TopAt
<1>5. ~(\E pc, i : pc # "clinit" /\ Moved(t, pc, i))
  BY <1>1 DEF Moved, TopAt
<1>6. ~Begins(t) /\ ~Touches(t)
  BY <1>1 DEF Begins, Touches, Inside
<1>7. ~(Refuses(t) \/ Accepts(t) \/ Leaves(t) \/ Releases(t))
  BY <1>3 DEF Refuses, Accepts, Leaves, Releases
<1>8. ~(Climbs(t) \/ Asks(t) \/ Catches(t))
  BY <1>2, <1>4 DEF Climbs, Asks, Catches
<1>9. ~(Tries(t) \/ Takes(t) \/ Misses(t) \/ Fails(t) \/ Succeeds(t) \/ Throws(t))
  BY <1>5 DEF Tries, Takes, Misses, Fails, Succeeds, Throws
<1>10. QED
  BY <1>1, <1>6, <1>7, <1>8, <1>9 DEF Alternatives

\* A call for a super class returns: its entry is dealt with as well.
LEMMA LastEntry ==
    ASSUME TypeInv, FrameInv, NestInv, OwnInv, StateInv, ReadyInv, NEW t \in Threads, Alternatives(t),
           NEW k \in Depths(t)', k \in Depths(t), Old(t, t, k), Size(t) \in Depths(t),
           stack'[t][k].pc = "supers", pend'[t] = NoOne \/ ClinitAbove(t, k)',
           EntriesReady(t, k), Passed(t, k)' # Passed(t, k)
    PROVE  EntriesReady(t, k)'
<1> DEFINE n == Size(t)
           i == stack[t][k].i
<1>0. PICK c \in Classes : c = stack[t][k].cls
  BY StackType DEF Frame
<1>1. n \in Nat /\ Depths(t) = 1 .. n /\ n = Len(stack[t]) /\ k < n /\ k \in Nat
  BY StackType DEF Size, Old
<1>2. /\ stack'[t][k] = stack[t][k] /\ c \in Classes /\ i \in Nat /\ stack[t][k].pc = "supers"
  BY StackType DEF Old, Frame
<1>3. k = Len(stack'[t])
  BY <1>1, <1>2 DEF Passed
<1>4. Popped(t) /\ k = n - 1 /\ Len(stack'[t]) = n - 1
  <2>1. ~(\E pc, j : Moved(t, pc, j)) /\ ~(\E j, g : Called(t, j, g)) /\ stack' # stack
    BY <1>1, <1>3 DEF Moved, Called, Size
  <2>2. ~Begins(t)
    BY <1>1 DEF Begins
  <2>3. ~Climbs(t) /\ ~Asks(t)
    BY <2>1 DEF Climbs, Asks
  <2>4. Popped(t)
    BY <2>1, <2>2, <2>3, StackKinds
  <2>5. QED
    BY <1>3, <2>4 DEF Popped
<1>5. ~ClinitAbove(t, k)'
  BY <1>1, <1>3 DEF ClinitAbove, Depths
<1>6. EntryReady(t, k, Supers[c][i - 1])
  <2>1. PICK s \in Classes : s = Top(t).cls
    BY TopFacts
  <2>2. s = Supers[stack[t][k].cls][stack[t][k].i - 1] /\ EntryReady(t, k, s)
    BY <1>2, <1>4, <1>5, <2>1, ReturnReady
  <2>3. QED
    BY <1>0, <2>2
<1>7. Passed(t, k)' = 1 .. i - 1 /\ Passed(t, k) = 1 .. i - 2
  BY <1>1, <1>2, <1>3 DEF Passed
<1> SUFFICES ASSUME NEW e \in 1 .. i - 1, e <= Len(Supers[c])
             PROVE  EntryReady(t, k, Supers[c][e])'
  BY <1>0, <1>2, <1>7 DEF EntriesReady
<1>8. EntryReady(t, k, Supers[c][e])
  <2>1. e = i - 1 \/ e \in 1 .. i - 2
    BY <1>2
  <2>2. QED
    BY <1>0, <1>6, <1>7, <2>1 DEF EntriesReady
<1>9. Supers[c] \in Seq(Entry) /\ Len(Supers[c]) \in Nat
  BY <1>2, HierarchyAssumption DEF Entry
<1>10. e \in 1 .. Len(Supers[c])
  BY <1>2, <1>9
<1>11. PICK s \in Entry : s = Supers[c][e]
  BY <1>9, <1>10
<1>12. ~(t = t /\ k >= Size(t))
  BY <1>1
<1>13. EntryReady(t, k, s)'
  BY <1>8, <1>11, <1>12, EntryStays
<1>14. QED
  BY <1>11, <1>13

\* No super class is left behind.
LEMMA ReadyStep ==
    ASSUME TypeInv, FrameInv, NestInv, OwnInv, StateInv, ReadyInv, NEW t \in Threads, Alternatives(t)
    PROVE  ReadyInv'
<1>1. ASSUME NEW u \in Threads, NEW k \in Depths(u)
      PROVE  /\ stack[u][k].cls \in Classes /\ stack[u][k].i \in Nat
             /\ \A e \in 1 .. Len(Supers[stack[u][k].cls]) : Supers[stack[u][k].cls][e] \in Entry
             /\ Len(Supers[stack[u][k].cls]) \in Nat
  <2>1. stack[u][k].cls \in Classes /\ stack[u][k].i \in Nat
    BY StackType DEF Frame
  <2>2. Supers[stack[u][k].cls] \in Seq(Entry)
    BY <2>1, HierarchyAssumption DEF Entry
  <2>3. QED
    BY <2>1, <2>2
<1>2. ASSUME NEW u \in Threads, NEW k \in Depths(u)', k \in Depths(u), SameCall(u, k),
             Passed(u, k)' = Passed(u, k), EntriesReady(u, k),
             u = t /\ k >= Size(t) => ~(Fails(t) \/ Throws(t))
      PROVE  EntriesReady(u, k)'
  <2>0. PICK c \in Classes : c = stack[u][k].cls
    BY <1>1, <1>2
  <2>1. stack'[u][k].cls = c /\ c \in Classes /\ Len(Supers[c]) \in Nat
    BY <1>1, <1>2, <2>0 DEF SameCall
  <2> SUFFICES ASSUME NEW e \in Passed(u, k), e <= Len(Supers[c])
               PROVE  EntryReady(u, k, Supers[c][e])'
    BY <1>2, <2>1 DEF EntriesReady
  <2>2. EntryReady(u, k, Supers[c][e])
    BY <1>2, <2>0 DEF EntriesReady
  <2>3. e \in 1 .. Len(Supers[c])
    BY <1>1, <1>2, <2>1 DEF Passed
  <2>4. PICK s \in Entry : s = Supers[c][e]
    BY <1>1, <1>2, <2>0, <2>3
  <2>5. EntryReady(u, k, s)'
    BY <1>2, <2>2, <2>4, EntryStays
  <2>6. QED
    BY <2>4, <2>5
<1>3. ASSUME NEW u \in Threads, NEW k \in Depths(u)', stack'[u][k].pc = "supers", stack'[u][k].rec,
             pend'[u] = NoOne \/ ClinitAbove(u, k)'
      PROVE  EntriesReady(u, k)'
  <2>1. CASE u # t
    <3>1. /\ stack'[u] = stack[u] /\ pend'[u] = pend[u] /\ Depths(u)' = Depths(u)
      BY <2>1, OtherStacks, Changes
    <3>2. ClinitAbove(u, k)' <=> ClinitAbove(u, k)
      BY <3>1 DEF ClinitAbove
    <3>3. EntriesReady(u, k) /\ SameCall(u, k) /\ Passed(u, k)' = Passed(u, k)
      BY <1>3, <3>1, <3>2 DEF ReadyInv, SameCall, Passed
    <3>4. QED
      BY <1>2, <2>1, <3>1, <3>3
  <2>2. CASE u = t
    <3> DEFINE n == Size(t)
    <3>1. n \in Nat /\ Depths(t) = 1 .. n /\ n = Len(stack[t])
      BY StackType DEF Size
    <3>2. CASE k \notin Depths(t)
      BY <2>2, <3>2, NewLoop
    <3>3. CASE k \in Depths(t) /\ k = n
      <4>1. Top(t) = stack[t][n] /\ n \in Depths(t) /\ SameCall(t, n)
        BY <2>2, <3>3, StackType, FramesBelow
      <4>2. CASE Takes(t)
        BY <2>2, <3>1, <3>3, <4>1, <4>2 DEF Takes, Inside, FrameInv, Moved, TopAt, Size, EntriesReady,
           Passed
      <4>3. CASE Climbs(t)
        <5>1. PICK g : Called(t, Top(t).i + 1, g) /\ g.pc # "clinit"
          BY <4>3 DEF Climbs, InitFrame, SupersFrame
        <5>2. /\ stack[t][n].pc = "supers" /\ stack[t][n].rec /\ pend' = pend
          BY <4>1, <4>3 DEF Climbs, InLoop, Inside, OnlyStack
        <5>3. /\ Len(stack'[t]) = n + 1 /\ stack'[t][n].i = stack[t][n].i + 1 /\ stack'[t][n + 1] = g
              /\ Depths(t)' = Depths(t) \cup {n + 1}
          BY <4>1, <5>1, CalledFrames
        <5>4. ~ClinitAbove(t, k)'
          BY <3>1, <3>3, <5>1, <5>3 DEF ClinitAbove
        <5>5. EntriesReady(t, n)
          BY <1>3, <2>2, <4>1, <5>2, <5>4 DEF ReadyInv
        <5>6. stack'[t][n].i - 2 = stack[t][n].i - 1 /\ n # Len(stack'[t])
          BY <1>1, <3>1, <4>1, <5>3
        <5>7. Passed(t, k)' = Passed(t, k)
          BY <3>1, <3>3, <5>6 DEF Passed
        <5>8. ~(Fails(t) \/ Throws(t))
          BY <3>1, <5>3 DEF Fails, Throws, Moved, Size
        <5>9. QED
          BY <1>2, <2>2, <3>3, <4>1, <5>5, <5>7, <5>8
      <4>4. CASE Misses(t)
        <5>1. pend'[t] # NoOne /\ Moved(t, "supers", Len(Supers[Top(t).cls]) + 1)
          BY <4>4, HierarchyAssumption DEF Misses, Throw, TypeInv
        <5>2. Depths(t)' = Depths(t)
          BY <5>1, MovedFrames
        <5>3. ~ClinitAbove(t, k)'
          BY <3>1, <3>3, <5>2 DEF ClinitAbove
        <5>4. QED
          BY <1>3, <2>2, <5>1, <5>3
      <4>5. CASE Tries(t) \/ Fails(t) \/ Starts(t) \/ Succeeds(t) \/ Touches(t) \/ Throws(t)
        BY <1>3, <2>2, <3>3, <4>5 DEF Tries, Fails, Starts, Succeeds, Touches, Throws, Moved, TopAt
      <4>6. CASE Asks(t) \/ Catches(t) \/ Begins(t)
        BY <1>3, <2>2, <3>1, <3>3, <4>1, <4>6 DEF Asks, Catches, Begins, Inside, Called, TopAt
      <4>7. CASE Refuses(t) \/ Accepts(t) \/ Leaves(t) \/ Releases(t)
        <5>1. Popped(t)
          BY <4>7 DEF Refuses, Accepts, Leaves, Releases
        <5>2. Depths(t)' = Depths(t) \ {n}
          BY <4>1, <5>1, PoppedFrames
        <5>3. QED
          BY <2>2, <3>3, <5>2
      <4>8. QED
        BY <4>2, <4>3, <4>4, <4>5, <4>6, <4>7 DEF Alternatives
    <3>4. CASE k \in Depths(t) /\ k # n
      <4>1. k < n /\ Old(t, t, k) /\ n \in Depths(t)
        BY <2>2, <3>1, <3>4, FrameKept
      <4>2. stack'[t][k] = stack[t][k] /\ SameCall(t, k)
        BY <4>1 DEF Old, SameCall
      <4>3. EntriesReady(t, k)
        BY <1>3, <2>2, <3>4, <4>1, <4>2, MayStart DEF ReadyInv
      <4>4. CASE Passed(t, k)' = Passed(t, k)
        BY <1>2, <2>2, <3>1, <3>4, <4>1, <4>2, <4>3, <4>4
      <4>5. CASE Passed(t, k)' # Passed(t, k)
        BY <1>3, <2>2, <3>4, <4>1, <4>3, <4>5, LastEntry
      <4>6. QED
        BY <4>4, <4>5
    <3>5. QED
      BY <3>2, <3>3, <3>4
  <2>3. QED
    BY <2>1, <2>2
<1>4. ASSUME NEW u \in Threads, NEW k \in Depths(u)', stack'[u][k].pc = "clinit", stack'[u][k].rec,
             NEW s \in Reached[stack'[u][k].cls]
      PROVE  s # Missing /\ ReadyAt(u, k, s)'
  <2>1. k \in Depths(u)
    BY <1>4, NewLoop
  <2>2. SameCall(u, k) /\ stack[u][k].cls \in Classes
    BY <1>1, <2>1, FramesBelow
  <2>3. s \in Reached[stack[u][k].cls] /\ stack[u][k].rec
    BY <1>4, <2>2 DEF SameCall
  <2>4. s \in Entry
    BY <2>2, <2>3, ReachedFacts
  <2>5. u = t /\ k >= Size(t) => ~(Fails(t) \/ Throws(t))
    <3>1. ASSUME u = t, k >= Size(t), Fails(t) \/ Throws(t) PROVE FALSE
      <4>1. k = Size(t)
        BY <2>1, <3>1, StackType
      <4>2. QED
        BY <1>4, <3>1, <4>1 DEF Fails, Throws, Moved, TopAt
    <3>2. QED
      BY <3>1
  <2>6. s # Missing /\ ReadyAt(u, k, s)
    <3>1. CASE stack[u][k].pc = "clinit"
      BY <2>1, <2>3, <3>1 DEF ReadyInv
    <3>2. CASE stack[u][k].pc # "clinit"
      <4>1. u = t /\ k = Size(t) /\ Starts(t)
        BY <1>4, <2>1, <3>2, NewClinit
      <4>2. /\ Top(t) = stack[t][k] /\ Top(t).pc = "supers" /\ pend[t] = NoOne
            /\ (Top(t).rec => Top(t).i > Len(Supers[Top(t).cls])) /\ k = Len(stack[t])
        BY <2>1, <4>1, StackType DEF Starts, LoopDone, Inside, Size
      <4>3. EntriesReady(t, k)
        BY <2>1, <2>3, <4>1, <4>2 DEF ReadyInv
      <4>4. QED
        BY <1>1, <2>1, <2>2, <2>3, <4>1, <4>2, <4>3, AllReady
    <3>3. QED
      BY <3>1, <3>2
  <2>7. QED
    BY <2>4, <2>5, <2>6, ReadyStays DEF Entry
<1>5. QED
  BY <1>3, <1>4 DEF ReadyInv


-----------------------------------------------------------------------------
(* The theorems.                                                           *)

LEMMA InitIInv == Init => IInv
<1> SUFFICES ASSUME Init PROVE IInv
  OBVIOUS
<1>1. TypeInv
  <2>1. [owner |-> NoOne, depth |-> 0] \in [owner : Threads \cup {NoOne}, depth : Nat]
    OBVIOUS
  <2>2. << >> \in Seq(Frame)
    OBVIOUS
  <2>3. QED
    BY <2>1, <2>2 DEF Init, TypeInv, ClassInitState
<1>2. \A t \in Threads : Depths(t) = {}
  BY DEF Init, Depths
<1>3. FrameInv /\ NestInv /\ ReadyInv /\ LinkInv /\ PendInv
  BY <1>2 DEF FrameInv, NestInv, ReadyInv, LinkInv, PendInv
<1>4. OwnInv /\ StateInv
  BY <1>2, HierarchyAssumption DEF Init, OwnInv, StateInv
<1>5. FailureInFamily
  BY DEF Init, FailureInFamily
<1>6. QED
  BY <1>1, <1>3, <1>4, <1>5 DEF IInv

LEMMA NextIInv == IInv /\ [Next]_vars => IInv'
<1> SUFFICES ASSUME IInv, [Next]_vars PROVE IInv'
  OBVIOUS
<1>1. CASE Next
  <2>1. PICK t \in Threads : Request(t) \/ Step(t)
    BY <1>1 DEF Next
  <2>2. Alternatives(t)
    BY <2>1, StepAlternatives DEF IInv
  <2>3. TypeInv' /\ FrameInv' /\ NestInv'
    BY <2>2, TypeStep, FrameStep, NestStep DEF IInv
  <2>4. OwnInv' /\ StateInv'
    BY <2>2, OwnStep, StateStep DEF IInv
  <2>5. ReadyInv'
    BY <2>2, ReadyStep DEF IInv
  <2>6. LinkInv' /\ PendInv' /\ FailureInFamily'
    BY <2>2, LinkStep, PendStep, FailureStep DEF IInv
  <2>7. QED
    BY <2>3, <2>4, <2>5, <2>6 DEF IInv
<1>2. CASE UNCHANGED vars
  <2>1. TypeInv' /\ FrameInv' /\ NestInv'
    BY <1>2 DEF vars, IInv, TypeInv, FrameInv, NestInv, Depths
  <2>2. OwnInv' /\ StateInv'
    BY <1>2 DEF vars, IInv, OwnInv, StateInv, Consistent, Holder, Depths
  <2>3. ReadyInv'
    BY <1>2 DEF vars, IInv, ReadyInv, ReadyAt, EntryReady, Passed, EntriesReady, ClinitAbove,
       Holder, Depths
  <2>4. LinkInv' /\ PendInv' /\ FailureInFamily'
    <3> stack' = stack /\ pend' = pend /\ state' = state
      BY <1>2 DEF vars
    <3>0. ASSUME NEW t, NEW k, NEW b PROVE Start(t, k, b)' <=> Start(t, k, b)
      BY DEF Start
    <3>1. LinkInv'
      BY <3>0 DEF IInv, LinkInv, Depths
    <3>2. PendInv'
      BY <3>0 DEF IInv, PendInv, BrokenFamily, Depths
    <3>3. FailureInFamily'
      BY <1>2 DEF vars, IInv, FailureInFamily
    <3>4. QED
      BY <3>1, <3>2, <3>3
  <2>5. QED
    BY <2>1, <2>2, <2>3, <2>4 DEF IInv
<1>3. QED
  BY <1>1, <1>2

\* The invariant holds in every state, for any threads and any hierarchy of
\* classes, also one with circles: InitClassImpl keeps the monitor, the state
\* word and the call stacks in step.
THEOREM InductiveInvariant == Spec => []IInv
  BY InitIInv, NextIInv, PTL DEF Spec

\* No <clinit> runs twice, and a class stays "initializing" only while the
\* thread that owns its monitor is inside InitClassImpl for it.
THEOREM ClinitRunsOnce == Spec => []ClinitOnce
<1>1. IInv => ClinitOnce
  <2> SUFFICES ASSUME IInv PROVE ClinitOnce
    OBVIOUS
  <2> USE DEF IInv
  <2>1. TypeOK
    BY StackType DEF TypeOK, TypeInv, Frames, Depths
  <2>2. \A c \in Classes : ran[c] <= 1
    BY DEF StateInv
  <2>3. InitializingIsOwned
    <3> SUFFICES ASSUME NEW c \in Classes
                 PROVE  LET inside == {t \in Threads : \E f \in Frames(t) : f.cls = c /\ Holds(f)} IN
                        /\ monitor[c].owner = (IF inside = {} THEN NoOne ELSE CHOOSE t \in inside : TRUE)
                        /\ monitor[c].depth = Cardinality(inside)
                        /\ state[c] = "initializing" => inside # {}
      BY DEF InitializingIsOwned
    <3> DEFINE inside == {t \in Threads : \E f \in Frames(t) : f.cls = c /\ Holds(f)}
    <3>1. ASSUME NEW t \in Threads PROVE t \in inside <=> \E k \in Depths(t) : Holder(t, k, c)
      BY DEF Frames, Depths, Holder
    <3>2. ASSUME NEW t \in Threads PROVE t \in inside <=> monitor[c].owner = t
      BY <3>1 DEF OwnInv
    <3>3. inside \subseteq Threads /\ monitor[c].owner \in Threads \cup {NoOne}
      BY DEF TypeInv
    <3> HIDE DEF inside
    <3>4. CASE monitor[c].owner = NoOne
      <4>1. inside = {}
        BY <3>2, <3>3, <3>4, HierarchyAssumption
      <4>2. monitor[c].depth = 0 /\ state[c] # "initializing"
        BY <3>4 DEF OwnInv, StateInv
      <4>3. Cardinality(inside) = 0
        BY <4>1, FS_EmptySet
      <4>4. QED
        BY <3>4, <4>1, <4>2, <4>3 DEF inside
    <3>5. CASE monitor[c].owner # NoOne
      <4>1. PICK t \in Threads : monitor[c].owner = t
        BY <3>3, <3>5
      <4>2. inside = {t}
        BY <3>2, <3>3, <4>1
      <4>3. monitor[c].depth = 1
        BY <3>1, <4>1, <4>2 DEF OwnInv
      <4>4. Cardinality(inside) = 1
        BY <4>2, FS_Singleton
      <4>5. inside # {} /\ (CHOOSE v \in inside : TRUE) = t
        BY <4>2
      <4>6. QED
        BY <4>1, <4>3, <4>4, <4>5 DEF inside
    <3>6. QED
      BY <3>4, <3>5
  <2>4. QED
    BY <2>1, <2>2, <2>3 DEF ClinitOnce
<1>2. QED
  BY <1>1, InductiveInvariant, PTL

\* When the <clinit> of a class runs, all super classes and default-method
\* interfaces that InitSuperClasses reaches are initialised, or are being
\* initialised further out by the same thread.
THEOREM SupersAreReady == Spec => []SupersReady
<1>1. IInv => SupersReady
  <2> SUFFICES ASSUME IInv, NEW t \in Threads, NEW f \in Frames(t), f.pc = "clinit", f.rec,
                      NEW s \in Reached[f.cls]
               PROVE  ReadyFor(t, s)
    BY DEF SupersReady
  <2> USE DEF IInv
  <2>1. PICK k \in Depths(t) : f = stack[t][k]
    BY DEF Frames, Depths
  <2>2. s # Missing /\ ReadyAt(t, k, s)
    BY <2>1 DEF ReadyInv
  <2>3. f.cls \in Classes
    BY <2>1, StackType DEF Frame
  <2>4. s \in Classes
    BY <2>2, <2>3, ReachedFacts DEF Entry
  <2>5. QED
    BY <2>2, <2>4 DEF ReadyAt, ReadyFor, OwnInv, StateInv, Consistent, Holder
<1>2. QED
  BY <1>1, InductiveInvariant, PTL

\* A call of TryInitClass that returns without exception leaves the class
\* initialised, or in the middle of its initialisation by the same thread,
\* and "failed" and "initialized" are final.
THEOREM ReadyWhenReturned == Spec => ReadyOnReturn
<1> DEFINE A == /\ \A t \in Threads : Returns(t) => ReadyAfter(t, Top(t).cls)
                /\ \A c \in Classes :
                      state[c] \in {"failed", "initialized"} => state'[c] = state[c]
<1>1. IInv /\ [Next]_vars => [A]_vars
  <2> SUFFICES ASSUME IInv, Next PROVE A
    OBVIOUS
  <2> USE DEF IInv
  <2>1. PICK v \in Threads : Alternatives(v)
    BY StepAlternatives DEF Next
  <2>2. \A c \in Classes : state[c] \in {"failed", "initialized"} => state'[c] = state[c]
    BY <2>1, VerdictFinal
  <2>3. ASSUME NEW t \in Threads, Returns(t) PROVE ReadyAfter(t, Top(t).cls)
    <3>1. /\ Size(t) \in Nat /\ Size(t) >= 1 /\ Size(t) \in Depths(t) /\ Size(t) = Len(stack[t])
          /\ stack[t] \in Seq(Frame)
      BY <2>3, StackType DEF Returns, Size
    <3>2. Len(stack'[t]) = Size(t) - 1 /\ stack'[t] # stack[t] /\ stack' # stack
      <4>1. Len(SubSeq(stack[t], 1, Len(stack[t]) - 1)) = Size(t) - 1
        BY <3>1
      <4>2. Len(stack'[t]) = Size(t) - 1
        BY <2>3, <4>1 DEF Returns, Pop
      <4>3. QED
        BY <3>1, <4>2
    <3>3. t = v
      BY <2>1, <3>2, OtherStacks
    <3>4. ~(\E pc, i : Moved(t, pc, i)) /\ ~(\E i, g : Called(t, i, g)) /\ ~Begins(t)
      BY <3>1, <3>2 DEF Moved, Called, Begins
    <3>5. Top(t).cls \in Classes /\ Top(t).kind = "init" /\ pend'[t] = NoOne
      BY <2>3, <3>1, TopFacts DEF Returns
    <3>6. ~Refuses(t)
      BY <3>5, HierarchyAssumption DEF Refuses, Throw, TypeInv
    <3>7. ~(Tries(t) \/ Takes(t) \/ Misses(t) \/ Fails(t) \/ Starts(t) \/ Succeeds(t) \/ Touches(t))
      BY <3>4 DEF Tries, Takes, Misses, Fails, Starts, Succeeds, Touches
    <3>8. ~(Climbs(t) \/ Asks(t) \/ Catches(t) \/ Throws(t) \/ Leaves(t))
      BY <3>2, <3>4, <3>5 DEF Climbs, Asks, Catches, Throws, Leaves
    <3>9. Accepts(t) \/ Releases(t)
      BY <2>1, <3>3, <3>4, <3>6, <3>7, <3>8 DEF Alternatives
    <3>10. CASE state[Top(t).cls] = "initialized"
      BY <2>2, <3>5, <3>10 DEF ReadyAfter
    <3>11. CASE Accepts(t) /\ state[Top(t).cls] = "initializing" /\ Free(t, Top(t).cls)
      BY <3>5, <3>11 DEF Accepts, OnlyStack, Free, StateInv, ReadyAfter
    <3>12. CASE Releases(t)
      <4>1. Holder(t, Size(t), Top(t).cls) /\ stack[t][Size(t)].pc = "exit" /\ pend[t] = NoOne
        BY <3>1, <3>5, <3>12, ReleasesOwn, TopFacts DEF Releases, Inside
      <4>2. state[Top(t).cls] = "initialized"
        BY <3>1, <3>5, <4>1 DEF StateInv, Consistent
      <4>3. QED
        BY <3>10, <4>2
    <3>13. QED
      BY <3>9, <3>10, <3>11, <3>12 DEF Accepts
  <2>4. QED
    BY <2>2, <2>3
<1>2. Spec => [][A]_vars
  BY <1>1, InductiveInvariant, PTL DEF Spec
<1>3. QED
  BY <1>2 DEF ReadyOnReturn

\* A class that fails without <clinit> was initialised on behalf of a class
\* above which something else has failed or is missing: no exception that
\* Java code has caught makes an unrelated class fail.
THEOREM FailuresInFamily == Spec => []FailureInFamily
<1>1. IInv => FailureInFamily
  BY DEF IInv
<1>2. QED
  BY <1>1, InductiveInvariant, PTL

=============================================================================
