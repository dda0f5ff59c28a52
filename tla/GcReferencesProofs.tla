-------------------------- MODULE GcReferencesProofs --------------------------
(***************************************************************************)
(* Proofs about GcReferences, for any number of references and markers: no *)
(* reference is lost from the lists that are linked through pendingNext,   *)
(* or is in two of them, and none is left pointing to swept memory.        *)
(*                                                                         *)
(* A list is a function s from the positions 1 .. n to references.  Each   *)
(* operation of the code on a list (insertion at the head, removal of the  *)
(* head, removal behind the element in hand) is a lemma about such         *)
(* functions; the invariant says that the two lists exist, are disjoint    *)
(* and have between them every reference whose pendingNext is set.         *)
(***************************************************************************)
EXTENDS GcReferences, WellFoundedInduction, TLAPS

\* The references s[1] .. s[n], linked through next, are the list with head h.
IsList(n, s, h, next) ==
    /\ n \in Nat /\ s \in [1 .. n -> Refs]
    /\ \A i, j \in 1 .. n : s[i] = s[j] => i = j
    /\ h = IF n = 0 THEN Null ELSE s[1]
    /\ \A i \in 1 .. n : next[s[i]] = IF i = n THEN s[i] ELSE s[i + 1]

Elements(n, s) == {s[i] : i \in 1 .. n}

\* L is the set of the elements of the list with head h.
Listed(L, h, next) == \E n, s : IsList(n, s, h, next) /\ L = Elements(n, s)

-----------------------------------------------------------------------------
(* The inductive invariant.                                                *)

TypeInv ==
    /\ gc \in [pc : GcPcs, snap : SUBSET Refs, marked : SUBSET Refs, finalMarked : SUBSET Refs,
               visited : SUBSET Refs, racing : [Markers -> Refs \cup {Null}], found : SUBSET Refs,
               head : Refs \cup {Null}, prev : Refs \cup {Null}, cur : Refs \cup {Null}]
    /\ list \in [next : [Refs -> Refs \cup {Null}], referent : SUBSET Refs,
                 discover : Refs \cup {Null}, enqueue : Refs \cup {Null}]
    /\ strong \subseteq Refs /\ freed \subseteq Refs
    /\ enqueued \in [Refs -> 0 .. 1]

\* Markers stop in the test of pendingNext only while they mark, and the
\* references found by the finalizer marking are all discovered before the
\* second pass.
PhaseInv ==
    /\ gc.pc \notin {"mark", "remark"} => \A k \in Markers : gc.racing[k] = Null
    /\ gc.pc \in {"filter", "merge"} => list.discover = Null
    /\ gc.pc = "process2" => gc.found = {}

\* Where the list of the discovered references begins.
Anchor == IF gc.pc \in {"filter", "merge"} THEN gc.head
          ELSE IF gc.pc \in {"process", "process2"} THEN gc.cur
          ELSE list.discover

\* The position of the filter in the list D: prev is the element before cur.
InHand(D) ==
    /\ gc.cur \in D
    /\ gc.prev = Null => gc.cur = gc.head
    /\ gc.prev # Null => gc.prev \in D /\ gc.prev # gc.cur /\ list.next[gc.prev] = gc.cur

\* D holds the discovered references, E those that wait for the RP thread.
TwoLists(D, E) ==
    /\ Listed(D, Anchor, list.next) /\ Listed(E, list.enqueue, list.next)
    /\ D \cap E = {}
    /\ \A r \in Refs : list.next[r] # Null <=> enqueued[r] = 1 \/ r \in D \cup E
    /\ \A r \in E : r \notin list.referent /\ enqueued[r] = 0
    /\ \A r \in D : enqueued[r] = 0
    /\ \A r \in Refs : enqueued[r] = 1 => r \notin list.referent
    /\ gc.pc = "idle" => D = {}
    /\ gc.pc = "filter" => InHand(D)

ListInv == \E D, E \in SUBSET Refs : TwoLists(D, E)

\* A reference that the markers have come to and that still has its referent
\* is in a list or on its way to one, unless the referent is marked.
CoverInv ==
    \A r \in list.referent : Paused \/ (Marking /\ r \in gc.visited) =>
       \/ r \in gc.marked \cup gc.finalMarked \cup gc.found
       \/ list.next[r] # Null
       \/ \E k \in Markers : gc.racing[k] = r

\* What Java code holds is in the snapshot, and is marked when the pause begins.
StrongInv ==
    /\ Marking => strong \subseteq gc.snap
    /\ Paused => strong \subseteq gc.marked
    /\ gc.finalMarked \cap freed = {}

IInv ==
    /\ TypeInv /\ PhaseInv /\ ListInv /\ CoverInv /\ StrongInv
    /\ NoDanglingReferent

-----------------------------------------------------------------------------
(* Lists.                                                                  *)

\* The least element of a set of numbers: induction in the form that the
\* provers can use.
LEMMA LeastNumber ==
    ASSUME NEW S, S \subseteq Nat, S # {}
    PROVE  \E m \in S : \A k \in S : m <= k
<1> DEFINE R == OpToRel(<, Nat)
<1>1. IsWellFoundedOn(R, Nat)
  BY NatLessThanWellFounded
<1>2. \A j, k \in Nat : j < k => <<j, k>> \in R
  BY DEF OpToRel
<1> HIDE DEF R
<1>3. PICK m \in S : \A k \in S : ~(<<k, m>> \in R)
  BY <1>1, WFMin
<1>4. ASSUME NEW k \in S PROVE m <= k
  <2>1. m \in Nat /\ k \in Nat
    OBVIOUS
  <2>2. ~(k < m)
    BY <1>2, <1>3, <2>1
  <2>3. QED
    BY <2>1, <2>2
<1>5. QED
  BY <1>4

\* Chain and Followed, with the links as a parameter: the lemmas about them
\* apply to the lists before and after a step.
Closed(S, next) == \A x \in S : next[x] \in S \cup {Null}
Reached(h, next) ==
    {r \in Refs : h # Null /\ \A S \in SUBSET Refs : h \in S /\ Closed(S, next) => r \in S}

\* Following pendingNext from the head of a list meets its elements and
\* nothing else.
LEMMA ListedReached ==
    ASSUME NEW L, NEW h, NEW next, Listed(L, h, next)
    PROVE  Reached(h, next) = L
<1>1. PICK n, s : IsList(n, s, h, next) /\ L = Elements(n, s)
  BY DEF Listed
<1> USE NullAssumption
<1>2. n \in Nat /\ s \in [1 .. n -> Refs] /\ L \subseteq Refs
  BY <1>1 DEF IsList, Elements
<1>3. Closed(L, next)
  <2>1. ASSUME NEW i \in 1 .. n PROVE next[s[i]] \in L
    <3>1. CASE i = n
      BY <1>1, <3>1 DEF IsList, Elements
    <3>2. CASE i # n
      <4>1. i + 1 \in 1 .. n
        BY <1>2, <3>2
      <4>2. QED
        BY <1>1, <3>2, <4>1 DEF IsList, Elements
    <3>3. QED
      BY <3>1, <3>2
  <2>2. QED
    BY <1>1, <2>1 DEF Closed, Elements
<1>4. CASE n = 0
  BY <1>1, <1>4 DEF IsList, Elements, Reached
<1>5. CASE n # 0
  <2>1. h = s[1] /\ 1 \in 1 .. n /\ h \in L /\ h # Null
    BY <1>1, <1>2, <1>5 DEF IsList, Elements
  <2>2. Reached(h, next) \subseteq L
    BY <1>2, <1>3, <2>1 DEF Reached
  <2>3. ASSUME NEW S \in SUBSET Refs, h \in S, Closed(S, next)
        PROVE  L \subseteq S
    <3> DEFINE Rest == {i \in 1 .. n : s[i] \notin S}
    <3>1. ASSUME Rest # {} PROVE FALSE
      <4>1. Rest \subseteq Nat
        BY <1>2
      <4>2. PICK m \in Rest : \A k \in Rest : m <= k
        BY <3>1, <4>1, LeastNumber
      <4>3. m \in 1 .. n /\ s[m] \notin S
        BY <4>2
      <4>4. m # 1
        BY <2>1, <2>3, <4>3
      <4>5. m - 1 \in 1 .. n /\ m - 1 # n /\ (m - 1) + 1 = m /\ ~(m <= m - 1)
        BY <1>2, <4>3, <4>4
      <4>6. m - 1 \notin Rest
        BY <4>2, <4>5
      <4>7. s[m - 1] \in S
        BY <4>5, <4>6
      <4>8. next[s[m - 1]] = s[m]
        BY <1>1, <4>5 DEF IsList
      <4>9. s[m] \in Refs
        BY <1>2, <4>3
      <4>10. QED
        BY <2>3, <4>3, <4>7, <4>8, <4>9 DEF Closed
    <3>2. QED
      BY <1>1, <3>1 DEF Elements
  <2>4. L \subseteq Reached(h, next)
    BY <1>2, <2>1, <2>3 DEF Reached
  <2>5. QED
    BY <2>2, <2>4
<1>6. QED
  BY <1>4, <1>5

LEMMA ListedChain ==
    ASSUME NEW L, Listed(L, list.enqueue, list.next)
    PROVE  Chain(list.enqueue) = L
<1>1. Chain(list.enqueue) = Reached(list.enqueue, list.next)
  BY DEF Chain, Reached, Followed, Closed
<1>2. QED
  BY <1>1, ListedReached

LEMMA ListedChainNext ==
    ASSUME NEW L, Listed(L, list'.enqueue, list'.next)
    PROVE  Chain(list.enqueue)' = L
<1>1. PICK h, new : h = list'.enqueue /\ new = list'.next
  OBVIOUS
<1>2. Chain(list.enqueue)' = Reached(h, new)
  BY <1>1 DEF Chain, Reached, Followed, Closed
<1>3. QED
  BY <1>1, <1>2, ListedReached

\* The head of a list, and the empty list.
LEMMA ListedHead ==
    ASSUME NEW L, NEW h, NEW next, Listed(L, h, next)
    PROVE  L \subseteq Refs /\ (h = Null <=> L = {}) /\ (h # Null => h \in L)
<1>1. PICK n, s : IsList(n, s, h, next) /\ L = Elements(n, s)
  BY DEF Listed
<1>2. CASE n = 0
  BY <1>1, <1>2 DEF IsList, Elements
<1>3. CASE n # 0
  <2>1. 1 \in 1 .. n
    BY <1>1, <1>3 DEF IsList
  <2>2. h = s[1] /\ \A i \in 1 .. n : s[i] \in Refs
    BY <1>1, <1>3 DEF IsList
  <2>3. h \in L /\ L \subseteq Refs
    BY <1>1, <2>1, <2>2 DEF Elements
  <2>4. QED
    BY <2>3, NullAssumption
<1>4. QED
  BY <1>2, <1>3

LEMMA EmptyList ==
    ASSUME NEW next
    PROVE  Listed({}, Null, next)
<1> DEFINE s == [i \in 1 .. 0 |-> Null]
<1>1. IsList(0, s, Null, next) /\ {} = Elements(0, s)
  BY DEF IsList, Elements
<1>2. QED
  BY <1>1 DEF Listed

\* A list depends on the links of its elements only.
LEMMA ListedFrame ==
    ASSUME NEW L, NEW h, NEW next, Listed(L, h, next),
           NEW new, \A r \in L : new[r] = next[r]
    PROVE  Listed(L, h, new)
<1>1. PICK n, s : IsList(n, s, h, next) /\ L = Elements(n, s)
  BY DEF Listed
<1>2. IsList(n, s, h, new)
  BY <1>1 DEF IsList, Elements
<1>3. QED
  BY <1>1, <1>2 DEF Listed

\* Insertion at the head.
LEMMA ListedPush ==
    ASSUME NEW L, NEW h, NEW next, Listed(L, h, next),
           NEW r \in Refs, r \notin L, NEW new, new[r] = Link(r, h), \A x \in L : new[x] = next[x]
    PROVE  Listed(L \cup {r}, r, new)
<1>1. PICK n, s : IsList(n, s, h, next) /\ L = Elements(n, s)
  BY DEF Listed
<1> DEFINE z == [i \in 1 .. n + 1 |-> IF i = 1 THEN r ELSE s[i - 1]]
<1>2. n \in Nat /\ n + 1 \in Nat /\ n + 1 # 0 /\ 1 \in 1 .. n + 1
  BY <1>1 DEF IsList
<1>3. ASSUME NEW i \in 1 .. n + 1, i # 1 PROVE i - 1 \in 1 .. n /\ z[i] = s[i - 1] /\ s[i - 1] \in L
  <2>1. i - 1 \in 1 .. n
    BY <1>2, <1>3
  <2>2. QED
    BY <1>1, <1>3, <2>1 DEF Elements
<1>4. z[1] = r
  BY <1>2
<1>5. z \in [1 .. n + 1 -> Refs]
  <2>1. \A i \in 1 .. n : s[i] \in Refs
    BY <1>1 DEF IsList
  <2>2. QED
    BY <1>3, <2>1
<1>6. DOMAIN z = 1 .. n + 1
  OBVIOUS
<1> HIDE DEF z
<1>7. ASSUME NEW i \in 1 .. n + 1, NEW j \in 1 .. n + 1, z[i] = z[j] PROVE i = j
  <2>1. CASE i = 1 \/ j = 1
    BY <1>3, <1>4, <1>7, <2>1
  <2>2. CASE i # 1 /\ j # 1
    <3>1. s[i - 1] = s[j - 1] /\ i - 1 \in 1 .. n /\ j - 1 \in 1 .. n
      BY <1>3, <1>7, <2>2
    <3>2. i - 1 = j - 1
      BY <1>1, <3>1 DEF IsList
    <3>3. QED
      BY <1>2, <3>2
  <2>3. QED
    BY <2>1, <2>2
<1>8. ASSUME NEW i \in 1 .. n + 1 PROVE new[z[i]] = IF i = n + 1 THEN z[i] ELSE z[i + 1]
  <2>1. CASE i = 1 /\ n = 0
    BY <1>1, <1>4, <2>1 DEF IsList, Link
  <2>2. CASE i = 1 /\ n # 0
    <3>1. 2 \in 1 .. n + 1 /\ 2 # 1 /\ 2 - 1 = 1 /\ i + 1 = 2 /\ i # n + 1 /\ 1 \in 1 .. n
      BY <1>2, <2>2
    <3>2. z[2] = s[1] /\ s[1] # Null /\ h = s[1]
      BY <1>1, <1>3, <2>2, <3>1, NullAssumption DEF IsList
    <3>3. QED
      BY <1>4, <2>2, <3>1, <3>2 DEF Link
  <2>3. CASE i # 1
    <3>1. i - 1 \in 1 .. n /\ z[i] = s[i - 1] /\ new[z[i]] = next[s[i - 1]]
      BY <1>3, <2>3
    <3>2. next[s[i - 1]] = IF i - 1 = n THEN s[i - 1] ELSE s[(i - 1) + 1]
      BY <1>1, <3>1 DEF IsList
    <3>3. i - 1 = n <=> i = n + 1
      BY <1>2
    <3>4. ASSUME i # n + 1 PROVE z[i + 1] = s[(i - 1) + 1]
      <4>1. i + 1 \in 1 .. n + 1 /\ i + 1 # 1 /\ (i + 1) - 1 = (i - 1) + 1
        BY <1>2, <3>1, <3>4
      <4>2. QED
        BY <1>3, <4>1
    <3>5. QED
      BY <3>1, <3>2, <3>3, <3>4
  <2>4. QED
    BY <2>1, <2>2, <2>3
<1>9. L \cup {r} = Elements(n + 1, z)
  <2>1. ASSUME NEW x \in L PROVE x \in Elements(n + 1, z)
    <3>1. PICK i \in 1 .. n : x = s[i]
      BY <1>1 DEF Elements
    <3>2. i + 1 \in 1 .. n + 1 /\ i + 1 # 1 /\ (i + 1) - 1 = i
      BY <1>2
    <3>3. z[i + 1] = x
      BY <1>3, <3>1, <3>2
    <3>4. QED
      BY <3>2, <3>3 DEF Elements
  <2>2. r \in Elements(n + 1, z)
    BY <1>2, <1>4 DEF Elements
  <2>3. Elements(n + 1, z) \subseteq L \cup {r}
    BY <1>3, <1>4 DEF Elements
  <2>4. QED
    BY <2>1, <2>2, <2>3
<1>10. IsList(n + 1, z, r, new)
  BY <1>2, <1>4, <1>5, <1>7, <1>8 DEF IsList
<1>11. QED
  BY <1>9, <1>10 DEF Listed

\* The element after r, or Null.
After(r, next) == IF next[r] = r THEN Null ELSE next[r]

\* Removal of r, which is the head of the list or follows prev.
LEMMA ListedDrop ==
    ASSUME NEW L, NEW h, NEW next, Listed(L, h, next), NEW r \in L, NEW prev,
           prev = Null => r = h,
           prev # Null => prev \in L /\ prev # r /\ next[prev] = r,
           NEW new,
           \A x \in L \ {r} : new[x] = IF x = prev THEN Link(x, After(r, next)) ELSE next[x]
    PROVE  /\ Listed(L \ {r}, IF prev = Null THEN After(r, next) ELSE h, new)
           /\ After(r, next) # Null => After(r, next) \in L \ {r} /\ After(r, next) # prev
<1>1. PICK m, s : IsList(m, s, h, next) /\ L = Elements(m, s)
  BY DEF Listed
<1>2. m \in Nat /\ \A i \in 1 .. m : s[i] \in Refs /\ s[i] \in L /\ s[i] # Null
  BY <1>1, NullAssumption DEF IsList, Elements
<1>3. \A i, j \in 1 .. m : s[i] = s[j] => i = j
  BY <1>1 DEF IsList
<1>4. \A i \in 1 .. m : next[s[i]] = IF i = m THEN s[i] ELSE s[i + 1]
  BY <1>1 DEF IsList
<1>5. PICK q \in 1 .. m : r = s[q]
  BY <1>1 DEF Elements
<1>6. m \in Nat /\ m # 0 /\ h = s[1] /\ 1 \in 1 .. m /\ q \in Nat /\ m - 1 \in Nat
  BY <1>1, <1>2, <1>5 DEF IsList
<1>7. (prev = Null => q = 1) /\ (prev # Null => q - 1 \in 1 .. m /\ prev = s[q - 1])
  <2>1. CASE prev = Null
    BY <1>3, <1>5, <1>6, <2>1
  <2>2. CASE prev # Null
    <3>1. PICK p \in 1 .. m : prev = s[p]
      BY <1>1, <2>2 DEF Elements
    <3>2. p # m /\ s[p + 1] = r
      BY <1>4, <2>2, <3>1
    <3>3. p + 1 \in 1 .. m
      BY <1>2, <3>2
    <3>4. p + 1 = q
      BY <1>3, <1>5, <3>2, <3>3
    <3>5. QED
      BY <2>2, <3>1, <3>4, <1>2
  <2>3. QED
    BY <2>1, <2>2
<1> DEFINE a == After(r, next)
<1>8. (q = m => a = Null) /\ (q # m => q + 1 \in 1 .. m /\ a = s[q + 1])
  <2>1. CASE q = m
    BY <1>4, <1>5, <2>1 DEF After
  <2>2. CASE q # m
    <3>1. q + 1 \in 1 .. m /\ q + 1 # q
      BY <1>2, <2>2
    <3>2. next[r] = s[q + 1] /\ s[q + 1] # r
      BY <1>3, <1>4, <1>5, <2>2, <3>1
    <3>3. QED
      BY <2>2, <3>1, <3>2 DEF After
  <2>3. QED
    BY <2>1, <2>2
<1>9. a # Null => a \in L \ {r} /\ a # prev
  <2> SUFFICES ASSUME a # Null PROVE a \in L \ {r} /\ a # prev
    OBVIOUS
  <2>1. q # m /\ q + 1 \in 1 .. m /\ a = s[q + 1]
    BY <1>8
  <2>2. a \in L /\ a # r
    <3>1. q + 1 # q
      BY <1>6
    <3>2. QED
      BY <1>2, <1>3, <1>5, <2>1, <3>1
  <2>3. ASSUME a = prev PROVE FALSE
    <3>1. q - 1 \in 1 .. m /\ s[q - 1] = s[q + 1]
      BY <1>7, <2>1, <2>3
    <3>2. q - 1 = q + 1
      BY <1>3, <2>1, <3>1
    <3>3. QED
      BY <1>6, <3>2
  <2>4. QED
    BY <2>2, <2>3
<1> DEFINE z == [i \in 1 .. m - 1 |-> IF i < q THEN s[i] ELSE s[i + 1]]
<1>10. ASSUME NEW i \in 1 .. m - 1
       PROVE  /\ i < q => z[i] = s[i] /\ i \in 1 .. m /\ i # q
              /\ ~(i < q) => z[i] = s[i + 1] /\ i + 1 \in 1 .. m /\ i + 1 # q
              /\ z[i] \in L \ {r} /\ z[i] \in Refs
  <2>1. /\ i < q => i \in 1 .. m /\ i # q
        /\ ~(i < q) => i + 1 \in 1 .. m /\ i + 1 # q
    BY <1>6
  <2>2. (i < q => z[i] = s[i]) /\ (~(i < q) => z[i] = s[i + 1])
    OBVIOUS
  <2>3. z[i] \in L \ {r} /\ z[i] \in Refs
    <3>1. CASE i < q
      BY <1>2, <1>3, <1>5, <2>1, <2>2, <3>1
    <3>2. CASE ~(i < q)
      BY <1>2, <1>3, <1>5, <2>1, <2>2, <3>2
    <3>3. QED
      BY <3>1, <3>2
  <2>4. QED
    BY <2>1, <2>2, <2>3
<1>11. z \in [1 .. m - 1 -> Refs]
  <2>1. \A i \in 1 .. m - 1 : z[i] \in Refs
    BY <1>10
  <2>2. QED
    BY <2>1
<1> HIDE DEF z, a
<1>12. ASSUME NEW i \in 1 .. m - 1, NEW j \in 1 .. m - 1, z[i] = z[j] PROVE i = j
  <2>1. CASE i < q /\ j < q
    BY <1>3, <1>10, <1>12, <2>1
  <2>2. CASE ~(i < q) /\ ~(j < q)
    <3>1. i + 1 = j + 1
      BY <1>3, <1>10, <1>12, <2>2
    <3>2. QED
      BY <3>1
  <2>3. CASE i < q /\ ~(j < q)
    <3>1. i = j + 1
      BY <1>3, <1>10, <1>12, <2>3
    <3>2. QED
      BY <1>6, <2>3, <3>1
  <2>4. CASE ~(i < q) /\ j < q
    <3>1. i + 1 = j
      BY <1>3, <1>10, <1>12, <2>4
    <3>2. QED
      BY <1>6, <2>4, <3>1
  <2>5. QED
    BY <2>1, <2>2, <2>3, <2>4
<1>13. (IF prev = Null THEN a ELSE h) = IF m - 1 = 0 THEN Null ELSE z[1]
  <2>1. CASE prev = Null
    <3>1. q = 1
      BY <1>7, <2>1
    <3>2. CASE m = 1
      BY <1>8, <2>1, <3>1, <3>2
    <3>3. CASE m # 1
      <4>1. 1 \in 1 .. m - 1 /\ ~(1 < q) /\ q # m /\ m - 1 # 0
        BY <1>6, <3>1, <3>3
      <4>2. QED
        BY <1>8, <1>10, <2>1, <3>1, <4>1
    <3>4. QED
      BY <3>2, <3>3
  <2>2. CASE prev # Null
    <3>1. 1 \in 1 .. m - 1 /\ 1 < q /\ m - 1 # 0
      BY <1>6, <1>7, <2>2
    <3>2. QED
      BY <1>6, <1>10, <2>2, <3>1
  <2>3. QED
    BY <2>1, <2>2
<1>14. ASSUME NEW i \in 1 .. m - 1 PROVE new[z[i]] = IF i = m - 1 THEN z[i] ELSE z[i + 1]
  <2>0. new[z[i]] = IF z[i] = prev THEN Link(z[i], a) ELSE next[z[i]]
    BY <1>10 DEF a
  <2>1. CASE i < q - 1
    <3>1. /\ i < q /\ i # m - 1 /\ i + 1 \in 1 .. m - 1 /\ i + 1 < q /\ i \in 1 .. m
          /\ i # m /\ i # q - 1
      BY <1>6, <2>1
    <3>2. z[i] = s[i] /\ z[i + 1] = s[i + 1] /\ next[s[i]] = s[i + 1]
      BY <1>4, <1>10, <3>1
    <3>3. z[i] # prev
      BY <1>2, <1>3, <1>7, <3>1, <3>2
    <3>4. QED
      BY <2>0, <3>1, <3>2, <3>3
  <2>2. CASE i = q - 1
    <3>1. i < q /\ q # 1
      BY <1>6, <2>2
    <3>2. z[i] = prev /\ prev # Null
      BY <1>2, <1>7, <1>10, <2>2, <3>1
    <3>3. CASE q = m
      BY <1>8, <2>0, <2>2, <3>2, <3>3 DEF Link
    <3>4. CASE q # m
      <4>1. i + 1 = q /\ q \in 1 .. m - 1 /\ ~(q < q) /\ i # m - 1 /\ q + 1 \in 1 .. m
        BY <1>6, <2>2, <3>4
      <4>2. z[i + 1] = s[q + 1] /\ a = s[q + 1] /\ a # Null
        BY <1>2, <1>8, <1>10, <3>4, <4>1
      <4>3. QED
        BY <2>0, <3>2, <4>1, <4>2 DEF Link
    <3>5. QED
      BY <3>3, <3>4
  <2>3. CASE ~(i < q)
    <3>1. /\ z[i] = s[i + 1] /\ i + 1 \in 1 .. m /\ i + 1 # q - 1
          /\ (i = m - 1 <=> i + 1 = m) /\ (i + 1) + 1 = i + 2
      BY <1>6, <1>10, <2>3
    <3>2. z[i] # prev
      BY <1>2, <1>3, <1>7, <3>1
    <3>3. next[s[i + 1]] = IF i + 1 = m THEN s[i + 1] ELSE s[i + 2]
      BY <1>4, <3>1
    <3>4. ASSUME i # m - 1 PROVE z[i + 1] = s[i + 2]
      <4>1. i + 1 \in 1 .. m - 1 /\ ~(i + 1 < q)
        BY <1>6, <2>3, <3>4
      <4>2. QED
        BY <1>10, <3>1, <4>1
    <3>5. QED
      BY <2>0, <3>1, <3>2, <3>3, <3>4
  <2>4. QED
    BY <1>6, <2>1, <2>2, <2>3
<1>15. L \ {r} = Elements(m - 1, z)
  <2>1. Elements(m - 1, z) \subseteq L \ {r}
    BY <1>10 DEF Elements
  <2>2. ASSUME NEW x \in L \ {r} PROVE x \in Elements(m - 1, z)
    <3>1. PICK i \in 1 .. m : x = s[i]
      BY <1>1 DEF Elements
    <3>2. i # q
      BY <1>5, <2>2, <3>1
    <3>3. CASE i < q
      <4>1. i \in 1 .. m - 1
        BY <1>6, <3>3
      <4>2. QED
        BY <1>10, <3>1, <3>3, <4>1 DEF Elements
    <3>4. CASE ~(i < q)
      <4>1. i - 1 \in 1 .. m - 1 /\ ~(i - 1 < q) /\ (i - 1) + 1 = i
        BY <1>6, <3>2, <3>4
      <4>2. z[i - 1] = x
        BY <1>10, <3>1, <4>1
      <4>3. QED
        BY <4>1, <4>2 DEF Elements
    <3>5. QED
      BY <3>3, <3>4
  <2>3. QED
    BY <2>1, <2>2
<1>16. IsList(m - 1, z, IF prev = Null THEN a ELSE h, new)
  BY <1>6, <1>11, <1>12, <1>13, <1>14 DEF IsList
<1>17. QED
  BY <1>9, <1>15, <1>16 DEF Listed, a

-----------------------------------------------------------------------------
(* Steps.                                                                  *)

\* A step that leaves the links as they are.
LEMMA ListsKept ==
    ASSUME NEW D \in SUBSET Refs, NEW E \in SUBSET Refs, TwoLists(D, E),
           list'.next = list.next, list'.enqueue = list.enqueue, Anchor' = Anchor,
           list'.referent \subseteq list.referent, enqueued' = enqueued,
           gc'.pc = "idle" => D = {}, gc'.pc = "filter" => InHand(D)'
    PROVE  ListInv'
<1>1. TwoLists(D, E)'
  BY DEF TwoLists
<1>2. QED
  BY <1>1 DEF ListInv

\* Java code: get, clear and forget.
LEMMA MutatorStep ==
    ASSUME IInv, NEW r \in Refs, ReferenceGet(r) \/ ReferenceClear(r) \/ DropReferent(r)
    PROVE  IInv'
<1> USE DEF IInv
<1>1. TypeInv'
  <2>1. CASE ReferenceGet(r)
    BY <2>1 DEF ReferenceGet, TypeInv
  <2>2. CASE ReferenceClear(r)
    BY <2>2 DEF ReferenceClear, TypeInv
  <2>3. CASE DropReferent(r)
    BY <2>3 DEF DropReferent, TypeInv
  <2>4. QED
    BY <2>1, <2>2, <2>3
<1>2. /\ list'.next = list.next /\ list'.enqueue = list.enqueue /\ list'.discover = list.discover
      /\ list'.referent \subseteq list.referent /\ enqueued' = enqueued /\ freed' = freed /\ ~Paused
  BY DEF ReferenceGet, ReferenceClear, DropReferent, TypeInv
<1>3. /\ gc'.pc = gc.pc /\ gc'.head = gc.head /\ gc'.cur = gc.cur /\ gc'.prev = gc.prev
      /\ gc'.racing = gc.racing /\ gc'.found = gc.found /\ gc'.visited = gc.visited
      /\ gc'.marked = gc.marked /\ gc'.finalMarked = gc.finalMarked
  BY DEF ReferenceGet, ReferenceClear, DropReferent, TypeInv
<1>4. PhaseInv'
  BY <1>2, <1>3 DEF PhaseInv
<1>5. ListInv'
  <2>1. PICK D \in SUBSET Refs, E \in SUBSET Refs : TwoLists(D, E)
    BY DEF ListInv
  <2>2. Anchor' = Anchor
    BY <1>2, <1>3 DEF Anchor
  <2>3. gc'.pc = "filter" => InHand(D)'
    BY <1>2, <1>3, <2>1 DEF TwoLists, InHand
  <2>4. QED
    BY <1>2, <1>3, <2>1, <2>2, <2>3, ListsKept DEF TwoLists
<1>6. CoverInv'
  BY <1>2, <1>3 DEF CoverInv, Paused, Marking
<1>7. StrongInv'
  <2>1. Paused' = Paused /\ Marking' = Marking
    BY <1>3 DEF Paused, Marking
  <2>2. Marking => strong' \subseteq gc'.snap
    <3>1. CASE ReferenceGet(r)
      BY <3>1 DEF ReferenceGet, TypeInv, StrongInv
    <3>2. CASE ReferenceClear(r) \/ DropReferent(r)
      BY <3>2 DEF ReferenceClear, DropReferent, StrongInv
    <3>3. QED
      BY <3>1, <3>2
  <2>3. QED
    BY <1>2, <1>3, <2>1, <2>2 DEF StrongInv
<1>8. NoDanglingReferent'
  BY <1>2 DEF ReferenceGet, ReferenceClear, DropReferent, NoDanglingReferent
<1>9. QED
  BY <1>1, <1>4, <1>5, <1>6, <1>7, <1>8

\* The RP thread takes the head of its list.
LEMMA EnqueueStep ==
    ASSUME IInv, EnqueueReferences
    PROVE  IInv'
<1> USE DEF IInv
<1>1. PICK r : r = list.enqueue
  OBVIOUS
<1>2. r \in Refs /\ ~Paused
  BY <1>1 DEF EnqueueReferences, TypeInv
<1>3. PICK D \in SUBSET Refs, E \in SUBSET Refs : TwoLists(D, E)
  BY DEF ListInv
<1>4. r \in E /\ r \notin D /\ r \notin list.referent /\ enqueued[r] = 0
  BY <1>1, <1>2, <1>3, ListedHead, NullAssumption DEF TwoLists
<1>5. /\ list'.referent = list.referent /\ list'.discover = list.discover
      /\ list'.enqueue = After(r, list.next) /\ list'.next = [list.next EXCEPT ![r] = r]
  BY <1>1 DEF EnqueueReferences, TypeInv, NextOf, After
<1>6. gc' = gc /\ strong' = strong /\ freed' = freed /\ enqueued' = [enqueued EXCEPT ![r] = enqueued[r] + 1]
  BY <1>1 DEF EnqueueReferences
<1>7. list.next \in [Refs -> Refs \cup {Null}] /\ enqueued \in [Refs -> 0 .. 1]
  BY DEF TypeInv
<1>8. \A x \in Refs \ {r} : list'.next[x] = list.next[x] /\ enqueued'[x] = enqueued[x]
  BY <1>5, <1>6, <1>7
<1>9. list'.next[r] = r /\ enqueued'[r] = 1 /\ r # Null
  BY <1>2, <1>4, <1>5, <1>6, <1>7, NullAssumption
<1>10. TypeInv'
  <2>1. After(r, list.next) \in Refs \cup {Null}
    BY <1>2, <1>7 DEF After
  <2>2. enqueued' \in [Refs -> 0 .. 1]
    BY <1>4, <1>6, <1>7
  <2>3. list' \in [next : [Refs -> Refs \cup {Null}], referent : SUBSET Refs,
                   discover : Refs \cup {Null}, enqueue : Refs \cup {Null}]
    BY <1>1, <1>2, <1>5, <1>7, <2>1 DEF EnqueueReferences, TypeInv, NextOf, After
  <2>4. QED
    BY <1>6, <2>2, <2>3 DEF TypeInv
<1>11. ListInv'
  <2>1. Anchor' = Anchor
    BY <1>5, <1>6 DEF Anchor
  <2>2. Listed(D, Anchor, list'.next)
    <3>1. \A x \in D : list'.next[x] = list.next[x]
      BY <1>4, <1>8
    <3>2. QED
      BY <1>3, <3>1, ListedFrame DEF TwoLists
  <2>3. Listed(E \ {r}, list'.enqueue, list'.next)
    <3>1. \A x \in E \ {r} : list'.next[x] = list.next[x] /\ x # Null
      BY <1>8, NullAssumption
    <3>2. Listed(E, r, list.next)
      BY <1>1, <1>3 DEF TwoLists
    <3>3. Listed(E \ {r}, IF Null = Null THEN After(r, list.next) ELSE r, list'.next)
      BY <1>4, <3>1, <3>2, ListedDrop
    <3>4. QED
      BY <1>5, <3>3
  <2>4. gc.pc = "filter" => InHand(D)'
    <3> SUFFICES ASSUME gc.pc = "filter" PROVE InHand(D)'
      OBVIOUS
    <3>1. InHand(D)
      BY <1>3 DEF TwoLists
    <3>2. \A x \in D : list'.next[x] = list.next[x]
      BY <1>4, <1>8
    <3>3. QED
      BY <1>6, <3>1, <3>2 DEF InHand
  <2>5. TwoLists(D, E \ {r})'
    <3>1. \A x \in Refs : list'.next[x] # Null <=> enqueued'[x] = 1 \/ x \in D \cup (E \ {r})
      <4> SUFFICES ASSUME NEW x \in Refs
                   PROVE  list'.next[x] # Null <=> enqueued'[x] = 1 \/ x \in D \cup (E \ {r})
        OBVIOUS
      <4>1. CASE x = r
        BY <1>9, <4>1
      <4>2. CASE x # r
        BY <1>3, <1>8, <4>2 DEF TwoLists
      <4>3. QED
        BY <4>1, <4>2
    <3>2. D \cap (E \ {r}) = {} /\ (gc.pc = "idle" => D = {})
      BY <1>3 DEF TwoLists
    <3>3. /\ \A x \in E \ {r} : x \notin list'.referent /\ enqueued'[x] = 0
          /\ \A x \in D : enqueued'[x] = 0
      BY <1>3, <1>4, <1>5, <1>8 DEF TwoLists
    <3>4. \A x \in Refs : enqueued'[x] = 1 => x \notin list'.referent
      BY <1>3, <1>4, <1>5, <1>8 DEF TwoLists
    <3>5. QED
      BY <1>6, <2>1, <2>2, <2>3, <2>4, <3>1, <3>2, <3>3, <3>4 DEF TwoLists
  <2>6. QED
    BY <2>5 DEF ListInv
<1>12. CoverInv'
  <2>1. \A x \in list.referent : x \in Refs /\ x # r
    BY <1>4 DEF TypeInv
  <2>2. QED
    BY <1>5, <1>6, <1>8, <2>1 DEF CoverInv, Paused, Marking
<1>13. PhaseInv' /\ StrongInv' /\ NoDanglingReferent'
  BY <1>5, <1>6 DEF PhaseInv, StrongInv, NoDanglingReferent, Paused, Marking
<1>14. QED
  BY <1>10, <1>11, <1>12, <1>13

\* What the two alternatives of FinalMark change.
LEMMA FinalMarkFields ==
    ASSUME TypeInv, NEW r \in Refs, FinalMark(r)
    PROVE  /\ gc.pc = "finalMark" /\ gc'.pc = "finalMark" /\ TypeInv'
           /\ gc'.snap = gc.snap /\ gc'.marked = gc.marked /\ gc'.racing = gc.racing
           /\ \/ /\ gc'.visited = gc.visited \cup {r} /\ gc'.finalMarked = gc.finalMarked
                 /\ gc'.found = gc.found \cup (IF Discoverable(r) THEN {r} ELSE {})
              \/ /\ gc'.visited = gc.visited /\ gc'.found = gc.found /\ r \notin freed
                 /\ gc'.finalMarked = gc.finalMarked \cup {r}
<1>1. gc.pc = "finalMark" /\ UNCHANGED <<list, strong, freed, enqueued>>
  BY DEF FinalMark
<1>2. CASE gc' = [gc EXCEPT !.visited = @ \cup {r},
                            !.found = IF Discoverable(r) THEN @ \cup {r} ELSE @]
  <2>1. PICK F \in SUBSET Refs : F = gc.found \cup (IF Discoverable(r) THEN {r} ELSE {})
    BY DEF TypeInv
  <2>2. gc' = [gc EXCEPT !.visited = gc.visited \cup {r}, !.found = F]
    BY <1>2, <2>1
  <2>3. TypeInv'
    BY <1>1, <2>2 DEF TypeInv
  <2>4. QED
    BY <1>1, <2>1, <2>2, <2>3 DEF TypeInv
<1>3. CASE r \notin freed /\ gc' = [gc EXCEPT !.finalMarked = @ \cup {r}]
  BY <1>1, <1>3 DEF TypeInv
<1>4. QED
  BY <1>2, <1>3 DEF FinalMark

\* Marking that leaves the lists alone: the first pause, the marking of
\* referents, a visit, the marking for finalizers.
LEMMA MarkStep ==
    ASSUME IInv, NEW r,
           \/ GcBegin \/ FinalMarkDone
           \/ r \in Refs /\ (MarkReferent(r) \/ FinalMark(r) \/ \E k \in Markers : Visit(k, r))
    PROVE  IInv'
<1> USE DEF IInv
<1>1. list' = list /\ strong' = strong /\ freed' = freed /\ enqueued' = enqueued
  BY DEF GcBegin, MarkReferent, FinalMark, FinalMarkDone, Visit
<1>2. TypeInv'
  <2>1. CASE GcBegin
    BY <1>1, <2>1 DEF GcBegin, TypeInv, GcPcs
  <2>2. CASE r \in Refs /\ MarkReferent(r)
    BY <1>1, <2>2 DEF MarkReferent, TypeInv
  <2>3. CASE r \in Refs /\ FinalMark(r)
    BY <2>3, FinalMarkFields
  <2>4. CASE FinalMarkDone
    BY <1>1, <2>4 DEF FinalMarkDone, TypeInv, GcPcs
  <2>5. CASE r \in Refs /\ \E k \in Markers : Visit(k, r)
    <3>1. PICK k \in Markers : r \in Refs /\ Visit(k, r)
      BY <2>5
    <3>2. PICK v \in {r, Null} :
             gc' = [gc EXCEPT !.visited = gc.visited \cup {r}, !.racing = [gc.racing EXCEPT ![k] = v]]
      BY <3>1 DEF Visit, TypeInv
    <3>3. [gc.racing EXCEPT ![k] = v] \in [Markers -> Refs \cup {Null}]
      BY <3>1 DEF TypeInv
    <3>4. QED
      BY <1>1, <3>1, <3>2, <3>3 DEF TypeInv
  <2>6. QED
    BY <2>1, <2>2, <2>3, <2>4, <2>5
<1>3. /\ gc'.pc \in {"mark", "finalMark", "remark"} /\ gc.pc \in {"idle", "mark", "finalMark", "remark"}
      /\ Marking' /\ ~Paused' /\ ~Paused
  BY DEF GcBegin, MarkReferent, FinalMark, FinalMarkDone, Visit, TypeInv, Marking, Paused
<1>4. PhaseInv'
  <2>1. CASE GcBegin \/ FinalMarkDone \/ (r \in Refs /\ (MarkReferent(r) \/ FinalMark(r)))
    <3>1. gc'.racing = gc.racing /\ (gc'.pc = gc.pc \/ gc'.pc \in {"mark", "remark"})
      BY <2>1 DEF GcBegin, MarkReferent, FinalMark, FinalMarkDone, TypeInv
    <3>2. QED
      BY <1>1, <1>3, <3>1 DEF PhaseInv
  <2>2. CASE r \in Refs /\ \E k \in Markers : Visit(k, r)
    <3>1. gc'.pc \in {"mark", "remark"}
      BY <2>2 DEF Visit, TypeInv
    <3>2. QED
      BY <1>1, <1>3, <3>1 DEF PhaseInv
  <2>3. QED
    BY <2>1, <2>2
<1>5. ListInv'
  <2>1. PICK D \in SUBSET Refs, E \in SUBSET Refs : TwoLists(D, E)
    BY DEF ListInv
  <2>2. Anchor' = Anchor
    BY <1>1, <1>3 DEF Anchor
  <2>3. QED
    BY <1>1, <1>3, <2>1, <2>2, ListsKept
<1>6. CoverInv'
  <2> SUFFICES ASSUME NEW x \in list.referent, x \in gc'.visited
               PROVE  \/ x \in gc'.marked \cup gc'.finalMarked \cup gc'.found
                      \/ list.next[x] # Null
                      \/ \E k \in Markers : gc'.racing[k] = x
    BY <1>1, <1>3 DEF CoverInv
  <2>1. CASE GcBegin
    <3>1. gc'.visited = {}
      BY <2>1 DEF GcBegin, TypeInv
    <3>2. QED
      BY <3>1
  <2>2. CASE FinalMarkDone \/ (r \in Refs /\ (MarkReferent(r) \/ FinalMark(r)))
    <3>1. /\ gc.marked \subseteq gc'.marked /\ gc.finalMarked \subseteq gc'.finalMarked
          /\ gc.found \subseteq gc'.found /\ gc'.racing = gc.racing /\ Marking
      <4>1. CASE r \in Refs /\ FinalMark(r)
        BY <4>1, FinalMarkFields DEF Marking, Paused
      <4>2. CASE MarkReferent(r) \/ FinalMarkDone
        BY <4>2 DEF MarkReferent, FinalMarkDone, TypeInv, Marking, Paused
      <4>3. QED
        BY <2>2, <4>1, <4>2
    <3>2. CASE x \in gc.visited
      BY <3>1, <3>2 DEF CoverInv
    <3>3. CASE x \notin gc.visited
      <4>0. ~MarkReferent(r) /\ ~FinalMarkDone
        BY <3>3 DEF MarkReferent, FinalMarkDone, TypeInv
      <4>1. x = r /\ gc'.found = gc.found \cup (IF Discoverable(r) THEN {r} ELSE {})
        BY <2>2, <3>3, <4>0, FinalMarkFields
      <4>2. CASE Discoverable(r)
        BY <4>1, <4>2
      <4>3. CASE ~Discoverable(r)
        BY <3>1, <4>1, <4>3 DEF Discoverable
      <4>4. QED
        BY <4>2, <4>3
    <3>4. QED
      BY <3>2, <3>3
  <2>3. CASE r \in Refs /\ \E k \in Markers : Visit(k, r)
    <3>1. PICK k \in Markers : r \in Refs /\ Visit(k, r)
      BY <2>3
    <3>2. /\ gc'.marked = gc.marked /\ gc'.finalMarked = gc.finalMarked /\ gc'.found = gc.found
          /\ gc'.visited = gc.visited \cup {r} /\ gc.racing[k] = Null /\ Marking
          /\ gc'.racing = [gc.racing EXCEPT ![k] = IF Discoverable(r) THEN r ELSE Null]
      BY <3>1 DEF Visit, TypeInv, Marking, Paused
    <3>3. gc.racing \in [Markers -> Refs \cup {Null}] /\ x \in Refs /\ x # Null
      BY NullAssumption DEF TypeInv
    <3>4. CASE x \in gc.visited
      <4>1. \A j \in Markers : gc.racing[j] = x => gc'.racing[j] = x
        BY <3>2, <3>3
      <4>2. QED
        BY <3>2, <3>4, <4>1 DEF CoverInv
    <3>5. CASE x \notin gc.visited
      <4>1. x = r
        BY <3>2, <3>5
      <4>2. CASE Discoverable(r)
        BY <3>2, <3>3, <4>1, <4>2
      <4>3. CASE ~Discoverable(r)
        BY <3>2, <4>1, <4>3 DEF Discoverable
      <4>4. QED
        BY <4>2, <4>3
    <3>6. QED
      BY <3>4, <3>5
  <2>4. QED
    BY <2>1, <2>2, <2>3
<1>7. StrongInv'
  <2>1. CASE GcBegin
    <3>1. gc'.snap = strong /\ gc'.finalMarked = {}
      BY <2>1 DEF GcBegin, TypeInv
    <3>2. QED
      BY <1>1, <1>3, <3>1 DEF StrongInv
  <2>2. CASE ~GcBegin
    <3>1. gc'.snap = gc.snap /\ Marking /\ gc'.finalMarked \subseteq gc.finalMarked \cup (Refs \ freed)
      <4>1. CASE r \in Refs /\ FinalMark(r)
        BY <4>1, FinalMarkFields DEF Marking, Paused
      <4>2. CASE ~(r \in Refs /\ FinalMark(r))
        BY <2>2, <4>2 DEF MarkReferent, FinalMarkDone, Visit, TypeInv, Marking, Paused
      <4>3. QED
        BY <4>1, <4>2
    <3>2. QED
      BY <1>1, <1>3, <3>1 DEF StrongInv
  <2>3. QED
    BY <2>1, <2>2
<1>8. NoDanglingReferent'
  BY <1>1 DEF NoDanglingReferent
<1>9. QED
  BY <1>2, <1>4, <1>5, <1>6, <1>7, <1>8

\* The second pause begins.
LEMMA PauseStep ==
    ASSUME IInv, SecondPause
    PROVE  IInv'
<1> USE DEF IInv
<1>1. /\ list' = list /\ strong' = strong /\ freed' = freed /\ enqueued' = enqueued
      /\ gc.pc = "remark" /\ gc.visited = Refs /\ \A k \in Markers : gc.racing[k] = Null
  BY DEF SecondPause
<1>2. /\ gc'.pc = "process" /\ gc'.marked = gc.marked \cup gc.snap /\ gc'.cur = list.discover
      /\ gc'.finalMarked = gc.finalMarked /\ gc'.racing = gc.racing /\ gc'.found = gc.found
  BY DEF SecondPause, TypeInv
<1>3. TypeInv'
  BY DEF SecondPause, TypeInv, GcPcs
<1>4. Marking /\ Paused' /\ ~Marking'
  BY <1>1, <1>2 DEF Marking, Paused
<1>5. ListInv'
  <2>1. PICK D \in SUBSET Refs, E \in SUBSET Refs : TwoLists(D, E)
    BY DEF ListInv
  <2>2. Anchor' = Anchor
    BY <1>1, <1>2 DEF Anchor
  <2>3. QED
    BY <1>1, <1>2, <2>1, <2>2, ListsKept
<1>6. CoverInv'
  <2>1. \A x \in list.referent : x \in gc.visited
    BY <1>1 DEF TypeInv
  <2>2. QED
    BY <1>1, <1>2, <1>4, <2>1 DEF CoverInv
<1>7. PhaseInv'
  BY <1>1, <1>2 DEF PhaseInv
<1>8. StrongInv' /\ NoDanglingReferent'
  BY <1>1, <1>2, <1>4 DEF StrongInv, NoDanglingReferent
<1>9. QED
  BY <1>3, <1>5, <1>6, <1>7, <1>8

\* Under discoverLock a reference that is in no list is put in front.
LEMMA DiscoverLists ==
    ASSUME TypeInv, ListInv, NEW r \in Refs, Discover(r), enqueued' = enqueued,
           gc.pc \in {"mark", "remark", "resurrect"}, gc'.pc = gc.pc
    PROVE  /\ ListInv'
           /\ list' \in [next : [Refs -> Refs \cup {Null}], referent : SUBSET Refs,
                         discover : Refs \cup {Null}, enqueue : Refs \cup {Null}]
           /\ list'.referent = list.referent /\ list'.next[r] # Null
           /\ \A x \in Refs : list.next[x] # Null => list'.next[x] # Null
<1>1. PICK D \in SUBSET Refs, E \in SUBSET Refs : TwoLists(D, E)
  BY DEF ListInv
<1>2. CASE list.next[r] # Null
  <2>1. list' = list
    BY <1>2 DEF Discover
  <2>2. Anchor' = Anchor
    BY <2>1 DEF Anchor
  <2>3. ListInv'
    BY <1>1, <2>1, <2>2, ListsKept
  <2>4. QED
    BY <1>2, <2>1, <2>3 DEF TypeInv
<1>3. CASE list.next[r] = Null
  <2>1. PICK v : v = Link(r, list.discover)
    OBVIOUS
  <2>2. v \in Refs
    BY <2>1 DEF Link, TypeInv
  <2>3. list' = [list EXCEPT !.next = [list.next EXCEPT ![r] = v], !.discover = r]
    BY <1>3, <2>1 DEF Discover, TypeInv
  <2>4. /\ list'.next = [list.next EXCEPT ![r] = v] /\ list'.discover = r
        /\ list'.enqueue = list.enqueue /\ list'.referent = list.referent
    BY <2>3 DEF TypeInv
  <2>5. list.next \in [Refs -> Refs \cup {Null}] /\ [list.next EXCEPT ![r] = v] \in [Refs -> Refs \cup {Null}]
    BY <2>2 DEF TypeInv
  <2>6. /\ list'.next[r] = v /\ v # Null
        /\ \A x \in Refs \ {r} : list'.next[x] = list.next[x]
    BY <2>2, <2>4, <2>5, NullAssumption
  <2>7. r \notin D /\ r \notin E /\ enqueued[r] # 1
    BY <1>1, <1>3 DEF TwoLists
  <2>8. Anchor = list.discover /\ Anchor' = r
    BY <2>4 DEF Anchor
  <2>9. Listed(D \cup {r}, r, list'.next)
    <3>1. \A x \in D : list'.next[x] = list.next[x]
      BY <2>6, <2>7
    <3>2. Listed(D, list.discover, list.next)
      BY <1>1, <2>8 DEF TwoLists
    <3>3. QED
      BY <2>1, <2>6, <2>7, <3>1, <3>2, ListedPush
  <2>10. Listed(E, list.enqueue, list'.next)
    <3>1. \A x \in E : list'.next[x] = list.next[x]
      BY <2>6, <2>7
    <3>2. QED
      BY <1>1, <3>1, ListedFrame DEF TwoLists
  <2>11. TwoLists(D \cup {r}, E)'
    <3>1. \A x \in Refs : list'.next[x] # Null <=> enqueued[x] = 1 \/ x \in (D \cup {r}) \cup E
      <4> SUFFICES ASSUME NEW x \in Refs
                   PROVE  list'.next[x] # Null <=> enqueued[x] = 1 \/ x \in (D \cup {r}) \cup E
        OBVIOUS
      <4>1. CASE x = r
        BY <2>6, <4>1
      <4>2. CASE x # r
        BY <1>1, <2>6, <4>2 DEF TwoLists
      <4>3. QED
        BY <4>1, <4>2
    <3>2. (D \cup {r}) \cap E = {}
      BY <1>1, <2>7 DEF TwoLists
    <3>3. /\ \A x \in E : x \notin list'.referent /\ enqueued[x] = 0
          /\ \A x \in Refs : enqueued[x] = 1 => x \notin list'.referent
      BY <1>1, <2>4 DEF TwoLists
    <3>4. \A x \in D \cup {r} : enqueued[x] = 0
      <4>1. enqueued[r] = 0
        BY <2>7 DEF TypeInv
      <4>2. QED
        BY <1>1, <4>1 DEF TwoLists
    <3>5. QED
      BY <2>4, <2>8, <2>9, <2>10, <3>1, <3>2, <3>3, <3>4 DEF TwoLists
  <2>12. ListInv'
    BY <2>11 DEF ListInv
  <2>13. list' \in [next : [Refs -> Refs \cup {Null}], referent : SUBSET Refs,
                    discover : Refs \cup {Null}, enqueue : Refs \cup {Null}]
    BY <2>3, <2>5 DEF TypeInv
  <2>14. QED
    BY <2>4, <2>6, <2>12, <2>13
<1>4. QED
  BY <1>2, <1>3

\* A marker that raced for a reference discovers it, unless another one did.
LEMMA DiscoverStep ==
    ASSUME IInv, NEW k \in Markers, DiscoverReference(k)
    PROVE  IInv'
<1> USE DEF IInv
<1>1. PICK r \in Refs : r = gc.racing[k]
  BY DEF DiscoverReference, TypeInv
<1>2. gc.pc \in {"mark", "remark"}
  BY DEF DiscoverReference, PhaseInv
<1>3. Discover(r) /\ strong' = strong /\ freed' = freed /\ enqueued' = enqueued
  BY <1>1 DEF DiscoverReference
<1>4. gc' = [gc EXCEPT !.racing = [gc.racing EXCEPT ![k] = Null]]
  BY DEF DiscoverReference, TypeInv
<1>5. /\ gc'.pc = gc.pc /\ gc'.snap = gc.snap /\ gc'.marked = gc.marked /\ gc'.visited = gc.visited
      /\ gc'.finalMarked = gc.finalMarked /\ gc'.found = gc.found
      /\ gc'.racing = [gc.racing EXCEPT ![k] = Null]
  BY <1>4 DEF TypeInv
<1>6. /\ ListInv' /\ list'.referent = list.referent /\ list'.next[r] # Null
      /\ \A x \in Refs : list.next[x] # Null => list'.next[x] # Null
  BY <1>2, <1>3, <1>5, DiscoverLists
<1>7. TypeInv'
  <2>1. list' \in [next : [Refs -> Refs \cup {Null}], referent : SUBSET Refs,
                   discover : Refs \cup {Null}, enqueue : Refs \cup {Null}]
    BY <1>2, <1>3, <1>5, DiscoverLists
  <2>2. [gc.racing EXCEPT ![k] = Null] \in [Markers -> Refs \cup {Null}]
    BY DEF TypeInv
  <2>3. QED
    BY <1>3, <1>4, <2>1, <2>2 DEF TypeInv
<1>8. PhaseInv'
  BY <1>2, <1>5 DEF PhaseInv
<1>9. CoverInv'
  <2>1. ASSUME NEW x \in list.referent, x # r, \E j \in Markers : gc.racing[j] = x
        PROVE  \E j \in Markers : gc'.racing[j] = x
    <3>1. PICK j \in Markers : gc.racing[j] = x
      BY <2>1
    <3>2. j # k
      BY <1>1, <2>1, <3>1
    <3>3. gc'.racing[j] = x
      BY <1>5, <3>1, <3>2 DEF TypeInv
    <3>4. QED
      BY <3>3
  <2>2. ASSUME NEW x \in list.referent, Paused' \/ (Marking' /\ x \in gc'.visited)
        PROVE  \/ x \in gc'.marked \cup gc'.finalMarked \cup gc'.found
               \/ list'.next[x] # Null
               \/ \E j \in Markers : gc'.racing[j] = x
    <3>1. Marking /\ x \in gc.visited /\ x \in Refs
      BY <1>2, <1>5, <2>2 DEF Paused, Marking, TypeInv
    <3>2. \/ x \in gc.marked \cup gc.finalMarked \cup gc.found
          \/ list.next[x] # Null
          \/ \E j \in Markers : gc.racing[j] = x
      BY <3>1 DEF CoverInv
    <3>3. QED
      BY <1>5, <1>6, <2>1, <3>1, <3>2
  <2>3. QED
    BY <1>6, <2>2 DEF CoverInv
<1>10. StrongInv' /\ NoDanglingReferent'
  BY <1>3, <1>5, <1>6 DEF StrongInv, NoDanglingReferent, Paused, Marking
<1>11. QED
  BY <1>6, <1>7, <1>8, <1>9, <1>10

\* DoResurrection discovers what the finalizer marking has found.
LEMMA ResurrectionStep ==
    ASSUME IInv, DoResurrection
    PROVE  IInv'
<1> USE DEF IInv
<1>1. gc.pc = "resurrect" /\ strong' = strong /\ freed' = freed /\ enqueued' = enqueued
  BY DEF DoResurrection
<1>2. ASSUME NEW r \in gc.found, gc' = [gc EXCEPT !.found = @ \ {r}], Discover(r)
      PROVE  IInv'
  <2>1. /\ gc'.pc = gc.pc /\ gc'.snap = gc.snap /\ gc'.marked = gc.marked /\ gc'.visited = gc.visited
        /\ gc'.finalMarked = gc.finalMarked /\ gc'.found = gc.found \ {r} /\ gc'.racing = gc.racing
    BY <1>2 DEF TypeInv
  <2>2. r \in Refs
    BY DEF TypeInv
  <2>3. /\ ListInv' /\ list'.referent = list.referent /\ list'.next[r] # Null
        /\ \A x \in Refs : list.next[x] # Null => list'.next[x] # Null
    BY <1>1, <1>2, <2>1, <2>2, DiscoverLists
  <2>4. TypeInv'
    <3>1. list' \in [next : [Refs -> Refs \cup {Null}], referent : SUBSET Refs,
                     discover : Refs \cup {Null}, enqueue : Refs \cup {Null}]
      BY <1>1, <1>2, <2>1, <2>2, DiscoverLists
    <3>2. QED
      BY <1>1, <1>2, <3>1 DEF TypeInv
  <2>5. PhaseInv' /\ Paused /\ Paused' /\ ~Marking'
    BY <1>1, <2>1 DEF PhaseInv, Paused, Marking
  <2>6. CoverInv'
    <3>1. \A x \in list.referent : x \in Refs
      BY DEF TypeInv
    <3>2. ASSUME NEW x \in list.referent
          PROVE  \/ x \in gc'.marked \cup gc'.finalMarked \cup gc'.found
                 \/ list'.next[x] # Null
                 \/ \E j \in Markers : gc'.racing[j] = x
      BY <2>1, <2>3, <2>5, <3>1 DEF CoverInv
    <3>3. QED
      BY <2>3, <3>2 DEF CoverInv
  <2>7. StrongInv' /\ NoDanglingReferent'
    BY <1>1, <2>1, <2>3, <2>5 DEF StrongInv, NoDanglingReferent
  <2>8. QED
    BY <2>3, <2>4, <2>5, <2>6, <2>7
<1>3. ASSUME gc.found = {}, list' = list, gc' = [gc EXCEPT !.pc = "process2", !.cur = list.discover]
      PROVE  IInv'
  <2>1. /\ gc'.pc = "process2" /\ gc'.cur = list.discover /\ gc'.marked = gc.marked
        /\ gc'.finalMarked = gc.finalMarked /\ gc'.found = gc.found /\ gc'.racing = gc.racing
    BY <1>3 DEF TypeInv
  <2>2. TypeInv'
    BY <1>1, <1>3 DEF TypeInv, GcPcs
  <2>3. ListInv'
    <3>1. PICK D \in SUBSET Refs, E \in SUBSET Refs : TwoLists(D, E)
      BY DEF ListInv
    <3>2. Anchor' = Anchor
      BY <1>1, <1>3, <2>1 DEF Anchor
    <3>3. QED
      BY <1>1, <1>3, <2>1, <3>1, <3>2, ListsKept
  <2>4. PhaseInv' /\ Paused /\ Paused' /\ ~Marking'
    BY <1>1, <1>3, <2>1 DEF PhaseInv, Paused, Marking
  <2>5. CoverInv' /\ StrongInv' /\ NoDanglingReferent'
    BY <1>1, <1>3, <2>1, <2>4 DEF CoverInv, StrongInv, NoDanglingReferent
  <2>6. QED
    BY <2>2, <2>3, <2>4, <2>5
<1>4. QED
  BY <1>2, <1>3 DEF DoResurrection

\* ConcurrentProcessDisovered takes the list of discovered references,
LEMMA FilterStartStep ==
    ASSUME IInv, FilterStart
    PROVE  IInv'
<1> USE DEF IInv
<1>1. /\ gc.pc = "mark" /\ strong' = strong /\ freed' = freed /\ enqueued' = enqueued
      /\ \A k \in Markers : gc.racing[k] = Null
  BY DEF FilterStart
<1>2. PICK p \in {"finalMark", "filter"} :
         /\ p = IF list.discover = Null THEN "finalMark" ELSE "filter"
         /\ gc' = [gc EXCEPT !.pc = p, !.head = list.discover, !.cur = list.discover, !.prev = Null]
  BY DEF FilterStart
<1>3. /\ gc'.pc = p /\ gc'.snap = gc.snap /\ gc'.marked = gc.marked /\ gc'.visited = gc.visited
      /\ gc'.finalMarked = gc.finalMarked /\ gc'.found = gc.found /\ gc'.racing = gc.racing
      /\ gc'.head = list.discover /\ gc'.cur = list.discover /\ gc'.prev = Null
  BY <1>2 DEF TypeInv
<1>4. /\ list'.discover = Null /\ list'.next = list.next /\ list'.enqueue = list.enqueue
      /\ list'.referent = list.referent
  BY DEF FilterStart, TypeInv
<1>5. TypeInv'
  <2>1. gc' \in [pc : GcPcs, snap : SUBSET Refs, marked : SUBSET Refs, finalMarked : SUBSET Refs,
                 visited : SUBSET Refs, racing : [Markers -> Refs \cup {Null}], found : SUBSET Refs,
                 head : Refs \cup {Null}, prev : Refs \cup {Null}, cur : Refs \cup {Null}]
    BY <1>2 DEF TypeInv, GcPcs
  <2>2. list' \in [next : [Refs -> Refs \cup {Null}], referent : SUBSET Refs,
                   discover : Refs \cup {Null}, enqueue : Refs \cup {Null}]
    BY DEF FilterStart, TypeInv
  <2>3. QED
    BY <1>1, <2>1, <2>2 DEF TypeInv
<1>6. ListInv'
  <2>1. PICK D \in SUBSET Refs, E \in SUBSET Refs : TwoLists(D, E)
    BY DEF ListInv
  <2>2. Anchor = list.discover
    BY <1>1 DEF Anchor
  <2>3. Anchor' = Anchor
    <3>1. CASE list.discover = Null
      <4>1. p = "finalMark"
        BY <1>2, <3>1
      <4>2. QED
        BY <1>3, <1>4, <2>2, <3>1, <4>1 DEF Anchor
    <3>2. CASE list.discover # Null
      <4>1. p = "filter"
        BY <1>2, <3>2
      <4>2. QED
        BY <1>3, <2>2, <4>1 DEF Anchor
    <3>3. QED
      BY <3>1, <3>2
  <2>4. gc'.pc = "filter" => InHand(D)'
    <3> SUFFICES ASSUME gc'.pc = "filter" PROVE InHand(D)'
      OBVIOUS
    <3>1. list.discover # Null
      BY <1>2, <1>3
    <3>2. list.discover \in D
      BY <2>1, <2>2, <3>1, ListedHead DEF TwoLists
    <3>3. QED
      BY <1>3, <3>2 DEF InHand
  <2>5. QED
    BY <1>1, <1>3, <1>4, <2>1, <2>3, <2>4, ListsKept
<1>7. PhaseInv' /\ Marking /\ Marking' /\ ~Paused'
  BY <1>1, <1>3, <1>4 DEF PhaseInv, Marking, Paused
<1>8. CoverInv'
  BY <1>3, <1>4, <1>7 DEF CoverInv
<1>9. StrongInv' /\ NoDanglingReferent'
  BY <1>1, <1>3, <1>4, <1>7 DEF StrongInv, NoDanglingReferent
<1>10. QED
  BY <1>5, <1>6, <1>7, <1>8, <1>9

\* unlinks what is marked or cleared,
LEMMA FilterLoopStep ==
    ASSUME IInv, FilterStep
    PROVE  IInv'
<1> USE DEF IInv
<1>1. /\ gc.pc = "filter" /\ strong' = strong /\ freed' = freed /\ enqueued' = enqueued
  BY DEF FilterStep
<1>2. PICK D \in SUBSET Refs, E \in SUBSET Refs : TwoLists(D, E)
  BY DEF ListInv
<1>3. InHand(D) /\ Listed(D, gc.head, list.next) /\ Listed(E, list.enqueue, list.next) /\ D \cap E = {}
  BY <1>1, <1>2 DEF TwoLists, Anchor
<1>4. PICK r \in Refs : r = gc.cur /\ r \in D
  BY <1>3 DEF InHand
<1>5. PICK a : a = After(r, list.next)
  OBVIOUS
<1>6. r # Null /\ list.next[r] \in Refs \cup {Null} /\ a \in Refs \cup {Null} /\ NextOf(gc.cur) = a
  BY <1>4, <1>5, NullAssumption DEF TypeInv, After, NextOf
<1> DEFINE keep == r \in list.referent \ gc.marked
           pc1 == IF a = Null THEN "merge" ELSE "filter"
           cur1 == IF a = Null THEN r ELSE a
           prev1 == IF keep THEN r ELSE gc.prev
           head1 == IF ~keep /\ gc.prev = Null THEN a ELSE gc.head
<1>7. /\ gc' = [gc EXCEPT !.pc = pc1, !.cur = cur1, !.prev = prev1, !.head = head1]
      /\ list' = IF keep THEN list ELSE [list EXCEPT !.next = Unlink(r, a)]
  BY <1>4, <1>6 DEF FilterStep
<1>8. pc1 \in {"merge", "filter"} /\ {cur1, prev1, head1} \subseteq Refs \cup {Null}
  BY <1>4, <1>6 DEF TypeInv
<1>9. pc1 = "filter" <=> a # Null
  OBVIOUS
<1> HIDE DEF keep, pc1, cur1, prev1, head1
<1>10. /\ gc'.pc = pc1 /\ gc'.snap = gc.snap /\ gc'.marked = gc.marked /\ gc'.visited = gc.visited
       /\ gc'.finalMarked = gc.finalMarked /\ gc'.found = gc.found /\ gc'.racing = gc.racing
       /\ gc'.head = head1 /\ gc'.cur = cur1 /\ gc'.prev = prev1
  BY <1>7 DEF TypeInv
<1>11. gc' \in [pc : GcPcs, snap : SUBSET Refs, marked : SUBSET Refs, finalMarked : SUBSET Refs,
                visited : SUBSET Refs, racing : [Markers -> Refs \cup {Null}], found : SUBSET Refs,
                head : Refs \cup {Null}, prev : Refs \cup {Null}, cur : Refs \cup {Null}]
  BY <1>7, <1>8 DEF TypeInv, GcPcs
<1>12. ~Paused /\ Marking /\ Marking' /\ ~Paused' /\ Anchor' = head1
  BY <1>1, <1>8, <1>10 DEF Marking, Paused, Anchor
<1>13. /\ list'.discover = list.discover /\ list'.enqueue = list.enqueue
       /\ list'.referent = list.referent
       /\ list'.next = IF keep THEN list.next ELSE Unlink(r, a)
  BY <1>7 DEF TypeInv
<1>14. PhaseInv'
  BY <1>1, <1>8, <1>10, <1>13 DEF PhaseInv
<1>15. StrongInv' /\ NoDanglingReferent'
  BY <1>1, <1>10, <1>12, <1>13 DEF StrongInv, NoDanglingReferent
<1>16. CASE keep
  <2>1. list' = list /\ head1 = gc.head /\ prev1 = r
    BY <1>7, <1>16 DEF head1, prev1
  <2>2. TypeInv'
    BY <1>1, <1>11, <2>1 DEF TypeInv
  <2>3. ListInv'
    <3>1. Anchor = gc.head
      BY <1>1 DEF Anchor
    <3>2. a # Null => InHand(D)'
      <4> SUFFICES ASSUME a # Null PROVE InHand(D)'
        OBVIOUS
      <4>1. list.next[r] = a /\ a # r
        BY <1>5 DEF After
      <4>2. \A x \in D \ {r} : x # Null
        BY NullAssumption
      <4>3. a \in D
        <5>1. PICK n, s : IsList(n, s, gc.head, list.next) /\ D = Elements(n, s)
          BY <1>3 DEF Listed
        <5>2. PICK i \in 1 .. n : r = s[i]
          BY <1>4, <5>1 DEF Elements
        <5>3. i # n /\ s[i + 1] = a
          BY <4>1, <5>1, <5>2 DEF IsList
        <5>4. i + 1 \in 1 .. n
          BY <5>1, <5>3 DEF IsList
        <5>5. QED
          BY <5>1, <5>3, <5>4 DEF Elements
      <4>4. gc'.cur = a /\ gc'.prev = r
        BY <1>10, <2>1 DEF cur1
      <4>5. QED
        BY <1>4, <1>6, <2>1, <4>1, <4>3, <4>4 DEF InHand
    <3>3. gc'.pc # "idle" /\ (gc'.pc = "filter" => InHand(D)')
      BY <1>8, <1>9, <1>10, <3>2
    <3>4. QED
      BY <1>1, <1>2, <1>12, <2>1, <3>1, <3>3, ListsKept
  <2>4. CoverInv'
    BY <1>10, <1>12, <2>1 DEF CoverInv
  <2>5. QED
    BY <1>14, <1>15, <2>2, <2>3, <2>4
<1>17. CASE ~keep
  <2>1. /\ list'.next = Unlink(r, a) /\ prev1 = gc.prev
        /\ head1 = IF gc.prev = Null THEN a ELSE gc.head
    BY <1>13, <1>17 DEF head1, prev1
  <2>2. /\ list'.next[r] = Null
        /\ \A x \in Refs \ {r} : list'.next[x] = IF x = gc.prev THEN Link(x, a) ELSE list.next[x]
    BY <2>1 DEF Unlink
  <2>3. TypeInv'
    <3>1. \A x \in Refs : Link(x, a) \in Refs /\ list.next[x] \in Refs \cup {Null}
      BY <1>6 DEF Link, TypeInv
    <3>2. Unlink(r, a) \in [Refs -> Refs \cup {Null}]
      BY <3>1 DEF Unlink
    <3>3. list' \in [next : [Refs -> Refs \cup {Null}], referent : SUBSET Refs,
                     discover : Refs \cup {Null}, enqueue : Refs \cup {Null}]
      BY <1>7, <1>17, <3>2 DEF TypeInv
    <3>4. QED
      BY <1>1, <1>11, <3>3 DEF TypeInv
  <2>4. (gc.prev = Null => r = gc.head) /\ (gc.prev # Null => gc.prev \in D /\ gc.prev # r /\ list.next[gc.prev] = r)
    BY <1>3, <1>4 DEF InHand
  <2>5. /\ Listed(D \ {r}, head1, list'.next)
        /\ a # Null => a \in D \ {r} /\ a # gc.prev
    <3>1. PICK old, new, prev, h : /\ old = list.next /\ new = list'.next
                                   /\ prev = gc.prev /\ h = gc.head
      OBVIOUS
    <3>2. \A x \in D \ {r} : new[x] = IF x = prev THEN Link(x, After(r, old)) ELSE old[x]
      BY <1>5, <2>2, <3>1
    <3>3. (prev = Null => r = h) /\ (prev # Null => prev \in D /\ prev # r /\ old[prev] = r)
      BY <2>4, <3>1
    <3>4. Listed(D, h, old)
      BY <1>3, <3>1
    <3>5. /\ Listed(D \ {r}, IF prev = Null THEN After(r, old) ELSE h, new)
          /\ After(r, old) # Null => After(r, old) \in D \ {r} /\ After(r, old) # prev
      BY <1>4, <3>2, <3>3, <3>4, ListedDrop
    <3>6. QED
      BY <1>5, <2>1, <3>1, <3>5
  <2>6. \A x \in E : list'.next[x] = list.next[x]
    BY <1>3, <1>4, <2>2, <2>4, NullAssumption
  <2>7. Listed(E, list.enqueue, list'.next)
    BY <1>3, <2>6, ListedFrame
  <2>8. a # Null => InHand(D \ {r})'
    <3> SUFFICES ASSUME a # Null PROVE InHand(D \ {r})'
      OBVIOUS
    <3>1. gc'.cur = a /\ gc'.prev = gc.prev /\ gc'.head = IF gc.prev = Null THEN a ELSE gc.head
      BY <1>10, <2>1 DEF cur1
    <3>2. gc.prev # Null => list'.next[gc.prev] = a
      BY <2>2, <2>4 DEF Link
    <3>3. QED
      BY <2>4, <2>5, <3>1, <3>2 DEF InHand
  <2>9. TwoLists(D \ {r}, E)'
    <3>1. ASSUME NEW x \in Refs
          PROVE  list'.next[x] # Null <=> enqueued[x] = 1 \/ x \in (D \ {r}) \cup E
      <4>1. list.next[x] # Null <=> enqueued[x] = 1 \/ x \in D \cup E
        BY <1>2 DEF TwoLists
      <4>2. CASE x = r
        <5>1. enqueued[r] = 0 /\ r \notin E
          BY <1>2, <1>3, <1>4 DEF TwoLists
        <5>2. QED
          BY <2>2, <4>2, <5>1
      <4>3. CASE x # r /\ x = gc.prev
        <5>1. gc.prev # Null /\ x \in D /\ Link(x, a) # Null
          BY <1>6, <2>4, <4>3, NullAssumption DEF Link
        <5>2. QED
          BY <2>2, <4>3, <5>1
      <4>4. CASE x # r /\ x # gc.prev
        BY <2>2, <4>1, <4>4
      <4>5. QED
        BY <4>2, <4>3, <4>4
    <3>2. (D \ {r}) \cap E = {}
      BY <1>3
    <3>3. /\ \A x \in E : x \notin list'.referent /\ enqueued[x] = 0
          /\ \A x \in D \ {r} : enqueued[x] = 0
          /\ \A x \in Refs : enqueued[x] = 1 => x \notin list'.referent
      BY <1>2, <1>13 DEF TwoLists
    <3>4. gc'.pc # "idle" /\ (gc'.pc = "filter" => InHand(D \ {r})')
      BY <1>8, <1>9, <1>10, <2>8
    <3>5. QED
      BY <1>1, <1>12, <1>13, <2>5, <2>7, <3>1, <3>2, <3>3, <3>4 DEF TwoLists
  <2>10. ListInv'
    BY <2>9 DEF ListInv
  <2>11. CoverInv'
    <3> SUFFICES ASSUME NEW x \in list.referent, x \in gc.visited
                 PROVE  \/ x \in gc.marked \cup gc.finalMarked \cup gc.found
                        \/ list'.next[x] # Null
                        \/ \E j \in Markers : gc.racing[j] = x
      BY <1>10, <1>12, <1>13 DEF CoverInv
    <3>1. x \in Refs
      BY DEF TypeInv
    <3>2. CASE x = r
      BY <1>17, <3>2 DEF keep
    <3>3. CASE x # r
      <4>1. list.next[x] # Null => list'.next[x] # Null
        BY <1>6, <2>2, <3>1, <3>3, NullAssumption DEF Link
      <4>2. QED
        BY <1>12, <4>1 DEF CoverInv
    <3>4. QED
      BY <3>2, <3>3
  <2>12. QED
    BY <1>14, <1>15, <2>3, <2>10, <2>11
<1>18. QED
  BY <1>16, <1>17

\* and puts the rest back.  Nothing was discovered meanwhile.
LEMMA FilterMergeStep ==
    ASSUME IInv, FilterMerge
    PROVE  IInv'
<1> USE DEF IInv
<1>1. /\ gc.pc = "merge" /\ strong' = strong /\ freed' = freed /\ enqueued' = enqueued
      /\ list.discover = Null
  BY DEF FilterMerge, PhaseInv
<1>2. list' = [list EXCEPT !.discover = gc.head]
  <2>1. CASE gc.head = Null
    <3>1. list' = list
      BY <2>1 DEF FilterMerge
    <3>2. QED
      BY <1>1, <2>1, <3>1 DEF TypeInv
  <2>2. CASE gc.head # Null
    <3>1. list' = [list EXCEPT !.discover = gc.head, !.next = list.next]
      BY <1>1, <2>2 DEF FilterMerge
    <3>2. QED
      BY <3>1 DEF TypeInv
  <2>3. QED
    BY <2>1, <2>2
<1>3. /\ list'.discover = gc.head /\ list'.next = list.next /\ list'.enqueue = list.enqueue
      /\ list'.referent = list.referent
  BY <1>2 DEF TypeInv
<1>4. /\ gc'.pc = "finalMark" /\ gc'.snap = gc.snap /\ gc'.marked = gc.marked
      /\ gc'.visited = gc.visited /\ gc'.finalMarked = gc.finalMarked /\ gc'.found = gc.found
      /\ gc'.racing = gc.racing
  BY DEF FilterMerge, TypeInv
<1>5. TypeInv'
  <2>1. gc' \in [pc : GcPcs, snap : SUBSET Refs, marked : SUBSET Refs, finalMarked : SUBSET Refs,
                 visited : SUBSET Refs, racing : [Markers -> Refs \cup {Null}], found : SUBSET Refs,
                 head : Refs \cup {Null}, prev : Refs \cup {Null}, cur : Refs \cup {Null}]
    BY DEF FilterMerge, TypeInv, GcPcs
  <2>2. QED
    BY <1>1, <1>2, <2>1 DEF TypeInv
<1>6. ListInv'
  <2>1. PICK D \in SUBSET Refs, E \in SUBSET Refs : TwoLists(D, E)
    BY DEF ListInv
  <2>2. Anchor' = Anchor
    BY <1>1, <1>3, <1>4 DEF Anchor
  <2>3. QED
    BY <1>1, <1>3, <1>4, <2>1, <2>2, ListsKept
<1>7. PhaseInv' /\ Marking /\ Marking' /\ ~Paused'
  BY <1>1, <1>3, <1>4 DEF PhaseInv, Marking, Paused
<1>8. CoverInv'
  BY <1>3, <1>4, <1>7 DEF CoverInv
<1>9. StrongInv' /\ NoDanglingReferent'
  BY <1>1, <1>3, <1>4, <1>7 DEF StrongInv, NoDanglingReferent
<1>10. QED
  BY <1>5, <1>6, <1>7, <1>8, <1>9

\* One round of ProcessDiscoveredReference: the head of the list is cleared
\* and goes to the RP thread, or leaves the list.
LEMMA ProcessStep ==
    ASSUME IInv, ProcessDiscovered
    PROVE  IInv'
<1> USE DEF IInv
<1>1. /\ gc.pc \in {"process", "process2"} /\ strong' = strong /\ freed' = freed /\ enqueued' = enqueued
  BY DEF ProcessDiscovered
<1>2. PICK r \in Refs : r = gc.cur
  BY DEF ProcessDiscovered, TypeInv
<1>3. PICK D \in SUBSET Refs, E \in SUBSET Refs : TwoLists(D, E)
  BY DEF ListInv
<1>4. Listed(D, r, list.next) /\ Listed(E, list.enqueue, list.next) /\ D \cap E = {}
  BY <1>1, <1>2, <1>3 DEF TwoLists, Anchor
<1>5. r # Null /\ r \in D /\ r \notin E /\ enqueued[r] = 0
  BY <1>2, <1>3, <1>4, ListedHead, NullAssumption DEF TwoLists
<1>6. PICK old, a : old = list.next /\ a = After(r, old)
  OBVIOUS
<1>7. /\ old \in [Refs -> Refs \cup {Null}] /\ a \in Refs \cup {Null} /\ NextOf(gc.cur) = a
  BY <1>2, <1>6 DEF TypeInv, After, NextOf
<1>8. gc' = [gc EXCEPT !.cur = a]
  BY <1>7 DEF ProcessDiscovered
<1>9. /\ gc'.pc = gc.pc /\ gc'.snap = gc.snap /\ gc'.marked = gc.marked /\ gc'.visited = gc.visited
      /\ gc'.finalMarked = gc.finalMarked /\ gc'.found = gc.found /\ gc'.racing = gc.racing
      /\ gc'.cur = a
  BY <1>8 DEF TypeInv
<1>10. gc' \in [pc : GcPcs, snap : SUBSET Refs, marked : SUBSET Refs, finalMarked : SUBSET Refs,
                visited : SUBSET Refs, racing : [Markers -> Refs \cup {Null}], found : SUBSET Refs,
                head : Refs \cup {Null}, prev : Refs \cup {Null}, cur : Refs \cup {Null}]
  BY <1>7, <1>8 DEF TypeInv
<1>11. Paused /\ Paused' /\ ~Marking' /\ Anchor' = a
  BY <1>1, <1>9 DEF Paused, Marking, Anchor
<1>12. ASSUME NEW new, \A x \in D \ {r} : new[x] = old[x]
       PROVE  Listed(D \ {r}, a, new)
  <2>1. \A x \in D \ {r} : new[x] = IF x = Null THEN Link(x, After(r, old)) ELSE old[x]
    BY <1>12, NullAssumption
  <2>2. Listed(D, r, old)
    BY <1>4, <1>6
  <2>3. Listed(D \ {r}, IF Null = Null THEN After(r, old) ELSE r, new)
    BY <1>5, <2>1, <2>2, ListedDrop
  <2>4. QED
    BY <1>6, <2>3
<1>13. PhaseInv'
  BY <1>1, <1>9 DEF PhaseInv
<1>14. CASE r \in list.referent /\ Garbage(r)
  <2>1. PICK v, h : v = Link(r, h) /\ h = list.enqueue
    OBVIOUS
  <2>2. v \in Refs /\ v # Null
    BY <2>1, NullAssumption DEF Link, TypeInv
  <2>3. list' = [list EXCEPT !.referent = list.referent \ {r}, !.enqueue = r,
                             !.next = [old EXCEPT ![r] = v]]
    BY <1>2, <1>6, <1>14, <2>1 DEF ProcessDiscovered, TypeInv
  <2>4. [old EXCEPT ![r] = v] \in [Refs -> Refs \cup {Null}]
    BY <1>7, <2>2
  <2>5. /\ list'.next = [old EXCEPT ![r] = v] /\ list'.enqueue = r
        /\ list'.referent = list.referent \ {r} /\ list'.discover = list.discover
    BY <2>3 DEF TypeInv
  <2>6. PICK new : new = list'.next
    OBVIOUS
  <2>7. new[r] = v /\ \A x \in Refs \ {r} : new[x] = old[x]
    BY <1>7, <2>5, <2>6
  <2>8. TypeInv'
    BY <1>1, <1>10, <2>3, <2>4 DEF TypeInv
  <2>9. Listed(D \ {r}, a, new)
    BY <1>12, <2>7
  <2>10. Listed(E \cup {r}, r, new)
    <3>1. \A x \in E : new[x] = old[x]
      BY <1>5, <2>7
    <3>2. Listed(E, h, old)
      BY <1>4, <1>6, <2>1
    <3>3. QED
      BY <1>5, <2>1, <2>7, <3>1, <3>2, ListedPush
  <2>11. TwoLists(D \ {r}, E \cup {r})'
    <3>1. ASSUME NEW x \in Refs
          PROVE  new[x] # Null <=> enqueued[x] = 1 \/ x \in (D \ {r}) \cup (E \cup {r})
      <4>1. old[x] # Null <=> enqueued[x] = 1 \/ x \in D \cup E
        BY <1>3, <1>6 DEF TwoLists
      <4>2. QED
        BY <2>2, <2>7, <4>1
    <3>2. (D \ {r}) \cap (E \cup {r}) = {}
      BY <1>4
    <3>3. /\ \A x \in E \cup {r} : x \notin list'.referent /\ enqueued[x] = 0
          /\ \A x \in D \ {r} : enqueued[x] = 0
          /\ \A x \in Refs : enqueued[x] = 1 => x \notin list'.referent
      BY <1>3, <1>5, <2>5 DEF TwoLists
    <3>4. QED
      BY <1>1, <1>9, <1>11, <2>5, <2>6, <2>9, <2>10, <3>1, <3>2, <3>3 DEF TwoLists
  <2>12. ListInv'
    BY <2>11 DEF ListInv
  <2>13. CoverInv'
    <3>1. \A x \in list'.referent : x \in list.referent /\ list'.next[x] = list.next[x]
      BY <1>6, <2>5, <2>6, <2>7 DEF TypeInv
    <3>2. QED
      BY <1>9, <1>11, <3>1 DEF CoverInv
  <2>14. StrongInv' /\ NoDanglingReferent'
    BY <1>1, <1>9, <1>11, <2>5 DEF StrongInv, NoDanglingReferent
  <2>15. QED
    BY <1>13, <2>8, <2>12, <2>13, <2>14
<1>15. CASE ~(r \in list.referent /\ Garbage(r))
  <2>1. list' = [list EXCEPT !.next = [old EXCEPT ![r] = Null]]
    BY <1>2, <1>6, <1>15 DEF ProcessDiscovered, TypeInv
  <2>2. [old EXCEPT ![r] = Null] \in [Refs -> Refs \cup {Null}]
    BY <1>7
  <2>3. /\ list'.next = [old EXCEPT ![r] = Null] /\ list'.enqueue = list.enqueue
        /\ list'.referent = list.referent /\ list'.discover = list.discover
    BY <2>1 DEF TypeInv
  <2>4. PICK new : new = list'.next
    OBVIOUS
  <2>5. new[r] = Null /\ \A x \in Refs \ {r} : new[x] = old[x]
    BY <1>7, <2>3, <2>4
  <2>6. TypeInv'
    BY <1>1, <1>10, <2>1, <2>2 DEF TypeInv
  <2>7. Listed(D \ {r}, a, new)
    BY <1>12, <2>5
  <2>8. Listed(E, list.enqueue, new)
    <3>1. \A x \in E : new[x] = list.next[x]
      BY <1>5, <1>6, <2>5
    <3>2. QED
      BY <1>4, <3>1, ListedFrame
  <2>9. TwoLists(D \ {r}, E)'
    <3>1. ASSUME NEW x \in Refs
          PROVE  new[x] # Null <=> enqueued[x] = 1 \/ x \in (D \ {r}) \cup E
      <4>1. old[x] # Null <=> enqueued[x] = 1 \/ x \in D \cup E
        BY <1>3, <1>6 DEF TwoLists
      <4>2. QED
        BY <1>5, <2>5, <4>1
    <3>2. (D \ {r}) \cap E = {}
      BY <1>4
    <3>3. /\ \A x \in E : x \notin list'.referent /\ enqueued[x] = 0
          /\ \A x \in D \ {r} : enqueued[x] = 0
          /\ \A x \in Refs : enqueued[x] = 1 => x \notin list'.referent
      BY <1>3, <2>3 DEF TwoLists
    <3>4. QED
      BY <1>1, <1>9, <1>11, <2>3, <2>4, <2>7, <2>8, <3>1, <3>2, <3>3 DEF TwoLists
  <2>10. ListInv'
    BY <2>9 DEF ListInv
  <2>11. CoverInv'
    <3>1. r \in list.referent => r \in gc.marked \cup gc.finalMarked
      BY <1>15 DEF Garbage
    <3>2. \A x \in list.referent : x = r \/ list'.next[x] = list.next[x]
      BY <1>6, <2>4, <2>5 DEF TypeInv
    <3>3. QED
      BY <1>9, <1>11, <2>3, <3>1, <3>2 DEF CoverInv
  <2>12. StrongInv' /\ NoDanglingReferent'
    BY <1>1, <1>9, <1>11, <2>3 DEF StrongInv, NoDanglingReferent
  <2>13. QED
    BY <1>13, <2>6, <2>10, <2>11, <2>12
<1>16. QED
  BY <1>14, <1>15

\* The first pass ends.
LEMMA SoftWeakStep ==
    ASSUME IInv, ProcessedSoftWeak
    PROVE  IInv'
<1> USE DEF IInv
<1>1. /\ gc.pc = "process" /\ gc.cur = Null
      /\ strong' = strong /\ freed' = freed /\ enqueued' = enqueued
  BY DEF ProcessedSoftWeak
<1>2. /\ gc'.pc = "resurrect" /\ gc'.marked = gc.marked /\ gc'.finalMarked = gc.finalMarked
      /\ gc'.found = gc.found /\ gc'.racing = gc.racing
  BY DEF ProcessedSoftWeak, TypeInv
<1>3. /\ list'.discover = Null /\ list'.next = list.next /\ list'.enqueue = list.enqueue
      /\ list'.referent = list.referent
  BY DEF ProcessedSoftWeak, TypeInv
<1>4. TypeInv'
  BY DEF ProcessedSoftWeak, TypeInv, GcPcs
<1>5. ListInv'
  <2>1. PICK D \in SUBSET Refs, E \in SUBSET Refs : TwoLists(D, E)
    BY DEF ListInv
  <2>2. Anchor' = Anchor
    BY <1>1, <1>2, <1>3 DEF Anchor
  <2>3. QED
    BY <1>1, <1>2, <1>3, <2>1, <2>2, ListsKept
<1>6. PhaseInv' /\ Paused /\ Paused' /\ ~Marking'
  BY <1>1, <1>2 DEF PhaseInv, Paused, Marking
<1>7. CoverInv' /\ StrongInv' /\ NoDanglingReferent'
  BY <1>1, <1>2, <1>3, <1>6 DEF CoverInv, StrongInv, NoDanglingReferent
<1>8. QED
  BY <1>4, <1>5, <1>6, <1>7

\* The pause ends and the sweep frees what is in neither bitmap: every
\* reference that is still set points to something marked.
LEMMA SweepStep ==
    ASSUME IInv, ProcessedAll
    PROVE  IInv'
<1> USE DEF IInv
<1>1. /\ gc.pc = "process2" /\ gc.cur = Null /\ strong' = strong /\ enqueued' = enqueued
      /\ freed' = freed \cup (Refs \ (gc.marked \cup gc.finalMarked))
  BY DEF ProcessedAll
<1>2. gc'.pc = "idle" /\ gc'.finalMarked = {} /\ gc'.racing = gc.racing
  BY DEF ProcessedAll, TypeInv
<1>3. /\ list'.discover = Null /\ list'.next = list.next /\ list'.enqueue = list.enqueue
      /\ list'.referent = list.referent
  BY DEF ProcessedAll, TypeInv
<1>4. TypeInv'
  BY DEF ProcessedAll, TypeInv, GcPcs
<1>5. PICK D \in SUBSET Refs, E \in SUBSET Refs : TwoLists(D, E)
  BY DEF ListInv
<1>6. Anchor = Null /\ Anchor' = Null
  BY <1>1, <1>2, <1>3 DEF Anchor
<1>7. D = {}
  BY <1>5, <1>6, ListedHead DEF TwoLists
<1>8. ListInv'
  BY <1>1, <1>2, <1>3, <1>5, <1>6, <1>7, ListsKept
<1>9. Paused /\ ~Paused' /\ ~Marking'
  BY <1>1, <1>2 DEF Paused, Marking
<1>10. PhaseInv' /\ CoverInv' /\ StrongInv'
  BY <1>1, <1>2, <1>3, <1>9 DEF PhaseInv, CoverInv, StrongInv
<1>11. NoDanglingReferent'
  <2>1. ASSUME NEW x \in list.referent PROVE x \in gc.marked \cup gc.finalMarked
    <3>1. x \in Refs /\ x # Null
      BY NullAssumption DEF TypeInv
    <3>2. list.next[x] = Null
      BY <1>5, <1>7, <3>1 DEF TwoLists
    <3>3. gc.found = {} /\ \A k \in Markers : gc.racing[k] # x
      BY <1>1, <3>1 DEF PhaseInv
    <3>4. QED
      BY <1>9, <3>2, <3>3 DEF CoverInv
  <2>2. strong \subseteq gc.marked
    BY <1>9 DEF StrongInv
  <2>3. QED
    BY <1>1, <1>3, <2>1, <2>2 DEF NoDanglingReferent
<1>12. QED
  BY <1>4, <1>8, <1>10, <1>11

-----------------------------------------------------------------------------
(* The theorems.                                                           *)

LEMMA InitIInv == Init => IInv
<1> SUFFICES ASSUME Init PROVE IInv
  OBVIOUS
<1>1. TypeInv
  BY DEF Init, TypeInv, GcPcs
<1>2. PhaseInv /\ CoverInv /\ StrongInv /\ NoDanglingReferent
  BY DEF Init, PhaseInv, CoverInv, StrongInv, NoDanglingReferent, Paused, Marking
<1>3. TwoLists({}, {})
  <2>1. Listed({}, Null, list.next)
    BY EmptyList
  <2>2. Anchor = Null /\ list.enqueue = Null /\ gc.pc = "idle"
    BY DEF Init, Anchor
  <2>3. \A r \in Refs : list.next[r] = Null /\ enqueued[r] = 0
    BY DEF Init
  <2>4. QED
    BY <2>1, <2>2, <2>3 DEF TwoLists
<1>4. QED
  BY <1>1, <1>2, <1>3 DEF IInv, ListInv

LEMMA NextIInv == IInv /\ [Next]_vars => IInv'
<1> SUFFICES ASSUME IInv, [Next]_vars PROVE IInv'
  OBVIOUS
<1>1. ASSUME NEW r \in Refs, MarkReferent(r) \/ FinalMark(r) \/ \E k \in Markers : Visit(k, r)
      PROVE  IInv'
  BY <1>1, MarkStep
<1>2. ASSUME GcBegin \/ FinalMarkDone PROVE IInv'
  BY <1>2, MarkStep
<1>3. CASE GcStep
  BY <1>1, <1>2, <1>3, DiscoverStep, FilterStartStep, FilterLoopStep, FilterMergeStep, PauseStep,
     ProcessStep, SoftWeakStep, ResurrectionStep, SweepStep DEF GcStep
<1>4. CASE UNCHANGED vars
  <2>1. list' = list /\ gc' = gc /\ strong' = strong /\ freed' = freed /\ enqueued' = enqueued
    BY <1>4 DEF vars
  <2>2. TypeInv' /\ PhaseInv' /\ CoverInv' /\ StrongInv' /\ NoDanglingReferent'
    BY <2>1 DEF IInv, TypeInv, PhaseInv, CoverInv, StrongInv, NoDanglingReferent, Paused, Marking
  <2>3. ListInv'
    <3>1. PICK D \in SUBSET Refs, E \in SUBSET Refs : TwoLists(D, E)
      BY DEF IInv, ListInv
    <3>2. Anchor' = Anchor
      BY <2>1 DEF Anchor
    <3>3. gc'.pc = "filter" => InHand(D)'
      BY <2>1, <3>1 DEF TwoLists, InHand
    <3>4. QED
      BY <2>1, <3>1, <3>2, <3>3, ListsKept DEF TwoLists
  <2>4. QED
    BY <2>2, <2>3 DEF IInv
<1>5. QED
  BY <1>1, <1>2, <1>3, <1>4, EnqueueStep, MutatorStep DEF Next

\* The lists linked through pendingNext stay lists whatever the interleaving
\* of markers, filter, RP thread and Java code, for any number of references.
THEOREM InductiveInvariant == Spec => []IInv
  BY InitIInv, NextIInv, PTL DEF Spec

\* A reference is never left pointing to swept memory, and nothing that Java
\* code holds is swept, whatever the concurrent filter and Reference.get race
\* for: CopyChildRefs, DiscoverReference, ConcurrentProcessDisovered and
\* ProcessDiscoveredReference.
THEOREM NoneDangles == Spec => []NoDanglingReferent
<1>1. IInv => NoDanglingReferent
  BY DEF IInv
<1>2. QED
  BY <1>1, InductiveInvariant, PTL

\* From its discovery to enqueue() a reference is in exactly one list, and
\* between collections a reference that survived is in none.
THEOREM NoneIsLost == Spec => []NoReferenceLost
<1>1. IInv => NoReferenceLost
  <2> SUFFICES ASSUME IInv PROVE NoReferenceLost
    OBVIOUS
  <2> USE DEF IInv
  <2>1. PICK D \in SUBSET Refs, E \in SUBSET Refs : TwoLists(D, E)
    BY DEF ListInv
  <2>2. TypeOK
    <3>1. gc.finalMarked \subseteq Refs \ freed
      BY DEF StrongInv, TypeInv
    <3>2. gc.pc \in GcPcs /\ {gc.head, gc.prev, gc.cur} \subseteq Refs \cup {Null} /\ gc.marked \subseteq Refs
      BY DEF TypeInv
    <3>3. QED
      BY <3>1, <3>2 DEF TypeOK, TypeInv
  <2>3. \A r \in Refs : list.next[r] # Null /\ r \in list.referent => r \in D
    BY <2>1 DEF TwoLists
  <2>4. DiscoverListEmptied
    <3>1. gc.pc = "idle" => D = {}
      BY <2>1 DEF TwoLists
    <3>2. QED
      BY <2>3, <3>1 DEF DiscoverListEmptied, TypeInv
  <2>5. Chain(list.enqueue) = E /\ Chain(Anchor) = D
    <3>1. \A h : Chain(h) = Reached(h, list.next)
      BY DEF Chain, Reached, Followed, Closed
    <3>2. QED
      BY <2>1, <3>1, ListedReached DEF TwoLists
  <2>6. Chain(Null) = {}
    BY DEF Chain
  <2>7. ASSUME ~Paused
        PROVE  /\ \A r \in Refs : list.next[r] # Null <=>
                     enqueued[r] > 0 \/ \E i \in 1 .. 3 : r \in Lists[i]
               /\ \A i, j \in 1 .. 3 : i # j => Lists[i] \cap Lists[j] = {}
               /\ \A r \in Lists[2] : r \notin list.referent /\ enqueued[r] = 0
    <3>1. \/ Lists[1] = D /\ Lists[3] = {}
          \/ Lists[1] = {} /\ Lists[3] = D
      <4>1. CASE gc.pc \in {"filter", "merge"}
        <5>1. Anchor = gc.head /\ list.discover = Null
          BY <4>1 DEF Anchor, PhaseInv
        <5>2. QED
          BY <2>5, <2>6, <4>1, <5>1 DEF Lists
      <4>2. CASE gc.pc \notin {"filter", "merge"}
        <5>1. Anchor = list.discover
          BY <2>7, <4>2 DEF Anchor, Paused
        <5>2. QED
          BY <2>5, <4>2, <5>1 DEF Lists
      <4>3. QED
        BY <4>1, <4>2
    <3>2. Lists[2] = E
      BY <2>5 DEF Lists
    <3>3. \A i \in 1 .. 3 : i = 1 \/ i = 2 \/ i = 3
      OBVIOUS
    <3>4. \A r : (\E i \in 1 .. 3 : r \in Lists[i]) <=> r \in D \cup E
      <4>1. 1 \in 1 .. 3 /\ 2 \in 1 .. 3 /\ 3 \in 1 .. 3
        OBVIOUS
      <4>2. QED
        BY <3>1, <3>2, <3>3, <4>1
    <3>5. \A r \in Refs : enqueued[r] > 0 <=> enqueued[r] = 1
      BY DEF TypeInv
    <3>6. \A r \in Refs : list.next[r] # Null <=>
             enqueued[r] > 0 \/ \E i \in 1 .. 3 : r \in Lists[i]
      BY <2>1, <3>4, <3>5 DEF TwoLists
    <3>7. \A i, j \in 1 .. 3 : i # j => Lists[i] \cap Lists[j] = {}
      <4>1. D \cap E = {}
        BY <2>1 DEF TwoLists
      <4>2. QED
        BY <3>1, <3>2, <3>3, <4>1
    <3>8. \A r \in Lists[2] : r \notin list.referent /\ enqueued[r] = 0
      BY <2>1, <3>2 DEF TwoLists
    <3>9. QED
      BY <3>6, <3>7, <3>8
  <2>8. QED
    BY <2>2, <2>4, <2>7 DEF NoReferenceLost, NoDanglingReferent
<1>2. QED
  BY <1>1, InductiveInvariant, PTL

-----------------------------------------------------------------------------
(* Refinement of ReferenceLifecycle.                                       *)

\* A step that links nothing of the RP thread's list anew leaves it alone.
LEMMA PendingSame ==
    ASSUME NEW D, NEW E, TwoLists(D, E), list'.enqueue = list.enqueue,
           \A x \in E : list'.next[x] = list.next[x]
    PROVE  Chain(list.enqueue)' = Chain(list.enqueue)
<1>1. PICK h, old, new : h = list.enqueue /\ old = list.next /\ new = list'.next
  OBVIOUS
<1>2. Listed(E, h, old) /\ \A x \in E : new[x] = old[x]
  BY <1>1 DEF TwoLists
<1>3. Listed(E, h, new)
  BY <1>2, ListedFrame
<1>4. Listed(E, list'.enqueue, list'.next)
  BY <1>1, <1>3
<1>5. Chain(list.enqueue) = E
  BY <1>1, <1>2, ListedChain
<1>6. Chain(list.enqueue)' = E
  BY <1>4, ListedChainNext
<1>7. QED
  BY <1>5, <1>6

\* What the abstract specification sees.
Seen == <<list.referent, Chain(list.enqueue), enqueued, strong, freed>>

\* Java code takes the steps of the same names.
LEMMA MutatorRefines ==
    ASSUME IInv, NEW r \in Refs, ReferenceGet(r) \/ ReferenceClear(r) \/ DropReferent(r)
    PROVE  Lifecycle!Next
<1> USE DEF IInv
<1>1. PICK D \in SUBSET Refs, E \in SUBSET Refs : TwoLists(D, E)
  BY DEF ListInv
<1>2. list'.enqueue = list.enqueue /\ list'.next = list.next
  BY DEF ReferenceGet, ReferenceClear, DropReferent, TypeInv
<1>3. Chain(list.enqueue)' = Chain(list.enqueue)
  BY <1>1, <1>2, PendingSame
<1>4. CASE ReferenceGet(r)
  <2>1. Lifecycle!Get(r)
    BY <1>3, <1>4 DEF ReferenceGet, Lifecycle!Get
  <2>2. QED
    BY <2>1 DEF Lifecycle!Next
<1>5. CASE ReferenceClear(r)
  <2>1. Lifecycle!Clear(r)
    BY <1>3, <1>5 DEF ReferenceClear, Lifecycle!Clear, TypeInv
  <2>2. QED
    BY <2>1 DEF Lifecycle!Next
<1>6. CASE DropReferent(r)
  <2>1. Lifecycle!Forget(r)
    BY <1>3, <1>6 DEF DropReferent, Lifecycle!Forget
  <2>2. QED
    BY <2>1 DEF Lifecycle!Next
<1>7. QED
  BY <1>4, <1>5, <1>6

\* The RP thread enqueues the head of its list.
LEMMA EnqueueRefines ==
    ASSUME IInv, EnqueueReferences
    PROVE  Lifecycle!Next
<1> USE DEF IInv
<1>1. PICK D \in SUBSET Refs, E \in SUBSET Refs : TwoLists(D, E)
  BY DEF ListInv
<1>2. PICK r, old, new : r = list.enqueue /\ old = list.next /\ new = list'.next
  OBVIOUS
<1>3. Listed(E, r, old) /\ r # Null
  BY <1>1, <1>2 DEF TwoLists, EnqueueReferences
<1>4. r \in E /\ r \in Refs
  BY <1>1, <1>3, ListedHead
<1>5. /\ list'.enqueue = After(r, old) /\ new = [old EXCEPT ![r] = r]
      /\ list'.referent = list.referent
  BY <1>2 DEF EnqueueReferences, TypeInv, NextOf, After
<1>6. \A x \in E \ {r} : new[x] = old[x] /\ x # Null
  BY <1>2, <1>5, NullAssumption DEF TypeInv
<1>7. Listed(E \ {r}, IF Null = Null THEN After(r, old) ELSE r, new)
  BY <1>3, <1>4, <1>6, ListedDrop
<1>8. Listed(E \ {r}, list'.enqueue, list'.next)
  BY <1>2, <1>5, <1>7
<1>9. Chain(list.enqueue) = E /\ Chain(list.enqueue)' = E \ {r}
  BY <1>2, <1>3, <1>8, ListedChain, ListedChainNext
<1>10. Lifecycle!Enqueue(r)
  BY <1>2, <1>4, <1>5, <1>9 DEF EnqueueReferences, Lifecycle!Enqueue
<1>11. QED
  BY <1>4, <1>10 DEF Lifecycle!Next

\* A round of ProcessDiscoveredReference collects one reference, whose
\* referent is not marked and so is held by nobody, or changes nothing.
LEMMA ProcessRefines ==
    ASSUME IInv, ProcessDiscovered
    PROVE  Lifecycle!Next \/ UNCHANGED Seen
<1> USE DEF IInv
<1>1. gc.pc \in {"process", "process2"} /\ strong' = strong /\ freed' = freed /\ enqueued' = enqueued
  BY DEF ProcessDiscovered
<1>2. PICK r \in Refs : r = gc.cur
  BY DEF ProcessDiscovered, TypeInv
<1>3. PICK D \in SUBSET Refs, E \in SUBSET Refs : TwoLists(D, E)
  BY DEF ListInv
<1>4. PICK h, old, new : h = list.enqueue /\ old = list.next /\ new = list'.next
  OBVIOUS
<1>5. Listed(D, r, old) /\ Listed(E, h, old) /\ D \cap E = {} /\ old \in [Refs -> Refs \cup {Null}]
  BY <1>1, <1>2, <1>3, <1>4 DEF TwoLists, Anchor, TypeInv
<1>6. r # Null /\ r \in D /\ r \notin E
  BY <1>2, <1>5, ListedHead, NullAssumption
<1>7. CASE r \in list.referent /\ Garbage(r)
  <2>1. /\ new = [old EXCEPT ![r] = Link(r, h)] /\ list'.enqueue = r
        /\ list'.referent = list.referent \ {r}
    BY <1>2, <1>4, <1>7 DEF ProcessDiscovered, TypeInv
  <2>2. new[r] = Link(r, h) /\ \A x \in E : new[x] = old[x]
    BY <1>5, <1>6, <2>1
  <2>3. Listed(E \cup {r}, r, new)
    BY <1>5, <1>6, <2>2, ListedPush
  <2>4. Listed(E \cup {r}, list'.enqueue, list'.next)
    BY <1>4, <2>1, <2>3
  <2>5. Chain(list.enqueue) = E /\ Chain(list.enqueue)' = E \cup {r}
    BY <1>4, <1>5, <2>4, ListedChain, ListedChainNext
  <2>6. r \notin strong
    BY <1>1, <1>7 DEF Garbage, StrongInv, Paused
  <2>7. Lifecycle!Collect(r)
    BY <1>1, <1>7, <2>1, <2>5, <2>6 DEF Lifecycle!Collect
  <2>8. QED
    BY <2>7 DEF Lifecycle!Next
<1>8. CASE ~(r \in list.referent /\ Garbage(r))
  <2>1. /\ new = [old EXCEPT ![r] = Null] /\ list'.enqueue = list.enqueue
        /\ list'.referent = list.referent
    BY <1>2, <1>4, <1>8 DEF ProcessDiscovered, TypeInv
  <2>2. \A x \in E : list'.next[x] = list.next[x]
    BY <1>4, <1>5, <1>6, <2>1
  <2>3. QED
    BY <1>1, <1>3, <2>1, <2>2, PendingSame DEF Seen
<1>9. QED
  BY <1>7, <1>8

\* The sweep frees what neither a reference nor Java code leads to.
LEMMA SweepRefines ==
    ASSUME IInv, ProcessedAll
    PROVE  Lifecycle!Next
<1>1. PICK D \in SUBSET Refs, E \in SUBSET Refs : TwoLists(D, E)
  BY DEF IInv, ListInv
<1>2. list'.enqueue = list.enqueue /\ list'.next = list.next /\ list'.referent = list.referent
  BY DEF IInv, ProcessedAll, TypeInv
<1>3. Chain(list.enqueue)' = Chain(list.enqueue)
  BY <1>1, <1>2, PendingSame
<1>4. PICK S \in SUBSET Refs : S = Refs \ (gc.marked \cup gc.finalMarked)
  OBVIOUS
<1>5. freed' = freed \cup S /\ strong' = strong /\ enqueued' = enqueued
  BY <1>4 DEF ProcessedAll
<1>6. NoDanglingReferent'
  BY SweepStep DEF IInv
<1>7. S \cap (list.referent \cup strong) = {}
  BY <1>2, <1>5, <1>6 DEF NoDanglingReferent
<1>8. Lifecycle!Free(S)
  BY <1>2, <1>3, <1>5, <1>7 DEF Lifecycle!Free
<1>9. QED
  BY <1>4, <1>8 DEF Lifecycle!Next

\* Marking, discovery and the filter change nothing that Java code sees.
LEMMA CollectorStutters ==
    ASSUME IInv,
           \/ GcBegin \/ FilterStart \/ FilterStep \/ FilterMerge \/ FinalMarkDone
           \/ SecondPause \/ ProcessedSoftWeak \/ DoResurrection
           \/ \E r \in Refs : MarkReferent(r) \/ FinalMark(r) \/ \E k \in Markers : Visit(k, r)
           \/ \E k \in Markers : DiscoverReference(k)
    PROVE  UNCHANGED Seen
<1> USE DEF IInv
<1>1. PICK D \in SUBSET Refs, E \in SUBSET Refs : TwoLists(D, E)
  BY DEF ListInv
<1>2. strong' = strong /\ freed' = freed /\ enqueued' = enqueued
  BY DEF GcBegin, FilterStart, FilterStep, FilterMerge, FinalMarkDone, SecondPause,
         ProcessedSoftWeak, DoResurrection, MarkReferent, FinalMark, Visit, DiscoverReference
<1>3. SUFFICES /\ list'.referent = list.referent /\ list'.enqueue = list.enqueue
               /\ \A x \in E : list'.next[x] = list.next[x]
  BY <1>1, <1>2, PendingSame DEF Seen
<1>4. list \in [next : [Refs -> Refs \cup {Null}], referent : SUBSET Refs,
                 discover : Refs \cup {Null}, enqueue : Refs \cup {Null}]
  BY DEF TypeInv
<1>5. \A x \in E : list.next[x] # Null
  BY <1>1 DEF TwoLists
<1>6. ASSUME NEW r \in Refs, Discover(r)
      PROVE  /\ list'.referent = list.referent /\ list'.enqueue = list.enqueue
             /\ \A x \in E : list'.next[x] = list.next[x]
  BY <1>4, <1>5, <1>6 DEF Discover
<1>7. CASE GcBegin \/ FinalMarkDone \/ SecondPause
  BY <1>7 DEF GcBegin, FinalMarkDone, SecondPause
<1>8. CASE \E r \in Refs : MarkReferent(r) \/ FinalMark(r) \/ \E k \in Markers : Visit(k, r)
  BY <1>8 DEF MarkReferent, FinalMark, Visit
<1>9. CASE FilterStart \/ ProcessedSoftWeak
  BY <1>4, <1>9 DEF FilterStart, ProcessedSoftWeak
<1>10. CASE \E k \in Markers : DiscoverReference(k)
  <2>1. PICK k \in Markers : DiscoverReference(k)
    BY <1>10
  <2>2. gc.racing[k] \in Refs
    BY <2>1 DEF DiscoverReference, TypeInv
  <2>3. QED
    BY <1>6, <2>1, <2>2 DEF DiscoverReference
<1>11. CASE DoResurrection
  <2>1. gc.found \subseteq Refs
    BY DEF TypeInv
  <2>2. QED
    BY <1>6, <1>11, <2>1 DEF DoResurrection
<1>12. CASE FilterMerge
  <2>1. list.discover = Null
    BY <1>12 DEF FilterMerge, PhaseInv
  <2>2. QED
    BY <1>4, <1>12, <2>1 DEF FilterMerge
<1>13. CASE FilterStep
  <2>1. gc.cur \notin E /\ gc.prev \notin E
    <3>1. InHand(D) /\ D \cap E = {}
      BY <1>1, <1>13 DEF TwoLists, FilterStep
    <3>2. QED
      BY <3>1, NullAssumption DEF InHand
  <2>2. \A x \in E : Unlink(gc.cur, NextOf(gc.cur))[x] = list.next[x]
    BY <2>1 DEF Unlink
  <2>3. \/ list' = list
        \/ list' = [list EXCEPT !.next = Unlink(gc.cur, NextOf(gc.cur))]
    BY <1>13 DEF FilterStep
  <2>4. QED
    BY <1>4, <2>2, <2>3
<1>14. QED
  BY <1>7, <1>8, <1>9, <1>10, <1>11, <1>12, <1>13

\* The mark-sweep collector and the RP thread implement the contract of
\* java.lang.ref, for any number of references and markers.
THEOREM Refinement == Spec => ImplementsReferenceLifecycle
<1>1. Init => Lifecycle!Init
  <2> SUFFICES ASSUME Init PROVE Lifecycle!Init
    OBVIOUS
  <2>1. Chain(list.enqueue) = {} /\ list.referent = Refs
    BY DEF Init, Chain
  <2>2. QED
    BY <2>1 DEF Init, Lifecycle!Init
<1>2. IInv /\ [Next]_vars => [Lifecycle!Next]_Lifecycle!vars
  <2> SUFFICES ASSUME IInv, [Next]_vars PROVE Lifecycle!Next \/ UNCHANGED Seen
    BY DEF Seen, Lifecycle!vars
  <2>1. ASSUME \/ GcBegin \/ FilterStart \/ FilterStep \/ FilterMerge \/ FinalMarkDone
               \/ SecondPause \/ ProcessedSoftWeak \/ DoResurrection
               \/ \E r \in Refs : MarkReferent(r) \/ FinalMark(r) \/ \E k \in Markers : Visit(k, r)
               \/ \E k \in Markers : DiscoverReference(k)
        PROVE  UNCHANGED Seen
    BY <2>1, CollectorStutters
  <2>2. CASE GcStep
    BY <2>1, <2>2, ProcessRefines, SweepRefines DEF GcStep
  <2>3. CASE UNCHANGED vars
    BY <2>3 DEF vars, Seen, Chain, Followed
  <2>4. CASE GcBegin \/ \E r \in Refs, k \in Markers : Visit(k, r)
    BY <2>1, <2>4
  <2>5. CASE EnqueueReferences
    BY <2>5, EnqueueRefines
  <2>6. CASE \E r \in Refs : ReferenceGet(r) \/ ReferenceClear(r) \/ DropReferent(r)
    BY <2>6, MutatorRefines
  <2>7. QED
    BY <2>2, <2>3, <2>4, <2>5, <2>6 DEF Next
<1>3. QED
  BY <1>1, <1>2, InductiveInvariant, PTL DEF Spec, ImplementsReferenceLifecycle, Lifecycle!Spec
=============================================================================
