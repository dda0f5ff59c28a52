------------------------------ MODULE Dominance ------------------------------
(***************************************************************************)
(* The dominator tree and the dominance frontiers that the middle end      *)
(* builds SSA form from (maple_util/include/dominance.h), on a control     *)
(* flow graph whose critical edges may have been split before              *)
(* (maple_me/src/me_critical_edge.cpp).                                    *)
(*                                                                         *)
(* The common entry block is Entry.  It lists the entry blocks as its      *)
(* successors and is not in their predecessor lists (BB::AddEntry).  The   *)
(* common exit block is in no successor list and takes no part.            *)
(* Post-dominance is the same code on the reversed graph.                  *)
(* Left out: exception edges, computed gotos and double edges.             *)
(*                                                                         *)
(* A step is one round of a loop of the code.                              *)
(***************************************************************************)
EXTENDS Integers, Sequences, FiniteSets, SequencesExt

CONSTANTS
    NumBlocks,  \* basic blocks of the input graph
    MaxSucc     \* successors of a block, at most

ASSUME SizeAssumption == NumBlocks \in Nat \ {0} /\ MaxSucc \in Nat

VARIABLES
    pc,       \* phase
    g,        \* the graph: successor and predecessor lists
    todo,     \* critical edges that are still to be split
    walk,     \* PostOrderWalk: stack, visitedMap, postOrderIDVec
    dom,      \* ComputeDominance: doms, the position in reversePostOrder, changed
    tree      \* domFrontier, iterDomFrontier, domChildren, dtPreOrder, nodes to place

vars == <<pc, g, todo, walk, dom, tree>>

Entry == 0
None == -1
Blocks == 1..NumBlocks
Nodes == DOMAIN g.succ
Asc(S) == SetToSortSeq(S, <)

-----------------------------------------------------------------------------
(* The graphs, as AddPred and AddSucc build them: a block is at most once  *)
(* in a list, and each edge in a list of successors and in one of          *)
(* predecessors.  The first block and possibly the second are entry        *)
(* blocks.                                                                 *)
SuccLists == {s \in BoundedSeq(Blocks, MaxSucc) : Cardinality(ToSet(s)) = Len(s)}
EntryLists == {Asc(e) : e \in {{1}, {1, 2}} \cap SUBSET Blocks}

(* What is reachable from Entry on paths that avoid a node. *)
ReachAvoiding(succ, d) ==
    LET reach[n \in Nat] ==
          IF n = 0 THEN {Entry} \ {d}
          ELSE LET r == reach[n-1] IN r \cup (UNION {ToSet(succ[x]) : x \in r} \ {d})
    IN  reach[Cardinality(DOMAIN succ)]

Graphs ==
    {[succ |-> [n \in {Entry} \cup Blocks |-> IF n = Entry THEN e ELSE s[n]],
      pred |-> [n \in {Entry} \cup Blocks |-> Asc({p \in Blocks : n \in ToSet(s[p])})]] :
        s \in [Blocks -> SuccLists], e \in EntryLists}

(* Every block is reachable: that UnreachCodeAnalysis has deleted the      *)
(* others is assumed.                                                      *)
Init ==
    /\ pc = "cfg"
    /\ g \in {x \in Graphs : ReachAvoiding(x.succ, None) = DOMAIN x.succ}
    /\ todo = {}
    /\ walk = [stack |-> << >>, visited |-> {}, postOrder |-> << >>]
    /\ dom = [doms |-> << >>, i |-> 2, changed |-> FALSE]
    /\ tree = [frontier |-> << >>, iter |-> << >>, children |-> << >>, preOrder |-> << >>,
               pending |-> << >>]

-----------------------------------------------------------------------------
(* MeSplitCEdge. *)
CriticalEdges ==
    {<<p, b>> \in (Nodes \ {Entry}) \X (Nodes \ {Entry}) :
        Len(g.pred[b]) >= 2 /\ p \in ToSet(g.pred[b]) /\ Len(g.succ[p]) > 1}

(* Without the edge of a block to itself. *)
MutantSkipSelfEdge ==
    /\ pc = "cfg" /\ pc' = "split"
    /\ todo' = {e \in CriticalEdges : e[1] # e[2]} \cup
               {<<Entry, e>> : e \in {x \in ToSet(g.succ[Entry]) : g.pred[x] # << >>}}
    /\ UNCHANGED <<g, walk, dom, tree>>

ScanEdgeInFunc ==
    /\ pc = "cfg" /\ pc' = "split"
    /\ todo' = CriticalEdges \cup
               {<<Entry, e>> : e \in {x \in ToSet(g.succ[Entry]) : g.pred[x] # << >>}}
    /\ UNCHANGED <<g, walk, dom, tree>>

(* The edges found, those of the common entry block last.  The new block   *)
(* takes the place of the predecessor in the list of the successor; that   *)
(* of a new entry comes last but one.                                      *)
BreakCriticalEdge ==
    LET edge == CHOOSE e \in todo : e[1] # Entry \/ \A x \in todo : x[1] = Entry
        p == edge[1]
        s == edge[2]
        new == Cardinality(Nodes)
        pos == IF p = Entry THEN Len(g.pred[s])
               ELSE CHOOSE k \in DOMAIN g.pred[s] : g.pred[s][k] = p
    IN  /\ pc = "split" /\ todo # {} /\ todo' = todo \ {edge}
        /\ g' = [succ |-> [n \in Nodes \cup {new} |->
                    IF n = new THEN <<s>>
                    ELSE IF n = p /\ p = Entry THEN Append(Remove(g.succ[p], s), new)
                    ELSE IF n = p THEN ReplaceAll(g.succ[p], s, new) ELSE g.succ[n]],
                 pred |-> [n \in Nodes \cup {new} |->
                    IF n = new THEN IF p = Entry THEN << >> ELSE <<p>>
                    ELSE IF n # s THEN g.pred[n]
                    ELSE IF p = Entry THEN InsertAt(g.pred[s], pos, new)
                    ELSE [g.pred[s] EXCEPT ![pos] = new]]]
        /\ UNCHANGED <<pc, walk, dom, tree>>

-----------------------------------------------------------------------------
(* GenPostOrderID. *)
StartWalk ==
    /\ pc \in {"cfg", "split"} /\ todo = {}
    /\ pc' = "walk"
    /\ walk' = [stack |-> <<Entry>>, visited |-> {Entry}, postOrder |-> [n \in Nodes |-> None]]
    /\ UNCHANGED <<g, todo, dom, tree>>

Numbered == {n \in Nodes : walk.postOrder[n] # None}

(* PostOrderWalk: goes to the first successor that is not visited, or      *)
(* numbers the node and leaves it.                                         *)
PostOrderWalk ==
    LET node == Head(walk.stack)
        next == SelectSeq(g.succ[node], LAMBDA s : s \notin walk.visited)
    IN  /\ pc = "walk" /\ walk.stack # << >>
        /\ walk' = IF next # << >>
                   THEN [walk EXCEPT !.visited = @ \cup {Head(next)}, !.stack = <<Head(next)>> \o @]
                   ELSE [walk EXCEPT !.stack = Tail(@), !.postOrder[node] = Cardinality(Numbered)]
        /\ UNCHANGED <<pc, g, todo, dom, tree>>

ReversePostOrder ==
    LET num == Cardinality(Numbered) IN
    [k \in 1..num |-> CHOOSE n \in Nodes : walk.postOrder[n] = num - k]

-----------------------------------------------------------------------------
(* ComputeDominance. *)
StartDominance ==
    /\ pc = "walk" /\ walk.stack = << >> /\ pc' = "dominance"
    /\ dom' = [dom EXCEPT !.doms = [n \in Nodes |-> IF n = Entry THEN Entry ELSE None]]
    /\ UNCHANGED <<g, todo, walk, tree>>

Intersect(m, n) ==
    LET meet[p \in Nodes \X Nodes] ==
          CASE p[1] = p[2] -> p[1]
            [] walk.postOrder[p[1]] < walk.postOrder[p[2]] -> meet[<<dom.doms[p[1]], p[2]>>]
            [] OTHER -> meet[<<p[1], dom.doms[p[2]]>>]
    IN  meet[<<m, n>>]

InitNodeIsPred(node) == node \in ToSet(g.succ[Entry])

(* The new immediate dominator: the intersection of the predecessors that  *)
(* have one already.  The first predecessor is Entry for an entry block.   *)
NewIDom(node) ==
    LET preds == g.pred[node]
        first == IF InitNodeIsPred(node) \/ preds = << >> THEN Entry ELSE preds[1]
        all == <<first>> \o SubSeq(preds, 2, Len(preds))
        usable == SelectSeq(all, LAMBDA p : dom.doms[p] # None /\ p # node)
    IN  IF usable = << >> THEN Last(all)
        ELSE FoldLeft(LAMBDA iDom, p : Intersect(p, iDom), Head(usable), Tail(usable))

ComputeDominance ==
    LET node == ReversePostOrder[dom.i] IN
    /\ pc = "dominance" /\ dom.i <= Len(ReversePostOrder)
    /\ dom' = [doms |-> [dom.doms EXCEPT ![node] = NewIDom(node)], i |-> dom.i + 1,
               changed |-> dom.changed \/ dom.doms[node] # NewIDom(node)]
    /\ UNCHANGED <<pc, g, todo, walk, tree>>

(* One pass only. *)
MutantPassDone ==
    /\ pc = "dominance" /\ dom.i > Len(ReversePostOrder) /\ pc' = "frontiers"
    /\ UNCHANGED <<g, todo, walk, dom, tree>>

(* changed is not reset. *)
MutantKeepChanged ==
    /\ pc = "dominance" /\ dom.i > Len(ReversePostOrder)
    /\ pc' = IF dom.changed THEN "dominance" ELSE "frontiers"
    /\ dom' = [dom EXCEPT !.i = 2]
    /\ UNCHANGED <<g, todo, walk, tree>>

(* The end of a pass. *)
PassDone ==
    /\ pc = "dominance" /\ dom.i > Len(ReversePostOrder)
    /\ pc' = IF dom.changed THEN "dominance" ELSE "frontiers"
    /\ dom' = [dom EXCEPT !.i = 2, !.changed = FALSE]
    /\ UNCHANGED <<g, todo, walk, tree>>

(* The nodes from n up to, and without, a node of stop. *)
Climb(n, stop) ==
    LET up[x \in Nodes] == IF x \in stop THEN {} ELSE {x} \cup up[dom.doms[x]] IN up[n]

(* Dominate(node1, node2). *)
Dominate(m, n) == m = n \/ (n # Entry /\ m \in Climb(dom.doms[n], {Entry}) \cup {Entry})

-----------------------------------------------------------------------------
ComputeDomFrontiers ==
    /\ pc = "frontiers" /\ pc' = "children"
    /\ tree' = [tree EXCEPT !.frontier = [x \in Nodes |->
                    {n \in Nodes : /\ Len(g.pred[n]) >= 2
                                   /\ \E p \in ToSet(g.pred[n]) :
                                         x \in Climb(p, {Entry, dom.doms[n]})}]]
    /\ UNCHANGED <<g, todo, walk, dom>>

ComputeDomChildren ==
    /\ pc = "children" /\ pc' = "iterate"
    /\ tree' = [tree EXCEPT !.children = [x \in Nodes |->
                    SelectSeq(ReversePostOrder, LAMBDA n : n # x /\ dom.doms[n] = x)]]
    /\ UNCHANGED <<g, todo, walk, dom>>

(* Only takes results that are there already. *)
MutantGetIterDomFrontier(x) ==
    UNION {{f} \cup IF f < x THEN tree.iter[f] ELSE {} : f \in tree.frontier[x]}

(* GetIterDomFrontier(x): the recursion goes through the nodes that are    *)
(* not below x, and takes the result of those that are.                    *)
GetIterDomFrontier(x) ==
    LET visited[k \in Nat] ==
          IF k = 0 THEN {x}
          ELSE LET r == visited[k-1]
               IN  r \cup {f \in UNION {tree.frontier[v] : v \in r} : f >= x}
        df == UNION {tree.frontier[v] : v \in visited[Cardinality(Nodes)]}
    IN  df \cup UNION {tree.iter[f] : f \in {y \in df : y < x}}

(* ComputeIterDomFrontiers, in the order of the node ids. *)
ComputeIterDomFrontiers ==
    LET x == Cardinality(DOMAIN tree.iter) IN
    /\ pc = "iterate" /\ x \in Nodes
    /\ tree' = [tree EXCEPT !.iter = [n \in 0..x |-> IF n = x THEN GetIterDomFrontier(x) ELSE @[n]]]
    /\ UNCHANGED <<pc, g, todo, walk, dom>>

StartPreorder ==
    /\ pc = "iterate" /\ Cardinality(DOMAIN tree.iter) \notin Nodes /\ pc' = "preorder"
    /\ tree' = [tree EXCEPT !.pending = <<Entry>>]
    /\ UNCHANGED <<g, todo, walk, dom>>

ComputeDtPreorder ==
    LET n == Head(tree.pending) IN
    /\ pc = "preorder" /\ tree.pending # << >>
    /\ tree' = [tree EXCEPT !.preOrder = Append(@, n), !.pending = tree.children[n] \o Tail(@)]
    /\ UNCHANGED <<pc, g, todo, walk, dom>>

Finish ==
    /\ pc = "preorder" /\ tree.pending = << >> /\ pc' = "done"
    /\ UNCHANGED <<g, todo, walk, dom, tree>>

-----------------------------------------------------------------------------
Step ==
    \/ ScanEdgeInFunc \/ BreakCriticalEdge
    \/ StartWalk \/ PostOrderWalk
    \/ StartDominance \/ ComputeDominance \/ PassDone
    \/ ComputeDomFrontiers \/ ComputeDomChildren \/ ComputeIterDomFrontiers
    \/ StartPreorder \/ ComputeDtPreorder \/ Finish

Next == Step \/ (pc = "done" /\ UNCHANGED vars)

Spec == Init /\ [][Next]_vars

(* The analysis runs to its end in one thread. *)
FairSpec == Spec /\ WF_vars(Step)

-----------------------------------------------------------------------------
(* Type invariant of the analysis. *)
TypeOK ==
    /\ pc \in {"cfg", "split", "walk", "dominance", "frontiers", "children", "iterate",
               "preorder", "done"}
    /\ Nodes = 0..(Cardinality(Nodes) - 1) /\ DOMAIN g.pred = Nodes
    /\ \A n \in Nodes : ToSet(g.succ[n]) \subseteq Nodes /\ ToSet(g.pred[n]) \subseteq Nodes \ {Entry}
    /\ pc \notin {"cfg", "split"} => walk.postOrder \in [Nodes -> {None} \cup Nodes]
    /\ pc \notin {"cfg", "split", "walk"} => dom.doms \in [Nodes -> {None} \cup Nodes]

(* The definition: m is on every path from Entry to n. *)
Dominates(m, n) == m = n \/ n \notin ReachAvoiding(g.succ, m)
StrictlyDominates(m, n) == m # n /\ Dominates(m, n)

(* Each pass keeps every true dominator of a node on the way from the node *)
(* up to Entry, and the way goes up in postorder: the optimistic guesses   *)
(* for blocks in cycles never lose a dominator, and Intersect ends.        *)
GuessesAreUpperBounds ==
    pc = "dominance" =>
        \A n \in Nodes \ {Entry} : dom.doms[n] # None =>
            /\ walk.postOrder[dom.doms[n]] > walk.postOrder[n]
            /\ \A m \in Nodes : Dominates(m, n) => Dominate(m, n)

(* Dominate answers by the definition, for all pairs of blocks. *)
DominateIsDominance ==
    pc = "done" => \A m, n \in Nodes : Dominate(m, n) <=> Dominates(m, n)

(* The preorder has every block once, and the blocks that a block          *)
(* dominates follow it without a gap.                                      *)
PreorderIsByDominance ==
    pc = "done" =>
        /\ IsInjective(tree.preOrder) /\ ToSet(tree.preOrder) = Nodes
        /\ \A i \in DOMAIN tree.preOrder :
              LET dominated == {n \in Nodes : Dominates(tree.preOrder[i], n)}
              IN  ToSet(SubSeq(tree.preOrder, i, i + Cardinality(dominated) - 1)) = dominated

(* ComputeDominance computes the dominators of the definition, from below  *)
(* through every pass, and everything read off its tree is right.          *)
DominatorsExact ==
    /\ TypeOK
    /\ GuessesAreUpperBounds
    /\ DominateIsDominance
    /\ PreorderIsByDominance

(* The frontiers are the ones of the definition, where no entry block has  *)
(* a predecessor: the block at the head of a loop that begins the function *)
(* would be missed, and MeSplitCEdge gives it a new entry.                 *)
FrontierExact ==
    pc = "done" /\ (\A e \in ToSet(g.succ[Entry]) : g.pred[e] = << >>) =>
        \A x \in Nodes \ {Entry} :
            tree.frontier[x] = {n \in Nodes : ~StrictlyDominates(x, n)
                                              /\ \E p \in ToSet(g.pred[n]) : Dominates(x, p)}

(* The iterated frontier is closed and no larger than needed: where phi    *)
(* nodes of a variable that is assigned in x go.                           *)
IterFrontierIsClosure ==
    pc = "done" =>
        \A x \in Nodes :
            LET close[k \in Nat] ==
                  IF k = 0 THEN tree.frontier[x]
                  ELSE LET r == close[k-1] IN r \cup UNION {tree.frontier[f] : f \in r}
            IN  tree.iter[x] = close[Cardinality(Nodes)]

(* Phi nodes are placed where the definition asks for them: the frontiers  *)
(* and the iterated frontiers are exact.                                   *)
FrontiersExact == FrontierExact /\ IterFrontierIsClosure

(* After the critical edges are split no entry block has a predecessor,    *)
(* and the two lists of the graph still agree.                             *)
EntriesSplit ==
    (pc = "split" /\ todo = {}) =>
        /\ \A e \in ToSet(g.succ[Entry]) : g.pred[e] = << >>
        /\ \A m \in Nodes \ {Entry}, n \in Nodes : n \in ToSet(g.succ[m]) <=> m \in ToSet(g.pred[n])

(* The input graph that a graph was made from: the new blocks have the     *)
(* higher ids, and each stands on one edge.  Where the new entry comes in  *)
(* the list of entry blocks is left to the code.                           *)
Target(n) == IF n \in Blocks THEN n ELSE g.succ[n][1]
Source(n) == IF n \in Blocks THEN n ELSE IF g.pred[n] = << >> THEN Entry ELSE g.pred[n][1]
Contracted ==
    [entries |-> {Target(n) : n \in ToSet(g.succ[Entry])},
     succ |-> [b \in Blocks |-> [k \in DOMAIN g.succ[b] |-> Target(g.succ[b][k])]],
     pred |-> [b \in Blocks |-> SelectSeq([k \in DOMAIN g.pred[b] |-> Source(g.pred[b][k])],
                                         LAMBDA p : p # Entry)]]

(* An edge that was critical in the input is one no more: a block of its   *)
(* own stands on it, with one predecessor and one successor.               *)
InputEdgesSplit ==
    (pc = "split" /\ todo = {}) =>
        /\ \A p, b \in Blocks :
              /\ b \in ToSet(Contracted.succ[p]) /\ Len(Contracted.succ[p]) > 1
              /\ Len(Contracted.pred[b]) >= 2
              => b \notin ToSet(g.succ[p]) /\ p \notin ToSet(g.pred[b])
        /\ \A n \in Nodes \ (Blocks \cup {Entry}) : Len(g.succ[n]) = 1 /\ Len(g.pred[n]) <= 1

(* MeSplitCEdge gives every entry block with predecessors a new entry and  *)
(* puts a block on every critical edge of the function it is given, and    *)
(* changes nothing else: taking the new blocks out gives back the input,   *)
(* with its successors and predecessors in their order, to which branch    *)
(* targets and phi operands belong.                                        *)
EdgesSplit ==
    /\ [](EntriesSplit /\ InputEdgesSplit)
    /\ [][Contracted' = Contracted]_vars

(* The analysis ends: the passes of ComputeDominance reach a fixpoint. *)
AnalysisEnds == <>(pc = "done")
=============================================================================
