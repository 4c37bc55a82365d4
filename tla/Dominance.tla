----------------------------- MODULE Dominance -----------------------------
(***************************************************************************)
(* The analysis `dominance' of the middle end (dominance.cpp): dominators, *)
(* dominance frontiers, their iteration and the preorder of the dominator  *)
(* tree, and the same four of the reversed graph.  The two recursions and  *)
(* the iteration are modelled block by block, as they run.                 *)
(*                                                                         *)
(* A graph is [succ, pred], two sequences of blocks for each block; block *)
(* 1 is commonEntryBB, block 2 is commonExitBB.  As in the code, the edges *)
(* of these two are listed at one end only: commonEntryBB is not in the    *)
(* predecessors of an entry, nor commonExitBB in the successors of an exit.*)
(***************************************************************************)
EXTENDS Integers, Sequences, FiniteSets, SequencesExt

CONSTANTS
    Blocks,    \* 1 .. n
    Graphs     \* the graphs a run starts from

Entry == 1
Exit == 2
Null == 0

ASSUME BlocksAssumption ==
  IsFiniteSet(Blocks) /\ Blocks = 1 .. Cardinality(Blocks) /\ {Entry, Exit} \subseteq Blocks

\* Otherwise the two ends agree, and nothing leads to commonEntryBB or from commonExitBB.
ASSUME GraphsAssumption ==
  \A g \in Graphs :
    /\ g.succ \in [Blocks -> Seq(Blocks)] /\ g.pred \in [Blocks -> Seq(Blocks)]
    /\ g.succ[Exit] = <<>> /\ g.pred[Entry] = <<>>
    /\ {Entry, Exit} \cap Range(g.pred[Exit]) = {}
    /\ \A b \in Blocks : {Entry, Exit} \cap Range(g.succ[b]) = {}
    /\ \A b \in Blocks \ {Exit} :
         Range(g.pred[b]) = {a \in Blocks \ {Entry} : b \in Range(g.succ[a])}

VARIABLES
    graph,
    dir,       \* "dom", then "pdom": the half of MeDominance::Run
    pc,        \* where that half is
    post,      \* postOrderIDVec, -1 for a block that is not visited
    order,     \* reversePostOrder
    doms,      \* immediate dominators, 0 is nullptr
    stack,     \* the blocks a recursion is in or has yet to enter, the current one first
    pos,       \* the loop index in order or in Blocks
    changed,
    frontier, iterated, preorder

vars == <<graph, dir, pc, post, order, doms, stack, pos, changed, frontier, iterated, preorder>>

\* The ids of S in ascending order, as the vectors and the sets of the code hold them
Ascending(S) ==
    LET Upto[i \in 0 .. Cardinality(Blocks)] ==
            IF i = 0 THEN <<>>
            ELSE IF i \in S THEN Append(Upto[i-1], i) ELSE Upto[i-1]
    IN  Upto[Cardinality(Blocks)]

(***************************************************************************)
(* The two halves of the class run over opposite edges.  Root is where     *)
(* they start, Out what the walk follows and In what a block merges.       *)
(***************************************************************************)
Root == IF dir = "dom" THEN Entry ELSE Exit
OtherRoot == IF dir = "dom" THEN Exit ELSE Entry
Out(b) == IF dir = "dom" THEN graph.succ[b] ELSE graph.pred[b]
In(b) == IF dir = "dom" THEN graph.pred[b] ELSE graph.succ[b]

\* CommonEntryBBIsPred, and IsExit
RootIsIn(b) == b \in Range(Out(Root))

Visited == {b \in Blocks : post[b] # -1} \cup Range(stack)

\* The walk goes to the first block ahead it has not visited, or numbers the current one.
\* What is numbered is put in front of reversePostOrder.
PostOrderWalk ==
    /\ pc = "number" /\ stack # <<>>
    /\ LET b == Head(stack)
           ahead == {k \in DOMAIN Out(b) : Out(b)[k] \notin Visited}
       IN  IF ahead = {}
           THEN /\ post' = [post EXCEPT ![b] = Len(order)]
                /\ order' = <<b>> \o order
                /\ stack' = Tail(stack)
           ELSE /\ \E k \in ahead : /\ \A l \in ahead : k <= l
                                   /\ stack' = <<Out(b)[k]>> \o stack
                /\ UNCHANGED <<post, order>>
    /\ UNCHANGED <<graph, dir, pc, doms, pos, changed, frontier, iterated, preorder>>

GenPostOrderID ==
    /\ pc = "number" /\ stack = <<>>
    /\ pc' = "iterate"
    /\ doms' = [b \in Blocks |-> IF b = Root THEN Root ELSE Null]
    /\ pos' = 2 /\ changed' = FALSE
    /\ UNCHANGED <<graph, dir, post, order, stack, frontier, iterated, preorder>>

\* The two fingers climb the tree as built so far, the lower one first; Null when one
\* leaves it or they do not meet.
Intersect(x, y) ==
    LET finger == Blocks \cup {Null}
        steps == 2 * Cardinality(Blocks)
        Up[f \in finger \X finger] ==
            IF f[1] = f[2] \/ Null \in {f[1], f[2]} THEN f
            ELSE IF post[f[1]] < post[f[2]] THEN <<doms[f[1]], f[2]>> ELSE <<f[1], doms[f[2]]>>
        Climb[k \in 0 .. steps] == IF k = 0 THEN <<x, y>> ELSE Up[Climb[k-1]]
        met == Climb[steps]
    IN  IF met[1] = met[2] THEN met[1] ELSE Null

\* The loop body of ComputeDominance and ComputePostDominance.  The first input that is
\* known starts the intersection.
Usable(b, p) == doms[p] # Null /\ p # b

FirstIn(b) ==
    LET in == In(b)
        start == IF RootIsIn(b) \/ in = <<>> THEN Root ELSE in[1]
        usable == {j \in 2 .. Len(in) : Usable(b, in[j])}
        j == IF Usable(b, start) THEN 1
             ELSE IF usable = {} THEN Len(in) ELSE CHOOSE k \in usable : \A l \in usable : k <= l
        p == IF j = 1 \/ in = <<>> THEN start ELSE in[j]
    IN  [bb |-> IF dir = "pdom" /\ doms[p] = Null THEN Root ELSE p, next |-> j + 1]

NewIdom(b) ==
    LET in == In(b)
        first == FirstIn(b)
        Merge[j \in 0 .. Len(in)] ==
            IF j = 0 THEN first.bb
            ELSE IF j >= first.next /\ Usable(b, in[j]) THEN Intersect(in[j], Merge[j-1])
            ELSE Merge[j-1]
    IN  Merge[Len(in)]

ComputeDominance ==
    /\ pc = "iterate" /\ pos <= Len(order)
    /\ LET b == order[pos]
           idom == NewIdom(b)
       IN  /\ doms' = [doms EXCEPT ![b] = idom]
           /\ changed' = (changed \/ doms[b] # idom)
    /\ pos' = pos + 1
    /\ UNCHANGED <<graph, dir, pc, post, order, stack, frontier, iterated, preorder>>

\* Mutants: one pass is all; changed is not reset.
NextPassOnce ==
    /\ pc = "iterate" /\ pos > Len(order)
    /\ pc' = "frontier" /\ pos' = 1
    /\ UNCHANGED <<graph, dir, post, order, stack, doms, changed, frontier, iterated,
                   preorder>>

NextPassStillChanged ==
    /\ pc = "iterate" /\ pos > Len(order)
    /\ IF changed THEN pos' = 2 /\ UNCHANGED <<changed, pc>>
                  ELSE pc' = "frontier" /\ pos' = 1 /\ UNCHANGED changed
    /\ UNCHANGED <<graph, dir, post, order, stack, doms, frontier, iterated, preorder>>

NextPass ==
    /\ pc = "iterate" /\ pos > Len(order)
    /\ IF changed THEN pos' = 2 /\ changed' = FALSE /\ UNCHANGED pc
                  ELSE pc' = "frontier" /\ pos' = 1 /\ UNCHANGED changed
    /\ UNCHANGED <<graph, dir, post, order, stack, doms, frontier, iterated, preorder>>

\* Mutant: the runner does not climb.
RunnerPathOfOne(b, p) == IF p \in {doms[b], Root} THEN {} ELSE {p}

\* The blocks that a runner passes from p up to the immediate dominator of b.  It is Null
\* behind a block that has no dominator.
RunnerPath(b, p) ==
    LET Up[r \in Blocks \cup {Null}] == IF r \in {doms[b], Root, Null} THEN r ELSE doms[r]
        Runner[k \in 0 .. Cardinality(Blocks)] == IF k = 0 THEN p ELSE Up[Runner[k-1]]
    IN  {Runner[k] : k \in 0 .. Cardinality(Blocks)} \ {doms[b], Root}

Runners(b) ==
    IF b = OtherRoot \/ Len(In(b)) < 2 THEN {}
    ELSE UNION {RunnerPath(b, p) : p \in Range(In(b))}

ComputeDomFrontiers ==
    /\ pc = "frontier" /\ pos \in Blocks
    /\ IF Null \in Runners(pos) \/ (dir = "pdom" /\ \E r \in Runners(pos) : doms[r] = Null)
       THEN pc' = "crashed" /\ UNCHANGED <<frontier, pos>>
       ELSE /\ frontier' = [r \in Blocks |->
                               frontier[r] \cup IF r \in Runners(pos) THEN {pos} ELSE {}]
            /\ pos' = pos + 1 /\ UNCHANGED pc
    /\ UNCHANGED <<graph, dir, post, order, stack, doms, changed, iterated, preorder>>

FrontiersDone ==
    /\ pc = "frontier" /\ pos \notin Blocks
    /\ pc' = "closure" /\ pos' = 1
    /\ UNCHANGED <<graph, dir, post, order, stack, doms, changed, frontier, iterated,
                   preorder>>

\* GetIterDomFrontier of b: the frontiers of blocks below b are already iterated
IterFrontier(b) ==
    LET Ahead == [f \in Blocks |-> IF f < b THEN iterated[f] ELSE frontier[f]]
        F[k \in 0 .. Cardinality(Blocks)] ==
            IF k = 0 THEN frontier[b]
            ELSE LET p == F[k - 1] IN p \cup UNION {Ahead[f] : f \in p}
    IN  F[Cardinality(Blocks)]

ComputeIterDomFrontiers ==
    /\ pc = "closure" /\ pos \in Blocks
    /\ iterated' = [iterated EXCEPT ![pos] = IF pos = OtherRoot THEN {} ELSE IterFrontier(pos)]
    /\ pos' = pos + 1
    /\ UNCHANGED <<graph, dir, pc, post, order, stack, doms, changed, frontier, preorder>>

Children(b) == {c \in Blocks \ {b} : doms[c] = b}

StartDtPreorder ==
    /\ pc = "closure" /\ pos \notin Blocks
    /\ pc' = "preorder" /\ stack' = <<Root>> /\ preorder' = <<>>
    /\ UNCHANGED <<graph, dir, post, order, doms, pos, changed, frontier, iterated>>

ComputeDtPreorder ==
    /\ pc = "preorder"
    /\ preorder' = Append(preorder, Head(stack))
    /\ stack' = Ascending(Children(Head(stack))) \o Tail(stack)
    /\ pc' = IF stack' = <<>> THEN "done" ELSE "preorder"
    /\ UNCHANGED <<graph, dir, post, order, doms, pos, changed, frontier, iterated>>

StartPostDominance ==
    /\ pc = "done" /\ dir = "dom"
    /\ dir' = "pdom" /\ pc' = "number" /\ pos' = 1 /\ stack' = <<Exit>>
    /\ post' = [b \in Blocks |-> -1] /\ order' = <<>>
    /\ frontier' = [b \in Blocks |-> {}] /\ iterated' = [b \in Blocks |-> {}]
    /\ UNCHANGED <<graph, doms, changed, preorder>>

Init ==
    /\ graph \in Graphs
    /\ dir = "dom" /\ pc = "number" /\ pos = 1 /\ changed = FALSE
    /\ post = [b \in Blocks |-> -1] /\ order = <<>> /\ stack = <<Entry>> /\ preorder = <<>>
    /\ doms = [b \in Blocks |-> Null]
    /\ frontier = [b \in Blocks |-> {}] /\ iterated = [b \in Blocks |-> {}]

Finished == (pc = "done" /\ dir = "pdom") \/ pc = "crashed"

Stop == Finished /\ UNCHANGED vars

Step == \/ PostOrderWalk \/ GenPostOrderID \/ ComputeDominance \/ NextPass
        \/ ComputeDomFrontiers \/ FrontiersDone \/ ComputeIterDomFrontiers
        \/ StartDtPreorder \/ ComputeDtPreorder \/ StartPostDominance

Next == Step \/ Stop

Spec == Init /\ [][Next]_vars /\ WF_vars(Step)

(***************************************************************************)
(* The definitions, on the graph with the edges of the two common blocks.  *)
(***************************************************************************)
Edge(a, b) == b \in Range(graph.succ[a]) \/ a \in Range(graph.pred[b])

Forward(a) == IF dir = "dom" THEN {b \in Blocks : Edge(a, b)} ELSE {b \in Blocks : Edge(b, a)}

ReachesFrom(S, avoid) ==
    LET C[k \in 0 .. Cardinality(Blocks)] ==
            IF k = 0 THEN S \ {avoid}
            ELSE LET p == C[k - 1] IN p \cup ((UNION {Forward(a) : a \in p}) \ {avoid})
    IN  C[Cardinality(Blocks)]

Covered == ReachesFrom({Root}, Null) \ {OtherRoot}

Dominates(a, b) == a = b \/ b \notin ReachesFrom({Root}, a)

\* f is in the frontier of a: a is over one of the ways into f and not strictly over f
InFrontier(a, f, covered) ==
    LET beyond == ReachesFrom({Root}, a)
        Over(b) == b = a \/ b \notin beyond
    IN  (a = f \/ ~Over(f)) /\ \E p \in covered : f \in Forward(p) /\ Over(p)

Iterated(a) ==
    LET F[k \in 0 .. Cardinality(Blocks)] ==
            IF k = 0 THEN frontier[a]
            ELSE LET p == F[k - 1] IN p \cup UNION {frontier[b] : b \in p}
    IN  F[Cardinality(Blocks)]

(***************************************************************************)
(* Properties.                                                             *)
(***************************************************************************)
TypeOK ==
    /\ pc \in {"number", "iterate", "frontier", "closure", "preorder", "done", "crashed"}
    /\ dir \in {"dom", "pdom"}
    /\ \A b \in Blocks : /\ post[b] \in -1 .. Cardinality(Blocks) - 2
                        /\ doms[b] \in Blocks \cup {Null}
    /\ Range(order) \subseteq Blocks /\ Range(preorder) \subseteq Blocks
    /\ frontier \in [Blocks -> SUBSET Blocks] /\ iterated \in [Blocks -> SUBSET Blocks]

\* The tree always points upwards in postorder, and every block on the way up has its own
\* entry: without this Intersect, which climbs the unfinished tree, would not come to an end.
TreePointsUp ==
    pc = "iterate" =>
      \A b \in Blocks \ {Root} : doms[b] # Null => post[doms[b]] > post[b]

\* After the last pass the tree is the tree of immediate dominators of the definition: what
\* dominates a block is itself and what dominates its entry in the tree. Until then it points
\* upwards.
DomsAreDominators ==
    /\ TypeOK /\ TreePointsUp
    /\ pc = "frontier" /\ pos = 1 =>
         LET covered == Covered
             above == [b \in covered |-> {a \in covered : Dominates(a, b)}]
         IN  \A b \in covered \ {Root} :
                doms[b] \in covered /\ above[b] = above[doms[b]] \cup {b}

\* A block that the root leads to and that lists a single other way in is left out of the
\* frontiers: the edge of the root is not in the list.  Such are the exits that have one
\* successor.
LeftOut == {b \in Blocks : RootIsIn(b) /\ Len(In(b)) = 1}

\* The frontiers are those of the definition, but for what is left out. Iterating reuses the
\* sets that are finished: what it gives is closed all the same, and each block in it is
\* there for a reason.
FrontiersAreRight ==
    /\ pc = "closure" /\ pos = 1 =>
         LET covered == Covered IN
         \A b \in covered :
            frontier[b] = {f \in covered \ LeftOut : InFrontier(b, f, covered)}
    /\ pc = "done" => \A b \in Covered : iterated[b] = Iterated(b)

\* In the preorder a block comes after its dominators and what it dominates is contiguous:
\* the renaming of SSA and SSAPRE's stack of occurrences rely on it.
Dfn(b) == CHOOSE i \in DOMAIN preorder : preorder[i] = b

PreorderNestsSubtrees ==
    pc = "done" =>
      /\ Range(preorder) = Covered /\ Len(preorder) = Cardinality(Covered)
      /\ \A a \in Covered :
            LET below == {b \in Covered : Dominates(a, b)}
            IN  {Dfn(b) : b \in below} = Dfn(a) .. Dfn(a) + Cardinality(below) - 1

\* The dominator tree is right, and so is the order in which SSA and SSAPRE walk it.
TreeIsRight == DomsAreDominators /\ PreorderNestsSubtrees

\* Both iterations come to an end.
Terminates == <>Finished
=============================================================================
