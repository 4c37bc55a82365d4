--------------------------- MODULE DominanceProofs ---------------------------
(***************************************************************************)
(* Theorems about Dominance for any graph: the tree is that of the         *)
(* immediate dominators, its preorder nests the subtrees, and the          *)
(* frontiers and their iterations are those of the definitions.            *)
(***************************************************************************)
EXTENDS Dominance, Foundations

-----------------------------------------------------------------------------
(* The graph. *)

GraphOK == graph \in Graphs /\ dir \in {"dom", "pdom"}

\* An edge that is followed is listed where it is walked and where it is merged, but for those
\* of the two common blocks.
LEMMA EdgeFacts ==
  ASSUME GraphOK
  PROVE  /\ Root \in Blocks /\ OtherRoot \in Blocks /\ Root # OtherRoot
         /\ \A b \in Blocks : Out(b) \in Seq(Blocks) /\ In(b) \in Seq(Blocks)
         /\ \A b \in Blocks : Forward(b) \subseteq Blocks
         /\ \A b \in Blocks : Range(Out(b)) = Forward(b) \ {OtherRoot}
         /\ \A b \in Blocks : Root \notin Forward(b)
         /\ Forward(OtherRoot) = {}
         /\ \A b \in Blocks \ {Root, OtherRoot} : \A p \in Blocks :
              b \in Forward(p) <=> p \in Range(In(b)) \/ (p = Root /\ RootIsIn(b))
         /\ In(Root) = <<>>
<1> DEFINE S(b) == Range(graph.succ[b])
           P(b) == Range(graph.pred[b])
<1>1. /\ graph.succ \in [Blocks -> Seq(Blocks)] /\ graph.pred \in [Blocks -> Seq(Blocks)]
      /\ graph.succ[Exit] = <<>> /\ graph.pred[Entry] = <<>>
      /\ {Entry, Exit} \cap P(Exit) = {}
      /\ \A b \in Blocks : {Entry, Exit} \cap S(b) = {}
      /\ \A b \in Blocks \ {Exit} : P(b) = {a \in Blocks \ {Entry} : b \in S(a)}
  BY GraphsAssumption DEF GraphOK
<1>2. \A b \in Blocks : S(b) \subseteq Blocks /\ P(b) \subseteq Blocks
  BY <1>1, RangeFacts
<1>3. S(Exit) = {} /\ P(Entry) = {}
  BY <1>1, EmptyFacts
<1>4. Entry \in Blocks /\ Exit \in Blocks /\ Entry # Exit
  BY BlocksAssumption DEF Entry, Exit
<1>5. \A a, b : Edge(a, b) <=> b \in S(a) \/ a \in P(b)
  BY DEF Edge
<1> HIDE DEF S, P
<1>6. CASE dir = "dom"
  <2>1. Root = Entry /\ OtherRoot = Exit
    BY <1>6 DEF Root, OtherRoot
  <2>2. \A b : Out(b) = graph.succ[b] /\ In(b) = graph.pred[b]
    BY <1>6 DEF Out, In
  <2>3. \A b : Range(Out(b)) = S(b) /\ Range(In(b)) = P(b)
    BY <2>2 DEF S, P
  <2>4. \A b : Forward(b) = {c \in Blocks : c \in S(b) \/ b \in P(c)}
    BY <1>5, <1>6 DEF Forward
  <2>5. \A b : RootIsIn(b) <=> b \in S(Entry)
    BY <2>1, <2>3 DEF RootIsIn
  <2>6. \A b \in Blocks : Forward(b) \ {OtherRoot} = S(b) /\ Root \notin Forward(b)
    BY <1>1, <1>2, <1>3, <1>4, <2>1, <2>4
  <2>7. Forward(OtherRoot) = {}
    BY <1>1, <1>2, <1>3, <1>4, <2>1, <2>4
  <2>8. ASSUME NEW b \in Blocks \ {Root, OtherRoot}, NEW p \in Blocks
        PROVE  b \in Forward(p) <=> p \in Range(In(b)) \/ (p = Root /\ RootIsIn(b))
    BY <1>1, <1>2, <1>3, <1>4, <2>1, <2>3, <2>4, <2>5
  <2> QED
    BY <1>1, <1>4, <2>1, <2>2, <2>3, <2>4, <2>6, <2>7, <2>8
<1>7. CASE dir = "pdom"
  <2>1. Root = Exit /\ OtherRoot = Entry
    BY <1>7 DEF Root, OtherRoot
  <2>2. \A b : Out(b) = graph.pred[b] /\ In(b) = graph.succ[b]
    BY <1>7 DEF Out, In
  <2>3. \A b : Range(Out(b)) = P(b) /\ Range(In(b)) = S(b)
    BY <2>2 DEF S, P
  <2>4. \A b : Forward(b) = {c \in Blocks : b \in S(c) \/ c \in P(b)}
    BY <1>5, <1>7 DEF Forward
  <2>5. \A b : RootIsIn(b) <=> b \in P(Exit)
    BY <2>1, <2>3 DEF RootIsIn
  <2>6. ASSUME NEW b \in Blocks
        PROVE  Forward(b) \ {OtherRoot} = P(b) /\ Root \notin Forward(b)
    <3>1. Forward(b) = {c \in Blocks : b \in S(c) \/ c \in P(b)}
      BY <2>4
    <3>2. Root \notin Forward(b)
      BY <1>1, <1>2, <1>3, <1>4, <2>1, <3>1
    <3>3. ASSUME NEW c \in Blocks, c # Entry PROVE c \in Forward(b) <=> c \in P(b)
      BY <1>1, <1>2, <1>3, <1>4, <2>1, <3>1, <3>3
    <3>4. Entry \notin P(b)
      BY <1>1, <1>4
    <3> QED
      BY <1>2, <2>1, <3>1, <3>2, <3>3, <3>4
  <2>7. Forward(OtherRoot) = {}
    BY <1>1, <1>2, <1>3, <1>4, <2>1, <2>4
  <2>8. ASSUME NEW b \in Blocks \ {Root, OtherRoot}, NEW p \in Blocks
        PROVE  b \in Forward(p) <=> p \in Range(In(b)) \/ (p = Root /\ RootIsIn(b))
    BY <1>1, <1>2, <1>3, <1>4, <2>1, <2>3, <2>4, <2>5
  <2> QED
    BY <1>1, <1>4, <2>1, <2>2, <2>3, <2>4, <2>6, <2>7, <2>8
<1> QED
  BY <1>6, <1>7 DEF GraphOK

LEMMA NullFacts == Null \notin Blocks
<1>1. \A i \in 1 .. Cardinality(Blocks) : i # 0
  OBVIOUS
<1> QED
  BY <1>1, BlocksAssumption DEF Null

\* ReachesFrom({Root}, a) as a function of the graph and the direction.
ForwardIn(g, d, a) ==
  IF d = "dom" THEN {b \in Blocks : b \in Range(g.succ[a]) \/ a \in Range(g.pred[b])}
  ELSE {b \in Blocks : a \in Range(g.succ[b]) \/ b \in Range(g.pred[a])}

ReachesIn(g, d, avoid) ==
  LET C[k \in 0 .. Cardinality(Blocks)] ==
        IF k = 0 THEN {IF d = "dom" THEN Entry ELSE Exit} \ {avoid}
        ELSE LET p == C[k-1] IN p \cup ((UNION {ForwardIn(g, d, a) : a \in p}) \ {avoid})
  IN  C[Cardinality(Blocks)]

\* Without a step of StartPostDominance the graph is as before.
LEMMA SameGraph ==
  ASSUME UNCHANGED <<graph, dir>>
  PROVE  /\ Root' = Root /\ OtherRoot' = OtherRoot
         /\ \A b : Out(b)' = Out(b) /\ In(b)' = In(b) /\ Forward(b)' = Forward(b)
         /\ \A b : RootIsIn(b)' <=> RootIsIn(b)
         /\ \A b : ReachesFrom({Root}, b)' = ReachesFrom({Root}, b)
         /\ Covered' = Covered
         /\ \A a, b : Dominates(a, b)' <=> Dominates(a, b)
         /\ GraphOK' <=> GraphOK
<1>1. Root' = Root /\ OtherRoot' = OtherRoot
  BY DEF Root, OtherRoot
<1>2. \A b : Out(b)' = Out(b) /\ In(b)' = In(b)
  BY DEF Out, In
<1>3. \A b : Forward(b)' = Forward(b)
  BY DEF Forward, Edge
<1>4. ASSUME NEW b PROVE ReachesFrom({Root}, b)' = ReachesFrom({Root}, b)
  <2>1. ReachesFrom({Root}, b) = ReachesIn(graph, dir, b)
    BY DEF ReachesFrom, ReachesIn, ForwardIn, Forward, Root, Edge
  <2>2. ReachesFrom({Root}, b)' = ReachesIn(graph', dir', b)
    BY DEF ReachesFrom, ReachesIn, ForwardIn, Forward, Root, Edge
  <2> QED
    BY <2>1, <2>2
<1> QED
  BY <1>1, <1>2, <1>3, <1>4 DEF RootIsIn, Covered, Dominates, GraphOK

\* What ReachesFrom computes: the least set that the edges past a do not leave.
LEMMA ReachFacts ==
  ASSUME GraphOK, NEW a
  PROVE  LET r == ReachesFrom({Root}, a)
         IN  /\ r \subseteq Blocks \ {a} /\ (a # Root => Root \in r)
             /\ \A x \in r : Forward(x) \ {a} \subseteq r
             /\ \A X : /\ a # Root => Root \in X
                       /\ \A x \in X \cap Blocks : Forward(x) \ {a} \subseteq X
                       => r \subseteq X
<1> DEFINE n == Cardinality(Blocks)
           s == {Root} \ {a}
           T == SUBSET Blocks
           Eq(C) == C = [k \in 0 .. n |->
                           IF k = 0 THEN s
                           ELSE LET p == C[k-1] IN p \cup ((UNION {Forward(x) : x \in p}) \ {a})]
           C == CHOOSE C : Eq(C)
           g == [t \in T |-> (UNION {Forward(x) : x \in t}) \ {a}]
           h == [k \in 1 .. n |-> [t \in T |-> t \cup g[t]]]
<1>1. n \in Nat /\ IsFiniteSet(Blocks)
  BY BlocksAssumption, FS_CardinalityType
<1>2. ReachesFrom({Root}, a) = C[n]
  BY DEF ReachesFrom
<1>3. Root \in Blocks /\ \A b \in Blocks : Forward(b) \subseteq Blocks
  BY EdgeFacts
<1>4. \A t \in T : g[t] = (UNION {Forward(x) : x \in t}) \ {a}
  OBVIOUS
<1>5. s \in T /\ g \in [T -> T] /\ \A X, Y \in T : X \subseteq Y => g[X] \subseteq g[Y]
  BY <1>3
<1>6. Eq(C)
  <2>1. \A k \in 1 .. n : \A t \in T : h[k][t] \in T /\ h[k][t] = t \cup g[t]
    BY <1>5
  <2>2. \E R \in [0 .. n -> T] : Iterates(n, s, h, R)
    <3> HIDE DEF T, h, n, s, g
    <3> QED
      BY <1>1, <1>5, <2>1, Iteration
  <2>3. PICK R \in [0 .. n -> T] : Iterates(n, s, h, R)
    BY <2>2
  <2> HIDE DEF h
  <2>4. ASSUME NEW k \in 0 .. n
        PROVE  (IF k = 0 THEN s ELSE h[k][R[k - 1]])
               = IF k = 0 THEN s
                 ELSE LET p == R[k-1] IN p \cup ((UNION {Forward(x) : x \in p}) \ {a})
    <3>1. k # 0 => k \in 1 .. n /\ k - 1 \in 0 .. n
      BY <1>1
    <3>2. k # 0 => R[k - 1] \in T
      BY <2>3, <3>1
    <3> HIDE DEF T, g
    <3> QED
      BY <1>4, <2>1, <3>1, <3>2
  <2>5. Eq(R)
    <3> HIDE DEF g, T
    <3> QED
      BY <2>3, <2>4 DEF Iterates
  <2> HIDE DEF Eq
  <2> QED
    BY <2>5
<1> HIDE DEF C
<1>7. Grows(Blocks, s, g, C)
  <2>1. C[0] = s
    BY <1>1, <1>6
  <2>2. ASSUME NEW k \in 1 .. n, C[k-1] \in T PROVE C[k] = C[k-1] \cup g[C[k-1]]
    <3>1. C[k] = C[k-1] \cup ((UNION {Forward(x) : x \in C[k-1]}) \ {a})
      BY <1>1, <1>6
    <3> QED
      BY <1>4, <2>2, <3>1
  <2> HIDE DEF g, s
  <2> QED
    BY <1>5, <2>1, <2>2 DEF Grows
<1>8. Closure(Blocks, s, g, C[n])
  <2> HIDE DEF g, s, Eq
  <2> QED
    BY <1>1, <1>7, ClosureFacts
<1> HIDE DEF g, Eq
<1>9. ASSUME NEW X, a # Root => Root \in X, \A x \in X \cap Blocks : Forward(x) \ {a} \subseteq X
      PROVE  C[n] \subseteq X
  <2>1. s \subseteq X \cap Blocks /\ X \cap Blocks \in T
    BY <1>3, <1>9
  <2>2. g[X \cap Blocks] \subseteq X \cap Blocks
    BY <1>3, <1>4, <1>9
  <2> QED
    BY <1>8, <2>1, <2>2 DEF Closure
<1>10. \A x \in C[n] : Forward(x) \ {a} \subseteq C[n]
  BY <1>4, <1>8 DEF Closure
<1>11. C[n] \subseteq Blocks \ {a}
  <2>1. s \subseteq Blocks \ {a} /\ g[Blocks \ {a}] \subseteq Blocks \ {a} /\ Blocks \ {a} \in T
    BY <1>3, <1>4
  <2> QED
    BY <1>8, <2>1 DEF Closure
<1>12. a # Root => Root \in C[n]
  BY <1>8 DEF Closure
<1> QED
  BY <1>2, <1>9, <1>10, <1>11, <1>12

\* The covered blocks are the least set with the root that no edge but to the other root leaves.
LEMMA CoveredFacts ==
  ASSUME GraphOK
  PROVE  /\ Covered \subseteq Blocks \ {OtherRoot} /\ Root \in Covered
         /\ \A x \in Covered : Forward(x) \subseteq Covered \cup {OtherRoot}
         /\ \A X : /\ Root \in X
                   /\ \A x \in X \cap Covered : Forward(x) \ {OtherRoot} \subseteq X
                   => Covered \subseteq X
<1> PICK r : r = ReachesFrom({Root}, Null)
  OBVIOUS
<1>1. Null \notin Blocks /\ Root # OtherRoot /\ Root \in Blocks /\ Forward(OtherRoot) = {}
      /\ \A b \in Blocks : Forward(b) \subseteq Blocks
  BY NullFacts, EdgeFacts
<1>2. /\ r \subseteq Blocks /\ Root \in r
      /\ \A x \in r : Forward(x) \ {Null} \subseteq r
      /\ \A X : Root \in X /\ (\A x \in X \cap Blocks : Forward(x) \ {Null} \subseteq X)
                => r \subseteq X
  BY <1>1, ReachFacts
<1>3. Covered = r \ {OtherRoot}
  BY DEF Covered
<1>4. ASSUME NEW X, Root \in X, \A x \in X \cap Covered : Forward(x) \ {OtherRoot} \subseteq X
      PROVE  Covered \subseteq X
  <2> DEFINE Y == (X \cap Covered) \cup {OtherRoot}
  <2>1. Root \in Y
    BY <1>1, <1>2, <1>3, <1>4
  <2>2. \A x \in Y \cap Blocks : Forward(x) \ {Null} \subseteq Y
    BY <1>1, <1>2, <1>3, <1>4
  <2>3. r \subseteq Y
    BY <1>2, <2>1, <2>2
  <2> QED
    BY <1>3, <2>3
<1> QED
  BY <1>1, <1>2, <1>3, <1>4

\* Dominance is an order with the root on top, and who is strictly over a block is over every
\* way into it.
LEMMA DominatesFacts ==
  ASSUME GraphOK
  PROVE  /\ \A a : Dominates(a, a)
         /\ \A a, b, c : Dominates(a, b) /\ Dominates(b, c) => Dominates(a, c)
         /\ \A b : Dominates(Root, b)
         /\ \A a : Dominates(a, Root) => a = Root
         /\ \A a, b, p : b \in Forward(p) /\ Dominates(a, b) /\ a # b => Dominates(a, p)
<1> DEFINE R(a) == ReachesFrom({Root}, a)
<1>1. \A a, b : Dominates(a, b) <=> a = b \/ b \notin R(a)
  BY DEF Dominates
<1>2. \A a : /\ R(a) \subseteq Blocks \ {a} /\ (a # Root => Root \in R(a))
             /\ \A x \in R(a) : Forward(x) \ {a} \subseteq R(a)
  BY ReachFacts
<1>3. \A a, X : /\ a # Root => Root \in X
                /\ \A x \in X \cap Blocks : Forward(x) \ {a} \subseteq X
                => R(a) \subseteq X
  BY ReachFacts
<1> HIDE DEF R
<1>4. ASSUME NEW a, NEW b, NEW c, Dominates(a, b), Dominates(b, c) PROVE Dominates(a, c)
  <2> SUFFICES ASSUME a # b, b # c, c \in R(a) PROVE FALSE
    BY <1>1, <1>4
  <2>1. b \notin R(a) /\ c \notin R(b)
    BY <1>1, <1>4
  <2>2. a # Root => Root \in R(a) \cap R(b)
    BY <1>2, <2>1
  <2>3. \A x \in (R(a) \cap R(b)) \cap Blocks : Forward(x) \ {a} \subseteq R(a) \cap R(b)
    BY <1>2, <2>1
  <2>4. R(a) \subseteq R(a) \cap R(b)
    <3> PICK X : X = R(a) \cap R(b)
      OBVIOUS
    <3> QED
      BY <1>3, <2>2, <2>3
  <2> QED
    BY <2>1, <2>4
<1>5. R(Root) = {}
  <2>1. R(Root) \subseteq {}
    <3> PICK X : X = {}
      OBVIOUS
    <3>1. \A x \in X \cap Blocks : Forward(x) \ {Root} \subseteq X
      OBVIOUS
    <3> QED
      BY <1>3, <3>1
  <2> QED
    BY <2>1
<1>6. ASSUME NEW a, NEW b, NEW p, b \in Forward(p), Dominates(a, b), a # b PROVE Dominates(a, p)
  BY <1>1, <1>2, <1>6
<1> QED
  BY <1>1, <1>2, <1>4, <1>5, <1>6

-----------------------------------------------------------------------------
(* The walk. *)

\* order holds the blocks that are numbered, from the last to the first.
Numbered ==
  /\ order \in Seq(Blocks \ {OtherRoot}) /\ Distinct(order)
  /\ post \in [Blocks -> Int]
  /\ \A i \in 1 .. Len(order) : post[order[i]] = Len(order) - i
  /\ \A b \in Blocks : b \notin Range(order) => post[b] = -1

\* The walk came to order[i] from a block that it is still in or that is numbered later.
CameFrom(i) ==
  \E p \in Blocks : /\ order[i] \in Forward(p)
                    /\ p \in Range(stack) \/ \E j \in 1 .. i - 1 : order[j] = p

WalkInv ==
  /\ Numbered
  /\ stack \in Seq(Blocks \ {OtherRoot}) /\ Distinct(stack)
  /\ Range(stack) \cap Range(order) = {}
  /\ Range(stack) \cup Range(order) \subseteq Covered
  /\ IF stack = <<>> THEN order # <<>> /\ order[1] = Root ELSE stack[Len(stack)] = Root
  /\ \A i \in 1 .. Len(stack) - 1 : stack[i] \in Forward(stack[i + 1])
  /\ \A b \in Range(order) :
       Forward(b) \ {OtherRoot} \subseteq Range(stack) \cup Range(order)
  /\ \A i \in 1 .. Len(order) : order[i] = Root \/ CameFrom(i)

\* The walk is over.
Walked ==
  /\ Numbered
  /\ Len(order) >= 1 /\ order[1] = Root /\ Range(order) = Covered
  /\ \A i \in 2 .. Len(order) : \E j \in 1 .. i - 1 : order[i] \in Forward(order[j])

LEMMA NumberedFacts ==
  ASSUME GraphOK, Numbered
  PROVE  /\ Visited = Range(stack) \cup Range(order)
         /\ Len(order) \in Nat
         /\ \A i \in 1 .. Len(order) : order[i] \in Blocks
         /\ \A b \in Range(order) : post[b] \in 0 .. Len(order) - 1 /\ order[Len(order) - post[b]] = b
         /\ \A i, j \in 1 .. Len(order) : post[order[i]] > post[order[j]] <=> i < j
         /\ \A b \in Blocks : post[b] \in -1 .. Cardinality(Blocks) - 2
         /\ Len(order) <= Cardinality(Blocks) - 1
         /\ Range(order) \subseteq Blocks \ {OtherRoot}
<1> DEFINE B == Blocks \ {OtherRoot}
<1> PICK n, s : n = Len(order) /\ s = order
  OBVIOUS
<1>1. s \in Seq(B) /\ Distinct(s) /\ n \in Nat /\ n = Len(s)
  BY LenProperties DEF Numbered
<1>2. /\ Range(s) \subseteq B
      /\ \A i \in 1 .. n : s[i] \in B
      /\ \A i \in 1 .. n : s[i] \in Range(s)
      /\ \A x \in Range(s) : \E i \in 1 .. n : s[i] = x
  <2> HIDE DEF B
  <2>1. s \in Seq(B)
    BY <1>1
  <2>2. /\ Range(s) \subseteq B
        /\ \A i \in 1 .. Len(s) : s[i] \in B
        /\ \A i \in 1 .. Len(s) : s[i] \in Range(s)
        /\ \A x \in Range(s) : \E i \in 1 .. Len(s) : s[i] = x
    BY ONLY <2>1, RangeFacts
  <2> QED
    BY <1>1, <2>2
<1>3. \A i \in 1 .. n : post[s[i]] = n - i
  BY DEF Numbered
<1>4. ASSUME NEW b \in Range(s) PROVE post[b] \in 0 .. n - 1 /\ s[n - post[b]] = b
  <2>1. PICK i \in 1 .. n : s[i] = b
    BY <1>2
  <2>2. n - (n - i) = i /\ n - i \in 0 .. n - 1
    BY <1>1
  <2> QED
    BY <1>3, <2>1, <2>2
<1>5. \A b \in Blocks : b \notin Range(s) => post[b] = -1
  BY DEF Numbered
<1>6. n <= Cardinality(Blocks) - 1 /\ Cardinality(Blocks) \in Nat
  <2>1. /\ IsFiniteSet(Range(s)) /\ n = Cardinality(Range(s))
    <3> PICK R : R = Range(s)
      OBVIOUS
    <3>1. s \in Seq(R)
      <4>1. s \in [1 .. n -> R]
        BY <1>1, <1>2, LenProperties
      <4> QED
        BY <1>1, <4>1, FunctionSeq
    <3>2. IsFiniteSet(R)
      BY <1>2, BlocksAssumption, FS_Subset
    <3>3. Len(s) = Cardinality(R)
      BY <1>1, <3>1, <3>2, DistinctLength
    <3> QED
      BY <1>1, <3>2, <3>3
  <2>2. /\ IsFiniteSet(B) /\ Cardinality(B) = Cardinality(Blocks) - 1
    BY BlocksAssumption, EdgeFacts, FS_RemoveElement
  <2>3. Cardinality(Range(s)) <= Cardinality(B)
    BY <1>2, <2>2, FS_Subset
  <2> QED
    BY <1>1, <2>1, <2>2, <2>3, BlocksAssumption, FS_CardinalityType
<1>7. \A b \in Blocks : post[b] \in -1 .. Cardinality(Blocks) - 2
  BY <1>1, <1>4, <1>5, <1>6
<1>8. \A i, j \in 1 .. n : post[s[i]] > post[s[j]] <=> i < j
  BY <1>1, <1>3
<1>9. Visited = Range(stack) \cup Range(s)
  BY <1>2, <1>4, <1>5 DEF Visited
<1> QED
  BY <1>1, <1>2, <1>4, <1>6, <1>7, <1>8, <1>9

\* The walk starts in the root.
LEMMA WalkStarts ==
  ASSUME GraphOK, post = [b \in Blocks |-> -1], order = <<>>, stack = <<Root>>
  PROVE  WalkInv
<1> DEFINE B == Blocks \ {OtherRoot}
<1>1. Root \in B /\ Root \in Covered
  BY EdgeFacts, CoveredFacts
<1>2. order \in Seq(B) /\ Len(order) = 0 /\ Range(order) = {} /\ Distinct(order)
  BY EmptyFacts
<1>3. stack \in Seq(B) /\ Len(stack) = 1 /\ Distinct(stack) /\ \A x : x \in Range(stack) <=> x = Root
  <2> HIDE DEF B
  <2>1. /\ <<Root>> \in Seq(B) /\ Len(<<Root>>) = 1 /\ Distinct(<<Root>>)
        /\ \A x : x \in Range(<<Root>>) <=> x = Root
    BY ONLY <1>1, SingleFacts
  <2> QED
    BY <2>1
<1>4. Numbered
  BY <1>2 DEF Numbered
<1>5. stack # <<>> /\ stack[Len(stack)] = Root
  BY <1>3
<1> QED
  BY <1>1, <1>2, <1>3, <1>4, <1>5 DEF WalkInv

LEMMA WalkSteps ==
  ASSUME GraphOK, WalkInv, PostOrderWalk
  PROVE  WalkInv'
<1> DEFINE B == Blocks \ {OtherRoot}
<1> PICK b, n : b = Head(stack) /\ n = Len(order)
  OBVIOUS
<1>1. UNCHANGED <<graph, dir>> /\ stack # <<>>
  BY DEF PostOrderWalk
<1>2. /\ Root' = Root /\ OtherRoot' = OtherRoot /\ Covered' = Covered
      /\ \A x : Forward(x)' = Forward(x)
  BY <1>1, SameGraph
<1>3. /\ Numbered /\ order \in Seq(B) /\ Distinct(order) /\ stack \in Seq(B) /\ Distinct(stack)
      /\ Range(stack) \cap Range(order) = {}
      /\ Range(stack) \cup Range(order) \subseteq Covered
      /\ stack[Len(stack)] = Root
      /\ \A i \in 1 .. Len(stack) - 1 : stack[i] \in Forward(stack[i + 1])
      /\ \A x \in Range(order) : Forward(x) \ {OtherRoot} \subseteq Range(stack) \cup Range(order)
      /\ \A i \in 1 .. n : order[i] = Root \/ CameFrom(i)
  BY <1>1 DEF WalkInv, Numbered
<1>4. n \in Nat /\ \A i \in 1 .. n : order[i] \in Blocks
  BY <1>3, NumberedFacts
<1>5. Visited = Range(stack) \cup Range(order) /\ Range(order) \subseteq B
  BY <1>3, NumberedFacts
<1>6. /\ b \in B /\ b = stack[1] /\ Len(stack) >= 1 /\ Len(stack) \in Nat
      /\ Tail(stack) \in Seq(B) /\ Len(Tail(stack)) = Len(stack) - 1
      /\ \A i \in 1 .. Len(stack) - 1 : Tail(stack)[i] = stack[i + 1]
      /\ \A x : x \in Range(stack) <=> x = b \/ x \in Range(Tail(stack))
      /\ Distinct(Tail(stack)) /\ b \notin Range(Tail(stack))
  <2> HIDE DEF B
  <2>1. stack \in Seq(B) /\ stack # <<>>
    BY <1>1, <1>3
  <2>2. /\ Head(stack) \in B /\ Head(stack) = stack[1] /\ Len(stack) >= 1
        /\ Tail(stack) \in Seq(B) /\ Len(Tail(stack)) = Len(stack) - 1
        /\ \A i \in 1 .. Len(stack) - 1 : Tail(stack)[i] = stack[i + 1]
        /\ \A x : x \in Range(stack) <=> x = Head(stack) \/ x \in Range(Tail(stack))
        /\ Distinct(stack) => Distinct(Tail(stack)) /\ Head(stack) \notin Range(Tail(stack))
    BY ONLY <2>1, TailFacts
  <2> QED
    BY <1>3, <2>1, <2>2, LenProperties
<1>7. b \in Covered /\ b \notin Range(order)
  BY <1>3, <1>6
<1>8. /\ Out(b) \in Seq(Blocks) /\ Range(Out(b)) = Forward(b) \ {OtherRoot}
      /\ Forward(b) \subseteq Covered \cup {OtherRoot} /\ Covered \subseteq B
  BY <1>6, <1>7, EdgeFacts, CoveredFacts
<1>9. /\ \A i \in 1 .. Len(Out(b)) : Out(b)[i] \in Range(Out(b))
      /\ \A x \in Range(Out(b)) : \E i \in 1 .. Len(Out(b)) : Out(b)[i] = x
      /\ DOMAIN Out(b) = 1 .. Len(Out(b))
  BY <1>8, RangeFacts, LenProperties
<1> DEFINE ahead == {k \in DOMAIN Out(b) : Out(b)[k] \notin Visited}
\* The block is numbered.
<1>10. CASE ahead = {}
  <2>1. post' = [post EXCEPT ![b] = n] /\ order' = <<b>> \o order /\ stack' = Tail(stack)
    BY <1>10 DEF PostOrderWalk
  <2>2. Forward(b) \ {OtherRoot} \subseteq Range(stack) \cup Range(order)
    BY <1>5, <1>8, <1>9, <1>10
  <2>3. /\ order' \in Seq(B) /\ Len(order') = n + 1 /\ order'[1] = b
        /\ \A i \in 1 .. n : order'[i + 1] = order[i]
        /\ \A x : x \in Range(order') <=> x = b \/ x \in Range(order)
        /\ Distinct(order')
    <3> HIDE DEF B
    <3>1. order \in Seq(B) /\ b \in B
      BY <1>3, <1>6
    <3>2. /\ <<b>> \o order \in Seq(B) /\ Len(<<b>> \o order) = Len(order) + 1
          /\ (<<b>> \o order)[1] = b
          /\ \A i \in 1 .. Len(order) : (<<b>> \o order)[i + 1] = order[i]
          /\ \A x : x \in Range(<<b>> \o order) <=> x = b \/ x \in Range(order)
          /\ Distinct(order) /\ b \notin Range(order) => Distinct(<<b>> \o order)
      BY ONLY <3>1, PrependedFacts
    <3> QED
      BY <1>3, <1>7, <2>1, <3>2
  <2>4. \A i \in 1 .. n + 1 : i = 1 \/ (i - 1 \in 1 .. n /\ order'[i] = order[i - 1])
    <3> SUFFICES ASSUME NEW i \in 1 .. n + 1, i # 1
                 PROVE  i - 1 \in 1 .. n /\ order'[i] = order[i - 1]
      OBVIOUS
    <3>1. i - 1 \in 1 .. n /\ (i - 1) + 1 = i
      BY <1>4
    <3> QED
      BY <2>3, <3>1
  <2>5. Numbered'
    <3>1. post' \in [Blocks -> Int]
      <4>1. post \in [Blocks -> Int] /\ n \in Int
        BY <1>3, <1>4 DEF Numbered
      <4> QED
        BY <2>1, <4>1
    <3>2. ASSUME NEW i \in 1 .. n + 1 PROVE post'[order'[i]] = (n + 1) - i
      <4>1. CASE i = 1
        BY <1>3, <1>4, <1>6, <2>1, <2>3, <4>1 DEF Numbered
      <4>2. CASE i # 1
        <5>1. i - 1 \in 1 .. n /\ order'[i] = order[i - 1]
          BY <2>4, <4>2
        <5>2. order[i - 1] # b /\ order[i - 1] \in Blocks /\ post[order[i - 1]] = n - (i - 1)
          <6>1. \A k \in 1 .. n : order[k] \in Range(order)
            <7> HIDE DEF B
            <7>1. order \in Seq(B)
              BY <1>3
            <7> QED
              BY <7>1, RangeFacts
          <6> QED
            BY <1>3, <1>4, <1>7, <5>1, <6>1 DEF Numbered
        <5> QED
          BY <1>3, <1>4, <2>1, <5>1, <5>2 DEF Numbered
      <4> QED
        BY <4>1, <4>2
    <3>3. \A x \in Blocks : x \notin Range(order') => post'[x] = -1
      BY <1>3, <2>1, <2>3 DEF Numbered
    <3> QED
      BY <1>2, <2>3, <3>1, <3>2, <3>3 DEF Numbered
  <2>6. /\ Range(stack)' \cap Range(order)' = {}
        /\ \A x : x \in Range(stack)' \cup Range(order)' <=> x \in Range(stack) \cup Range(order)
    BY <1>3, <1>6, <1>7, <2>1, <2>3
  <2>7. IF stack' = <<>> THEN order' # <<>> /\ order'[1] = Root ELSE stack'[Len(stack')] = Root
    <3>1. CASE Len(stack) = 1
      <4>1. b = Root /\ order' # <<>>
        BY <1>3, <1>4, <1>6, <2>3, <3>1, EmptyFacts
      <4>2. stack' = <<>>
        BY <1>6, <2>1, <3>1, EmptySeq
      <4> QED
        BY <2>3, <4>1, <4>2
    <3>2. CASE Len(stack) # 1
      <4>1. Len(stack) - 1 \in 1 .. Len(stack) - 1 /\ (Len(stack) - 1) + 1 = Len(stack)
        BY <1>6, <3>2
      <4>2. stack'[Len(stack')] = Root
        BY <1>3, <1>6, <2>1, <4>1
      <4>3. stack' # <<>>
        <5>1. Len(stack') # 0
          BY <1>6, <2>1, <3>2
        <5> QED
          BY <5>1, EmptySeq
      <4> QED
        BY <4>2, <4>3
    <3> QED
      BY <3>1, <3>2
  <2>8. ASSUME NEW i \in 1 .. Len(stack') - 1 PROVE stack'[i] \in Forward(stack'[i + 1])
    <3>1. i \in 1 .. Len(stack) - 1 /\ i + 1 \in 1 .. Len(stack) - 1
      BY <1>6, <2>1
    <3> QED
      BY <1>3, <1>6, <2>1, <3>1
  <2>9. ASSUME NEW i \in 1 .. n + 1, i # 1, CameFrom(i - 1)
        PROVE  CameFrom(i)'
    <3>0. order'[i] = order[i - 1]
      BY <2>4, <2>9
    <3>1. PICK p \in Blocks : /\ order[i - 1] \in Forward(p)
                              /\ p \in Range(stack) \/ \E j \in 1 .. (i - 1) - 1 : order[j] = p
      BY <2>9 DEF CameFrom
    <3>2. CASE p \in Range(Tail(stack))
      BY <1>2, <2>1, <3>0, <3>1, <3>2 DEF CameFrom
    <3>3. CASE p = b
      <4>1. 1 \in 1 .. i - 1
        BY <2>9
      <4> QED
        BY <1>2, <2>3, <3>0, <3>1, <3>3, <4>1 DEF CameFrom
    <3>4. CASE \E j \in 1 .. (i - 1) - 1 : order[j] = p
      <4>1. PICK j \in 1 .. (i - 1) - 1 : order[j] = p
        BY <3>4
      <4>2. j \in 1 .. n /\ j + 1 \in 1 .. i - 1
        BY <1>4
      <4> QED
        BY <1>2, <2>3, <3>0, <3>1, <4>1, <4>2 DEF CameFrom
    <3> QED
      BY <1>6, <3>1, <3>2, <3>3, <3>4
  <2>10. ASSUME NEW i \in 1 .. n + 1 PROVE order'[i] = Root \/ CameFrom(i)'
    <3>1. CASE i = 1
      <4>1. CASE Len(stack) = 1
        BY <1>3, <1>6, <2>3, <3>1, <4>1
      <4>2. CASE Len(stack) # 1
        <5>1. 1 \in 1 .. Len(stack) - 1 /\ 1 + 1 \in 1 .. Len(stack)
          BY <1>6, <4>2
        <5>2. stack[1] \in Forward(stack[1 + 1]) /\ Tail(stack)[1] = stack[1 + 1]
          BY <1>3, <1>6, <5>1
        <5>3. Tail(stack)[1] \in Range(Tail(stack)) /\ Tail(stack)[1] \in B
          <6> HIDE DEF B
          <6> PICK t : t = Tail(stack)
            OBVIOUS
          <6>1. t \in Seq(B) /\ 1 \in 1 .. Len(t)
            BY <1>6, <5>1
          <6>2. t[1] \in Range(t) /\ t[1] \in B
            BY ONLY <6>1, RangeFacts
          <6> QED
            BY <6>2
        <5> PICK q : q = Tail(stack)[1]
          OBVIOUS
        <5>4. order'[1] \in Forward(q)'
          BY <1>2, <1>6, <2>3, <5>2
        <5> QED
          BY <2>1, <3>1, <5>3, <5>4 DEF CameFrom
      <4> QED
        BY <4>1, <4>2
    <3>2. CASE i # 1
      <4>1. i - 1 \in 1 .. n /\ order'[i] = order[i - 1]
        BY <2>4, <3>2
      <4>2. order[i - 1] = Root \/ CameFrom(i - 1)
        BY <1>3, <4>1
      <4> QED
        BY <2>9, <3>2, <4>1, <4>2
    <3> QED
      BY <3>1, <3>2
  <2>11. \A x \in Range(order') :
           Forward(x) \ {OtherRoot} \subseteq Range(stack)' \cup Range(order)'
    BY <1>3, <2>2, <2>3, <2>6
  <2> QED
    BY <1>2, <1>3, <1>6, <2>1, <2>3, <2>5, <2>6, <2>7, <2>8, <2>10, <2>11 DEF WalkInv
\* The walk goes on.
<1>11. CASE ahead # {}
  <2>1. PICK k \in ahead : stack' = <<Out(b)[k]>> \o stack
    BY <1>11 DEF PostOrderWalk
  <2>2. post' = post /\ order' = order
    BY <1>11 DEF PostOrderWalk
  <2> PICK c : c = Out(b)[k]
    OBVIOUS
  <2>3. c \in Forward(b) /\ c \in B /\ c \in Covered /\ c \notin Range(stack) \cup Range(order)
    BY <1>5, <1>8, <1>9, <2>1
  <2>4. /\ stack' \in Seq(B) /\ Len(stack') = Len(stack) + 1 /\ stack'[1] = c
        /\ \A i \in 1 .. Len(stack) : stack'[i + 1] = stack[i]
        /\ \A x : x \in Range(stack') <=> x = c \/ x \in Range(stack)
        /\ Distinct(stack')
    <3> HIDE DEF B
    <3>1. stack \in Seq(B) /\ c \in B
      BY <1>3, <2>3
    <3>2. /\ <<c>> \o stack \in Seq(B) /\ Len(<<c>> \o stack) = Len(stack) + 1
          /\ (<<c>> \o stack)[1] = c
          /\ \A i \in 1 .. Len(stack) : (<<c>> \o stack)[i + 1] = stack[i]
          /\ \A x : x \in Range(<<c>> \o stack) <=> x = c \/ x \in Range(stack)
          /\ Distinct(stack) /\ c \notin Range(stack) => Distinct(<<c>> \o stack)
      BY ONLY <3>1, PrependedFacts
    <3> QED
      BY <1>3, <2>1, <2>3, <3>2
  <2>5. Numbered'
    BY <1>2, <1>3, <2>2 DEF Numbered
  <2>6. stack' # <<>> /\ stack'[Len(stack')] = Root
    <3>1. Len(stack) \in 1 .. Len(stack)
      BY <1>6
    <3>2. Len(stack') # 0
      BY <1>6, <2>4
    <3> QED
      BY <1>3, <2>4, <3>1, <3>2, EmptySeq
  <2>7. ASSUME NEW i \in 1 .. Len(stack') - 1 PROVE stack'[i] \in Forward(stack'[i + 1])
    <3>1. CASE i = 1
      BY <1>6, <2>3, <2>4, <3>1
    <3>2. CASE i # 1
      <4>1. i - 1 \in 1 .. Len(stack) - 1 /\ (i - 1) + 1 = i /\ i \in 1 .. Len(stack)
        BY <1>6, <2>4, <3>2
      <4>2. i - 1 \in 1 .. Len(stack)
        BY <1>6, <4>1
      <4> QED
        BY <1>3, <2>4, <4>1, <4>2
    <3> QED
      BY <3>1, <3>2
  <2>8. \A i : CameFrom(i) => CameFrom(i)'
    BY <1>2, <2>2, <2>4 DEF CameFrom
  <2> QED
    BY <1>2, <1>3, <2>2, <2>3, <2>4, <2>5, <2>6, <2>7, <2>8 DEF WalkInv
<1> QED
  BY <1>10, <1>11

\* When the stack is empty every block that can be reached is numbered.
LEMMA WalkEnds ==
  ASSUME GraphOK, WalkInv, stack = <<>>
  PROVE  Walked
<1>1. Range(stack) = {}
  BY EmptyFacts
<1>2. /\ Numbered /\ order # <<>> /\ order[1] = Root /\ Range(order) \subseteq Covered
      /\ \A b \in Range(order) : Forward(b) \ {OtherRoot} \subseteq Range(order)
      /\ \A i \in 1 .. Len(order) : order[i] = Root \/ CameFrom(i)
  BY <1>1 DEF WalkInv
<1>3. Len(order) \in Nat /\ Len(order) # 0 /\ Distinct(order)
  BY <1>2, NumberedFacts, EmptySeq DEF Numbered
<1>4. 1 \in 1 .. Len(order)
  BY <1>3
<1>5. Root \in Range(order)
  <2>1. order \in Seq(Blocks \ {OtherRoot})
    BY <1>2 DEF Numbered
  <2> QED
    BY <1>2, <1>4, <2>1, RangeFacts
<1>6. Covered \subseteq Range(order)
  BY <1>2, <1>5, CoveredFacts
<1>7. ASSUME NEW i \in 2 .. Len(order) PROVE \E j \in 1 .. i - 1 : order[i] \in Forward(order[j])
  <2>1. i \in 1 .. Len(order) /\ i # 1
    BY <1>3
  <2>2. order[i] # Root
    BY <1>2, <1>3, <1>4, <2>1 DEF Distinct
  <2> QED
    BY <1>1, <1>2, <2>1, <2>2 DEF CameFrom
<1> QED
  BY <1>2, <1>3, <1>6, <1>7 DEF Walked

-----------------------------------------------------------------------------
(* The tree while it is built. *)

LEMMA WalkedFacts ==
  ASSUME GraphOK, Walked
  PROVE  /\ Covered \subseteq Blocks /\ Root \in Covered
         /\ \A b \in Covered : post[b] \in Nat /\ post[b] <= Cardinality(Blocks)
         /\ \A a, b \in Covered : post[a] = post[b] => a = b
         /\ \A b \in Covered \ {Root} : post[b] < post[Root]
         /\ \A a, b \in Covered : Dominates(a, b) /\ a # b => post[a] > post[b]
<1> PICK n : n = Len(order)
  OBVIOUS
<1>1. /\ Numbered /\ n >= 1 /\ order[1] = Root /\ Range(order) = Covered /\ Distinct(order)
      /\ \A i \in 2 .. n : \E j \in 1 .. i - 1 : order[i] \in Forward(order[j])
  BY DEF Walked, Numbered
<1>2. /\ n \in Nat /\ n <= Cardinality(Blocks) - 1 /\ Cardinality(Blocks) \in Nat
      /\ \A b \in Covered : post[b] \in 0 .. n - 1 /\ order[n - post[b]] = b
      /\ \A i \in 1 .. n : post[order[i]] = n - i
  BY <1>1, NumberedFacts, BlocksAssumption, FS_CardinalityType DEF Numbered
<1>3. \A i \in 1 .. n : order[i] \in Covered
  <2>1. order \in Seq(Blocks \ {OtherRoot})
    BY <1>1 DEF Numbered
  <2> QED
    BY <1>1, <2>1, RangeFacts
<1>4. Covered \subseteq Blocks /\ Root \in Covered
  BY CoveredFacts
<1>5. \A b \in Covered : post[b] \in Nat /\ post[b] <= Cardinality(Blocks)
  BY <1>2
<1>6. ASSUME NEW a \in Covered, NEW b \in Covered, post[a] = post[b] PROVE a = b
  BY <1>2, <1>6
<1>7. ASSUME NEW b \in Covered \ {Root} PROVE post[b] < post[Root]
  <2>1. post[Root] = n - 1
    BY <1>1, <1>2
  <2>2. post[b] # post[Root]
    BY <1>4, <1>6
  <2> QED
    BY <1>2, <2>1, <2>2
<1>8. ASSUME NEW a \in Covered, NEW b \in Covered, Dominates(a, b), a # b PROVE post[a] > post[b]
  <2> PICK r : r = ReachesFrom({Root}, a)
    OBVIOUS
  <2>1. /\ a # Root => Root \in r
        /\ \A x \in r : Forward(x) \ {a} \subseteq r
    BY ReachFacts
  <2>2. b \notin r
    BY <1>8 DEF Dominates
  <2> SUFFICES ASSUME ~(post[a] > post[b]) PROVE FALSE
    OBVIOUS
  <2>3. \E k \in 1 .. n : order[k] = a /\ \E l \in 1 .. k - 1 : order[l] = b
    <3>1. post[a] \in 0 .. n - 1 /\ post[b] \in 0 .. n - 1
      BY <1>2
    <3>2. post[a] < post[b]
      BY <1>6, <1>8, <3>1
    <3>3. n - post[a] \in 1 .. n /\ n - post[b] \in 1 .. (n - post[a]) - 1
      <4>1. \A u, v \in 0 .. n - 1 : u < v => n - u \in 1 .. n /\ n - v \in 1 .. (n - u) - 1
        BY <1>2
      <4> QED
        BY ONLY <3>1, <3>2, <4>1
    <3> QED
      BY <1>2, <3>3
  <2>20. PICK k \in 1 .. n : order[k] = a /\ \E l \in 1 .. k - 1 : order[l] = b
    BY <2>3
  <2>21. PICK l \in 1 .. k - 1 : order[l] = b
    BY <2>20
  <2>22. k \in Nat /\ l \in Nat /\ 1 <= l /\ l < k /\ k <= n
    BY <1>2, <2>20, <2>21
  <2>4. a # Root
    <3>1. k # 1 /\ k \in 1 .. n /\ 1 \in 1 .. n
      BY <1>1, <1>2, <2>22
    <3> QED
      BY <1>1, <2>20, <3>1 DEF Distinct
  <2> DEFINE T == {m \in 1 .. k - 1 : order[m] \notin r}
  <2>5. T \subseteq Nat /\ T # {}
    <3>1. l \in 1 .. k - 1 /\ order[l] \notin r
      BY <2>2, <2>21
    <3>2. \A m \in 1 .. k - 1 : m \in Nat
      BY ONLY <2>22
    <3> QED
      BY ONLY <3>1, <3>2
  <2>6. PICK m \in T : \A i \in T : m <= i
    BY <2>5, LeastNat
  <2>7. m \in 1 .. k - 1 /\ order[m] \notin r /\ m \in 1 .. n
    BY <1>2, <2>22, <2>6
  <2>8. m # 1
    BY <1>1, <2>1, <2>4, <2>7
  <2>9. m \in 2 .. n
    BY <2>7, <2>8
  <2>10. PICK j \in 1 .. m - 1 : order[m] \in Forward(order[j])
    BY <1>1, <2>9
  <2>11. j \in 1 .. k - 1 /\ j < m
    BY <2>22, <2>7
  <2>12. order[j] \in r
    <3>1. j \notin T
      <4>1. \A i \in 1 .. k - 1 : i < m => ~(m <= i)
        BY ONLY <2>7, <2>22
      <4> HIDE DEF T
      <4> QED
        BY ONLY <2>6, <2>11, <4>1
    <3> QED
      BY <2>11, <3>1
  <2>13. order[m] # a
    <3>1. m # k /\ k \in 1 .. n
      BY <2>7, <2>22
    <3> QED
      BY <1>1, <2>7, <2>20, <3>1 DEF Distinct
  <2> QED
    BY <2>1, <2>7, <2>10, <2>12, <2>13
<1> QED
  BY <1>4, <1>5, <1>6, <1>7, <1>8

\* The tree points upwards, and keeps to the dominators.
TreeOK ==
  /\ doms \in [Blocks -> Covered \cup {Null}] /\ doms[Root] = Root
  /\ \A b \in Blocks : doms[b] # Null => b \in Covered
  /\ \A b \in Covered \ {Root} : doms[b] # Null =>
       /\ doms[b] \in Covered /\ doms[doms[b]] # Null /\ post[doms[b]] > post[b]
       /\ \A d \in Covered : Dominates(d, b) /\ d # b => Dominates(d, doms[b])

\* The blocks on the way from x up to the root.
Above(x) ==
  {a \in Blocks : \A S \in SUBSET Blocks :
                    x \in S /\ (\A y \in S : doms[y] \in Blocks => doms[y] \in S) => a \in S}

LEMMA AboveFacts ==
  ASSUME GraphOK, Walked, TreeOK, NEW x \in Covered, doms[x] # Null
  PROVE  /\ x \in Above(x) /\ Root \in Above(x)
         /\ doms[x] \in Above(x)
         /\ \A y \in Above(x) : Above(y) \subseteq Above(x)
         /\ Above(x) \subseteq {x} \cup Above(doms[x])
         /\ Above(Root) = {Root}
         /\ \A y \in Above(x) : y \in Covered /\ doms[y] # Null /\ post[y] >= post[x]
<1> DEFINE Closed(S) == \A y \in S : doms[y] \in Blocks => doms[y] \in S
<1>1. /\ Covered \subseteq Blocks /\ Root \in Covered
      /\ \A b \in Covered : post[b] \in Nat /\ post[b] <= Cardinality(Blocks)
      /\ \A b \in Covered \ {Root} : post[b] < post[Root]
  BY WalkedFacts
<1>2. /\ doms[Root] = Root /\ Root # Null
      /\ \A b \in Blocks : doms[b] \in Covered \cup {Null}
      /\ \A b \in Blocks : doms[b] # Null => b \in Covered
      /\ \A b \in Covered \ {Root} : doms[b] # Null =>
            doms[b] \in Covered /\ doms[doms[b]] # Null /\ post[doms[b]] > post[b]
  BY <1>1, NullFacts DEF TreeOK
<1>3. \A a, z : a \in Above(z) <=>
        a \in Blocks /\ \A S \in SUBSET Blocks : z \in S /\ Closed(S) => a \in S
  BY DEF Above
<1> HIDE DEF Closed
<1>4. x \in Above(x)
  BY <1>1, <1>3
<1>5. doms[x] \in Blocks
  BY <1>1, <1>2
<1>6. doms[x] \in Above(x)
  BY <1>3, <1>5 DEF Closed
<1>7. ASSUME NEW y \in Above(x) PROVE Above(y) \subseteq Above(x)
  BY <1>3, <1>7
<1>8. \A z : Above(z) \subseteq Blocks /\ Closed(Above(z))
  BY <1>3 DEF Closed
<1>9. Above(x) \subseteq {x} \cup Above(doms[x])
  <2> PICK S : S = {x} \cup Above(doms[x])
    OBVIOUS
  <2>1. doms[x] \in Above(doms[x])
    BY <1>3, <1>5
  <2>2. S \in SUBSET Blocks /\ x \in S
    BY <1>1, <1>8
  <2>3. Closed(S)
    BY <1>8, <2>1 DEF Closed
  <2> QED
    BY <1>3, <2>2, <2>3
<1>10. Above(Root) = {Root}
  <2>1. {Root} \in SUBSET Blocks /\ Closed({Root})
    BY <1>1, <1>2 DEF Closed
  <2>2. Root \in Above(Root)
    BY <1>1, <1>3
  <2>3. Above(Root) \subseteq {Root}
    <3> PICK S : S = {Root}
      OBVIOUS
    <3> QED
      BY <1>3, <2>1
  <2> QED
    BY <2>2, <2>3
<1>11. ASSUME NEW y \in Above(x) PROVE y \in Covered /\ doms[y] # Null /\ post[y] >= post[x]
  <2> DEFINE S == {z \in Covered : doms[z] # Null /\ post[z] >= post[x]}
  <2>1. x \in S /\ S \in SUBSET Blocks
    BY <1>1
  <2>2. Closed(S)
    <3> SUFFICES ASSUME NEW z \in S PROVE doms[z] \in S
      BY DEF Closed
    <3>1. CASE z = Root
      BY <1>2, <3>1
    <3>2. CASE z # Root
      <4>1. doms[z] \in Covered /\ doms[doms[z]] # Null /\ post[doms[z]] > post[z]
        BY <1>2, <3>2
      <4> QED
        BY <1>1, <4>1
    <3> QED
      BY <3>1, <3>2
  <2> HIDE DEF S
  <2>3. y \in S
    BY <1>3, <1>11, <2>1, <2>2
  <2> QED
    BY <2>3 DEF S
<1>12. Root \in Above(x)
  <2> SUFFICES ASSUME NEW S \in SUBSET Blocks, x \in S, Closed(S) PROVE Root \in S
    BY <1>1, <1>3
  <2> DEFINE T == {k \in 0 .. Cardinality(Blocks) :
                     \E z \in S : z \in Covered /\ doms[z] # Null /\ post[z] = k}
  <2>1. post[x] \in T
    BY <1>1
  <2>2. Cardinality(Blocks) \in Nat
    BY BlocksAssumption, FS_CardinalityType
  <2>3. PICK m \in T : \A k \in T : k <= m
    BY <2>1, <2>2, GreatestNat
  <2>4. PICK z \in S : z \in Covered /\ doms[z] # Null /\ post[z] = m
    BY <2>3
  <2> SUFFICES ASSUME z # Root PROVE FALSE
    BY <2>4
  <2>5. doms[z] \in Covered /\ doms[doms[z]] # Null /\ post[doms[z]] > post[z]
    BY <1>2, <2>4
  <2>6. doms[z] \in S
    BY <1>1, <2>5 DEF Closed
  <2>7. post[doms[z]] \in T
    BY <1>1, <2>2, <2>5, <2>6
  <2> QED
    BY <1>1, <2>3, <2>4, <2>5, <2>7
<1> QED
  BY <1>4, <1>6, <1>7, <1>9, <1>10, <1>11, <1>12

\* The two fingers f, a step on.
Climbed(f) ==
  IF f[1] = f[2] \/ Null \in {f[1], f[2]} THEN f
  ELSE IF post[f[1]] < post[f[2]] THEN <<doms[f[1]], f[2]>> ELSE <<f[1], doms[f[2]]>>

LEMMA ClimbsFacts ==
  ASSUME GraphOK, Walked, TreeOK, NEW x \in Blocks, NEW y \in Blocks
  PROVE  \E C : /\ C[0] = <<x, y>>
                /\ \A k \in 1 .. 2 * Cardinality(Blocks) :
                     C[k-1] \in (Blocks \cup {Null}) \X (Blocks \cup {Null})
                       => C[k] = Climbed(C[k-1])
                /\ Intersect(x, y) = LET met == C[2 * Cardinality(Blocks)]
                                     IN  IF met[1] = met[2] THEN met[1] ELSE Null
<1> DEFINE n == 2 * Cardinality(Blocks)
           F == (Blocks \cup {Null}) \X (Blocks \cup {Null})
           U == [f \in F |-> IF f[1] = f[2] \/ Null \in {f[1], f[2]} THEN f
                             ELSE IF post[f[1]] < post[f[2]] THEN <<doms[f[1]], f[2]>>
                             ELSE <<f[1], doms[f[2]]>>]
           Eq(C) == C = [k \in 0 .. n |-> IF k = 0 THEN <<x, y>> ELSE U[C[k-1]]]
           C == CHOOSE C : Eq(C)
           g == [k \in 1 .. n |-> U]
<1>1. n \in Nat
  BY BlocksAssumption, FS_CardinalityType
<1>2. Intersect(x, y) = LET met == C[n] IN IF met[1] = met[2] THEN met[1] ELSE Null
  BY DEF Intersect
<1>3. \A f \in F : U[f] = Climbed(f)
  BY DEF Climbed
<1>4. <<x, y>> \in F /\ \A f \in F : U[f] \in F
  <2>1. \A b \in Blocks : doms[b] \in Blocks \cup {Null}
    BY CoveredFacts DEF TreeOK
  <2>2. ASSUME NEW f \in F PROVE U[f] \in F
    <3>1. f[1] \in Blocks \cup {Null} /\ f[2] \in Blocks \cup {Null}
      OBVIOUS
    <3>2. f[1] # f[2] /\ Null \notin {f[1], f[2]} => f[1] \in Blocks /\ f[2] \in Blocks
      BY <3>1
    <3>3. Climbed(f) \in F
      BY <2>1, <3>1, <3>2 DEF Climbed
    <3> QED
      BY <1>3, <3>3
  <2>3. <<x, y>> \in F
    OBVIOUS
  <2> HIDE DEF U, F
  <2> QED
    BY <2>2, <2>3
<1> HIDE DEF U
<1>5. \E R \in [0 .. n -> F] : Iterates(n, <<x, y>>, g, R)
  <2>1. \A k \in 1 .. n : \A f \in F : g[k][f] \in F
    BY <1>4
  <2> HIDE DEF g, F, n
  <2> QED
    BY <1>1, <1>4, <2>1, Iteration
<1>6. PICK R \in [0 .. n -> F] : Iterates(n, <<x, y>>, g, R)
  BY <1>5
<1>7. Eq(R)
  <2>1. \A k \in 1 .. n : g[k] = U
    OBVIOUS
  <2>2. \A k \in 0 .. n : k # 0 => k \in 1 .. n
    BY <1>1
  <2> HIDE DEF g, F
  <2> QED
    BY <1>6, <2>1, <2>2 DEF Iterates
<1>8. Eq(C)
  <2> HIDE DEF Eq
  <2> QED
    BY <1>7
<1> HIDE DEF C, F
<1>9. C[0] = <<x, y>>
  BY <1>1, <1>8
<1>10. \A k \in 1 .. n : C[k-1] \in F => C[k] = Climbed(C[k-1])
  BY <1>1, <1>3, <1>8
<1> QED
  BY <1>2, <1>9, <1>10 DEF F

\* The block where two known blocks meet is above both, and so is over it who is over both.
LEMMA MeetFacts ==
  ASSUME GraphOK, Walked, TreeOK,
         NEW x \in Covered, doms[x] # Null, NEW y \in Covered, doms[y] # Null
  PROVE  /\ Intersect(x, y) \in Above(x) /\ Intersect(x, y) \in Above(y)
         /\ \A d \in Covered : Dominates(d, x) /\ Dominates(d, y) => Dominates(d, Intersect(x, y))
<1> DEFINE n == 2 * Cardinality(Blocks)
           F == (Blocks \cup {Null}) \X (Blocks \cup {Null})
<1>1. n \in Nat /\ Cardinality(Blocks) \in Nat
  BY BlocksAssumption, FS_CardinalityType
<1>2. /\ Covered \subseteq Blocks /\ Root \in Covered
      /\ \A b \in Covered : post[b] \in Nat /\ post[b] < Cardinality(Blocks)
      /\ \A a, b \in Covered : post[a] = post[b] => a = b
      /\ \A b \in Covered \ {Root} : post[b] < post[Root]
      /\ \A a, b \in Covered : Dominates(a, b) /\ a # b => post[a] > post[b]
  <2>1. Numbered /\ Range(order) = Covered
    BY DEF Walked
  <2>2. Len(order) \in Nat /\ Len(order) <= Cardinality(Blocks) - 1
        /\ \A b \in Covered : post[b] \in 0 .. Len(order) - 1
    BY <2>1, NumberedFacts
  <2>3. \A b \in Covered : post[b] \in Nat /\ post[b] < Cardinality(Blocks)
    BY <1>1, <2>2
  <2> QED
    BY <2>3, WalkedFacts
<1>3. PICK C : /\ C[0] = <<x, y>>
               /\ \A k \in 1 .. n : C[k-1] \in F => C[k] = Climbed(C[k-1])
               /\ Intersect(x, y) = LET met == C[n] IN IF met[1] = met[2] THEN met[1] ELSE Null
  BY <1>2, ClimbsFacts
<1>4. /\ \A y1 \in Above(x) : y1 \in Covered /\ doms[y1] # Null
      /\ \A y1 \in Above(y) : y1 \in Covered /\ doms[y1] # Null
      /\ x \in Above(x) /\ y \in Above(y)
  BY AboveFacts
<1>5. \A b \in Covered : doms[b] # Null => doms[b] \in Above(b)
  BY AboveFacts
<1>6. /\ \A b \in Above(x) : Above(b) \subseteq Above(x)
      /\ \A b \in Above(y) : Above(b) \subseteq Above(y)
  BY AboveFacts
<1>7. \A b \in Covered \ {Root} : doms[b] # Null =>
        /\ post[doms[b]] > post[b] /\ doms[b] \in Covered
        /\ \A d \in Covered : Dominates(d, b) /\ d # b => Dominates(d, doms[b])
  BY DEF TreeOK
<1> DEFINE Good(p, q, k) ==
             /\ p \in Above(x) /\ q \in Above(y)
             /\ \A d \in Covered : Dominates(d, x) /\ Dominates(d, y)
                                     => Dominates(d, p) /\ Dominates(d, q)
             /\ p = q \/ post[p] + post[q] >= k
           T == {k \in 0 .. n : \E p, q : C[k] = <<p, q>> /\ Good(p, q, k)}
<1>8. 0 \in T
  <2>1. Good(x, y, 0)
    BY <1>2, <1>4
  <2> HIDE DEF Good
  <2> QED
    BY <1>1, <1>3, <2>1
<1>9. ASSUME NEW k \in 1 .. n, k - 1 \in T PROVE k \in T
  <2>1. PICK p, q : C[k-1] = <<p, q>> /\ Good(p, q, k - 1)
    BY <1>9
  <2>2. p \in Covered /\ q \in Covered /\ doms[p] # Null /\ doms[q] # Null
    BY <1>4, <2>1
  <2>3. p \in Blocks /\ q \in Blocks /\ p # Null /\ q # Null
    BY <1>2, <2>2, NullFacts
  <2>4. C[k] = Climbed(<<p, q>>)
    BY <1>3, <2>1, <2>3
  <2>5. CASE p = q
    <3>1. C[k] = <<p, q>>
      BY <2>4, <2>5 DEF Climbed
    <3>2. Good(p, q, k)
      BY <2>1, <2>5
    <3> HIDE DEF Good
    <3> QED
      BY <1>1, <3>1, <3>2
  <2>6. CASE p # q /\ post[p] < post[q]
    <3>1. C[k] = <<doms[p], q>>
      BY <2>3, <2>4, <2>6 DEF Climbed
    <3>2. p # Root
      BY <1>2, <2>2, <2>6
    <3>3. doms[p] \in Above(x) /\ post[doms[p]] > post[p] /\ doms[p] \in Covered
      BY <1>5, <1>6, <1>7, <2>1, <2>2, <3>2
    <3>4. ASSUME NEW d \in Covered, Dominates(d, x), Dominates(d, y)
          PROVE  Dominates(d, doms[p]) /\ Dominates(d, q)
      <4>1. Dominates(d, p) /\ Dominates(d, q)
        BY <2>1, <3>4
      <4>2. d # p
        BY <1>2, <2>2, <2>6, <4>1
      <4> QED
        BY <1>7, <2>2, <3>2, <4>1, <4>2
    <3>5. post[doms[p]] + post[q] >= k
      <4>1. post[p] + post[q] >= k - 1
        BY <2>1, <2>6
      <4> QED
        BY <1>1, <1>2, <2>2, <3>3, <4>1
    <3>6. Good(doms[p], q, k)
      BY <2>1, <3>3, <3>4, <3>5
    <3> HIDE DEF Good
    <3> QED
      BY <1>1, <3>1, <3>6
  <2>7. CASE p # q /\ ~(post[p] < post[q])
    <3>1. C[k] = <<p, doms[q]>>
      BY <2>3, <2>4, <2>7 DEF Climbed
    <3>2. post[q] < post[p]
      BY <1>2, <2>2, <2>7
    <3>3. q # Root
      BY <1>2, <2>2, <3>2
    <3>4. doms[q] \in Above(y) /\ post[doms[q]] > post[q] /\ doms[q] \in Covered
      BY <1>5, <1>6, <1>7, <2>1, <2>2, <3>3
    <3>5. ASSUME NEW d \in Covered, Dominates(d, x), Dominates(d, y)
          PROVE  Dominates(d, p) /\ Dominates(d, doms[q])
      <4>1. Dominates(d, p) /\ Dominates(d, q)
        BY <2>1, <3>5
      <4>2. d # q
        BY <1>2, <2>2, <3>2, <4>1
      <4> QED
        BY <1>7, <2>2, <3>3, <4>1, <4>2
    <3>6. post[p] + post[doms[q]] >= k
      <4>1. post[p] + post[q] >= k - 1
        BY <2>1, <2>7
      <4> QED
        BY <1>1, <1>2, <2>2, <3>4, <4>1
    <3>7. Good(p, doms[q], k)
      BY <2>1, <3>4, <3>5, <3>6
    <3> HIDE DEF Good
    <3> QED
      BY <1>1, <3>1, <3>7
  <2> QED
    BY <2>5, <2>6, <2>7
<1> HIDE DEF T
<1>10. n \in T
  BY <1>1, <1>8, <1>9, UpToInduction
<1>11. PICK p, q : C[n] = <<p, q>> /\ Good(p, q, n)
  BY <1>10 DEF T
<1>12. p = q
  <2> SUFFICES ASSUME post[p] + post[q] >= n PROVE FALSE
    BY <1>11
  <2>1. p \in Covered /\ q \in Covered
    BY <1>4, <1>11
  <2> QED
    BY <1>1, <1>2, <2>1
<1>13. Intersect(x, y) = p
  BY <1>3, <1>11, <1>12
<1> QED
  BY <1>11, <1>12, <1>13

\* The merge of b starts with a known way in. It passes over another one only if that is the root.
LEMMA FirstFacts ==
  ASSUME GraphOK, Walked, TreeOK, NEW b \in Covered \ {Root},
         NEW p0 \in Blocks, b \in Forward(p0), Usable(b, p0)
  PROVE  LET f == FirstIn(b)
         IN  /\ f.bb \in Covered /\ Usable(b, f.bb) /\ b \in Forward(f.bb) /\ f.next \in Nat
             /\ RootIsIn(b) => f.bb = Root
             /\ \/ f.bb = Root
                \/ \A j \in 1 .. Len(In(b)) :
                     Usable(b, In(b)[j]) => In(b)[j] = f.bb \/ j >= f.next
<1> PICK in, n : in = In(b) /\ n = Len(in)
  OBVIOUS
<1>1. /\ b \in Blocks \ {Root, OtherRoot} /\ Root \in Blocks /\ Root \in Covered
      /\ \A p \in Blocks : p # Null
      /\ doms[Root] = Root /\ \A p \in Blocks : doms[p] # Null => p \in Covered
  BY CoveredFacts, EdgeFacts, NullFacts DEF TreeOK
<1>2. \A p \in Blocks : b \in Forward(p) <=> p \in Range(in) \/ (p = Root /\ RootIsIn(b))
  BY <1>1, EdgeFacts
<1>3. /\ in \in Seq(Blocks) /\ n \in Nat
      /\ \A j \in 1 .. n : in[j] \in Blocks /\ in[j] \in Range(in)
      /\ \A x \in Range(in) : \E j \in 1 .. n : in[j] = x
  <2>1. in \in Seq(Blocks)
    BY <1>1, EdgeFacts
  <2> QED
    BY <2>1, RangeFacts, LenProperties
<1>4. Usable(b, Root)
  BY <1>1 DEF Usable
<1> DEFINE start == IF RootIsIn(b) \/ in = <<>> THEN Root ELSE in[1]
           usable == {k \in 2 .. n : Usable(b, in[k])}
           j == IF Usable(b, start) THEN 1
                ELSE IF usable = {} THEN n ELSE CHOOSE k \in usable : \A l \in usable : k <= l
           p == IF j = 1 \/ in = <<>> THEN start ELSE in[j]
<1>5. FirstIn(b) = [bb |-> IF dir = "pdom" /\ doms[p] = Null THEN Root ELSE p, next |-> j + 1]
  BY DEF FirstIn
<1>6. CASE RootIsIn(b)
  <2>1. start = Root
    BY <1>6
  <2>2. j = 1 /\ p = Root
    BY <1>4, <2>1
  <2>3. FirstIn(b) = [bb |-> Root, next |-> 2]
    <3> HIDE DEF j, p
    <3> QED
      BY <1>5, <2>2
  <2> QED
    BY <1>1, <1>2, <1>4, <1>6, <2>3
<1>7. CASE ~RootIsIn(b)
  <2>1. PICK k \in 1 .. n : in[k] = p0
    BY <1>2, <1>3, <1>7
  <2>2. in # <<>>
    BY <1>3, <2>1, EmptyFacts
  <2>3. start = in[1] /\ 1 \in 1 .. n
    BY <1>3, <1>7, <2>1, <2>2
  <2>4. /\ j \in 1 .. n /\ Usable(b, in[j])
        /\ \A l \in 1 .. n : Usable(b, in[l]) => l = j \/ l >= j + 1
    <3>1. CASE Usable(b, in[1])
      <4>1. j = 1
        BY <2>3, <3>1
      <4> HIDE DEF j
      <4> QED
        BY <1>3, <2>3, <3>1, <4>1
    <3>2. CASE ~Usable(b, in[1])
      <4>1. k # 1
        BY <2>1, <3>2
      <4>2. k \in 2 .. n
        BY <2>1, <4>1
      <4>3. k \in usable
        BY <2>1, <4>2
      <4>4. usable \subseteq Nat
        OBVIOUS
      <4>5. \E m \in usable : \A l \in usable : m <= l
        <5> HIDE DEF usable
        <5> QED
          BY <4>3, <4>4, LeastNat
      <4>6. j = CHOOSE m \in usable : \A l \in usable : m <= l
        BY <2>3, <3>2, <4>3
      <4>7. j \in usable /\ \A l \in usable : j <= l
        <5> HIDE DEF usable, j
        <5> QED
          BY <4>5, <4>6
      <4> HIDE DEF j
      <4>8. \A l \in 1 .. n : l = 1 \/ l \in 2 .. n
        OBVIOUS
      <4>9. j \in 2 .. n /\ Usable(b, in[j])
        BY <4>7
      <4>10. ASSUME NEW l \in 1 .. n, Usable(b, in[l]) PROVE l = j \/ l >= j + 1
        <5>1. l \in usable
          BY <3>2, <4>8, <4>10
        <5>2. j <= l
          BY <4>7, <5>1
        <5> HIDE DEF usable
        <5> QED
          BY <4>9, <5>2
      <4> QED
        BY <4>9, <4>10
    <3> QED
      BY <3>1, <3>2
  <2> HIDE DEF j
  <2>5. p = in[j]
    BY <2>2, <2>3
  <2>6. FirstIn(b) = [bb |-> in[j], next |-> j + 1]
    BY <1>5, <2>4, <2>5 DEF Usable
  <2>7. in[j] \in Blocks /\ in[j] \in Covered /\ b \in Forward(in[j])
    BY <1>1, <1>2, <1>3, <2>4 DEF Usable
  <2>8. j + 1 \in Nat
    BY <2>4
  <2> HIDE DEF p
  <2> QED
    BY <1>7, <2>4, <2>6, <2>7, <2>8
<1> QED
  BY <1>6, <1>7

\* The new entry of b is above every known way into b, and who is strictly over b is over it.
LEMMA NewIdomFacts ==
  ASSUME GraphOK, Walked, TreeOK, NEW b \in Covered \ {Root},
         NEW p0 \in Blocks, b \in Forward(p0), Usable(b, p0)
  PROVE  /\ \A p \in Blocks : b \in Forward(p) /\ Usable(b, p) => NewIdom(b) \in Above(p)
         /\ \A d \in Covered : Dominates(d, b) /\ d # b => Dominates(d, NewIdom(b))
<1> PICK in, n, f : in = In(b) /\ n = Len(in) /\ f = FirstIn(b)
  OBVIOUS
<1>1. /\ f.bb \in Covered /\ Usable(b, f.bb) /\ b \in Forward(f.bb) /\ f.next \in Nat
      /\ RootIsIn(b) => f.bb = Root
      /\ f.bb = Root \/ \A j \in 1 .. n : Usable(b, in[j]) => in[j] = f.bb \/ j >= f.next
  BY FirstFacts
<1>2. /\ b \in Blocks \ {Root, OtherRoot} /\ Covered \subseteq Blocks
      /\ \A p \in Blocks : doms[p] # Null => p \in Covered
  BY CoveredFacts, EdgeFacts DEF TreeOK
<1>3. \A p \in Blocks : b \in Forward(p) <=> p \in Range(in) \/ (p = Root /\ RootIsIn(b))
  BY <1>2, EdgeFacts
<1>4. /\ n \in Nat
      /\ \A j \in 1 .. n : in[j] \in Blocks /\ in[j] \in Range(in)
      /\ \A x \in Range(in) : \E j \in 1 .. n : in[j] = x
  <2>1. in \in Seq(Blocks)
    BY <1>2, EdgeFacts
  <2> QED
    BY <2>1, RangeFacts, LenProperties
<1> DEFINE Known == {x \in Covered : doms[x] # Null}
           Eq(M) == M = [j \in 0 .. n |->
                           IF j = 0 THEN f.bb
                           ELSE IF j >= f.next /\ Usable(b, in[j]) THEN Intersect(in[j], M[j-1])
                           ELSE M[j-1]]
           M == CHOOSE M : Eq(M)
           g == [j \in 1 .. n |-> [t \in Known |->
                   IF j >= f.next /\ Usable(b, in[j]) THEN Intersect(in[j], t) ELSE t]]
<1>5. NewIdom(b) = M[n]
  BY DEF NewIdom
<1>6. \A x \in Known, y \in Known :
        /\ Intersect(x, y) \in Above(x) /\ Intersect(x, y) \in Above(y)
        /\ \A d \in Covered : Dominates(d, x) /\ Dominates(d, y) => Dominates(d, Intersect(x, y))
        /\ Intersect(x, y) \in Known
  <2> SUFFICES ASSUME NEW x \in Known, NEW y \in Known
               PROVE  /\ Intersect(x, y) \in Above(x) /\ Intersect(x, y) \in Above(y)
                      /\ \A d \in Covered : Dominates(d, x) /\ Dominates(d, y)
                                              => Dominates(d, Intersect(x, y))
                      /\ Intersect(x, y) \in Known
    OBVIOUS
  <2>1. /\ Intersect(x, y) \in Above(x) /\ Intersect(x, y) \in Above(y)
        /\ \A d \in Covered : Dominates(d, x) /\ Dominates(d, y) => Dominates(d, Intersect(x, y))
    BY MeetFacts
  <2>2. \A z \in Above(x) : z \in Known
    BY AboveFacts
  <2> QED
    BY <2>1, <2>2
<1>7. \A j \in 1 .. n : Usable(b, in[j]) => in[j] \in Known /\ b \in Forward(in[j])
  BY <1>2, <1>3, <1>4 DEF Usable
<1>8. f.bb \in Known
  BY <1>1 DEF Usable
<1>9. \A j \in 1 .. n : \A t \in Known : g[j][t] \in Known
  BY <1>6, <1>7
<1>10. \E R \in [0 .. n -> Known] : Iterates(n, f.bb, g, R)
  <2> HIDE DEF Known, g
  <2> QED
    BY <1>4, <1>8, <1>9, Iteration
<1>11. PICK R \in [0 .. n -> Known] : Iterates(n, f.bb, g, R)
  BY <1>10
<1>12. Eq(R)
  <2>1. ASSUME NEW j \in 0 .. n
        PROVE  (IF j = 0 THEN f.bb ELSE g[j][R[j-1]])
               = IF j = 0 THEN f.bb
                 ELSE IF j >= f.next /\ Usable(b, in[j]) THEN Intersect(in[j], R[j-1])
                 ELSE R[j-1]
    <3>1. j # 0 => j \in 1 .. n /\ j - 1 \in 0 .. n
      BY <1>4
    <3>2. j # 0 => R[j-1] \in Known
      BY <1>11, <3>1
    <3> HIDE DEF Known
    <3> QED
      BY <3>1, <3>2
  <2> HIDE DEF g, Known
  <2> QED
    BY <1>11, <2>1 DEF Iterates
<1>13. Eq(M)
  <2> HIDE DEF Eq
  <2> QED
    BY <1>12
<1> HIDE DEF M
<1>14. /\ M[0] = f.bb
       /\ \A j \in 1 .. n : M[j] = IF j >= f.next /\ Usable(b, in[j])
                                   THEN Intersect(in[j], M[j-1]) ELSE M[j-1]
  BY <1>4, <1>13
<1>15. /\ \A x \in Known : x \in Above(x)
       /\ \A x \in Known : \A y \in Above(x) : Above(y) \subseteq Above(x)
       /\ \A x \in Known : Root \in Above(x)
       /\ Above(Root) = {Root}
  BY <1>1, AboveFacts DEF Usable
<1>16. \A p : b \in Forward(p) => \A d : Dominates(d, b) /\ d # b => Dominates(d, p)
  BY DominatesFacts
<1> DEFINE V == {j \in 0 .. n :
                  /\ M[j] \in Known /\ M[j] \in Above(f.bb)
                  /\ \A d \in Covered : Dominates(d, b) /\ d # b => Dominates(d, M[j])
                  /\ \A i \in 1 .. j : i >= f.next /\ Usable(b, in[i]) => M[j] \in Above(in[i])}
<1>17. 0 \in V
  BY <1>1, <1>4, <1>8, <1>14, <1>15, <1>16
<1>18. ASSUME NEW j \in 1 .. n, j - 1 \in V PROVE j \in V
  <2> PICK y, z : y = M[j-1] /\ z = M[j]
    OBVIOUS
  <2>1. /\ y \in Known /\ y \in Above(f.bb)
        /\ \A d \in Covered : Dominates(d, b) /\ d # b => Dominates(d, y)
        /\ \A i \in 1 .. j - 1 : i >= f.next /\ Usable(b, in[i]) => y \in Above(in[i])
    BY <1>18
  <2>2. \A i \in 1 .. j : i = j \/ i \in 1 .. j - 1
    OBVIOUS
  <2>3. \A i \in 1 .. j : i \in 1 .. n
    OBVIOUS
  <2>4. j \in 0 .. n
    OBVIOUS
  <2> HIDE DEF V
  <2>5. CASE j >= f.next /\ Usable(b, in[j])
    <3>1. z = Intersect(in[j], y)
      BY <1>14, <2>5
    <3>2. in[j] \in Known /\ b \in Forward(in[j])
      BY <1>7, <2>5
    <3>3. /\ z \in Known /\ z \in Above(in[j]) /\ z \in Above(y)
          /\ \A d \in Covered : Dominates(d, in[j]) /\ Dominates(d, y) => Dominates(d, z)
      BY <1>6, <2>1, <3>1, <3>2
    <3>4. z \in Above(f.bb)
      BY <1>8, <1>15, <2>1, <3>3
    <3>5. \A d \in Covered : Dominates(d, b) /\ d # b => Dominates(d, z)
      BY <1>16, <2>1, <3>2, <3>3
    <3>6. ASSUME NEW i \in 1 .. j, i >= f.next, Usable(b, in[i]) PROVE z \in Above(in[i])
      <4>1. in[i] \in Known
        BY <1>7, <2>3, <3>6
      <4> QED
        BY <1>15, <2>1, <2>2, <3>3, <3>6, <4>1
    <3> HIDE DEF Known
    <3> QED
      BY <2>4, <3>3, <3>4, <3>5, <3>6 DEF V
  <2>6. CASE ~(j >= f.next /\ Usable(b, in[j]))
    <3>1. z = y
      BY <1>14, <2>6
    <3>2. \A i \in 1 .. j : i >= f.next /\ Usable(b, in[i]) => z \in Above(in[i])
      BY <2>1, <2>2, <2>6, <3>1
    <3> HIDE DEF Known
    <3> QED
      BY <2>1, <2>4, <3>1, <3>2 DEF V
  <2> QED
    BY <2>5, <2>6
<1> HIDE DEF V
<1>19. n \in V
  <2>1. \A j \in 1 .. n : j - 1 \in V => j \in V
    BY <1>18
  <2>2. 0 .. n \subseteq V
    BY ONLY <1>4, <1>17, <2>1, UpToInduction
  <2> QED
    BY <1>4, <2>2
<1> PICK z : z = NewIdom(b)
  OBVIOUS
<1>20. /\ z \in Known /\ z \in Above(f.bb)
       /\ \A d \in Covered : Dominates(d, b) /\ d # b => Dominates(d, z)
       /\ \A i \in 1 .. n : i >= f.next /\ Usable(b, in[i]) => z \in Above(in[i])
  BY <1>5, <1>19 DEF V
<1>21. ASSUME NEW p \in Blocks, b \in Forward(p), Usable(b, p) PROVE z \in Above(p)
  <2>1. p \in Known
    BY <1>2, <1>21 DEF Usable
  <2>2. CASE f.bb = Root
    BY <1>15, <1>20, <2>1, <2>2
  <2>3. CASE f.bb # Root
    <3>1. p \in Range(in)
      BY <1>1, <1>3, <1>21, <2>3
    <3>2. PICK j \in 1 .. n : in[j] = p
      BY <1>4, <3>1
    <3>3. p = f.bb \/ j >= f.next
      BY <1>1, <1>21, <2>3, <3>2
    <3> QED
      BY <1>20, <1>21, <3>2, <3>3
  <2> QED
    BY <2>2, <2>3
<1> QED
  BY <1>20, <1>21

\* Every known way into b leads down from the entry of b.
Entered(b) == \A p \in Blocks : b \in Forward(p) /\ Usable(b, p) => doms[b] \in Above(p)

\* A pass has reached pos.  What it has not changed is settled for the tree as it is.
LoopInv ==
  /\ Walked /\ TreeOK
  /\ pos \in 2 .. Len(order) + 1
  /\ \A i \in 1 .. pos - 1 : doms[order[i]] # Null
  /\ ~changed => \A i \in 2 .. pos - 1 : Entered(order[i])

\* The tree is built.
Settled ==
  /\ Walked /\ TreeOK
  /\ \A b \in Covered : doms[b] # Null
  /\ \A b \in Covered \ {Root} : \A p \in Covered : b \in Forward(p) => doms[b] \in Above(p)

LEMMA SameTree ==
  ASSUME UNCHANGED <<graph, dir, post, order, doms>>
  PROVE  /\ Walked' <=> Walked
         /\ TreeOK' <=> TreeOK
         /\ Settled' <=> Settled
         /\ \A b : Above(b)' = Above(b) /\ (Entered(b)' <=> Entered(b))
<1>1. /\ Root' = Root /\ OtherRoot' = OtherRoot
      /\ \A b : Forward(b)' = Forward(b)
      /\ Covered' = Covered /\ \A a, b : Dominates(a, b)' <=> Dominates(a, b)
  BY SameGraph
<1>2. Numbered' <=> Numbered
  BY <1>1 DEF Numbered
<1>3. Walked' <=> Walked
  BY <1>1, <1>2 DEF Walked
<1>4. TreeOK' <=> TreeOK
  BY <1>1 DEF TreeOK
<1>5. \A b : Above(b)' = Above(b)
  BY DEF Above
<1>6. \A b, p : Usable(b, p)' <=> Usable(b, p)
  BY DEF Usable
<1>7. \A b : Entered(b)' <=> Entered(b)
  BY <1>1, <1>5, <1>6 DEF Entered
<1> QED
  BY <1>1, <1>3, <1>4, <1>5, <1>7 DEF Settled

LEMMA LoopStarts ==
  ASSUME GraphOK, WalkInv, GenPostOrderID
  PROVE  LoopInv'
<1>1. /\ stack = <<>> /\ UNCHANGED <<graph, dir, post, order>>
      /\ doms' = [b \in Blocks |-> IF b = Root THEN Root ELSE Null] /\ pos' = 2
  BY DEF GenPostOrderID
<1>2. Walked
  BY <1>1, WalkEnds
<1>3. /\ Root' = Root /\ OtherRoot' = OtherRoot
      /\ \A b : Forward(b)' = Forward(b)
      /\ Covered' = Covered /\ \A a, b : Dominates(a, b)' <=> Dominates(a, b)
  BY <1>1, SameGraph
<1>4. Walked'
  BY <1>1, <1>2, <1>3 DEF Walked, Numbered
<1>5. Root \in Covered /\ Covered \subseteq Blocks /\ Root # Null
  BY CoveredFacts, NullFacts
<1>6. TreeOK'
  BY <1>1, <1>3, <1>5 DEF TreeOK
<1>7. Len(order) >= 1 /\ order[1] = Root /\ Len(order) \in Nat
  BY <1>2, NumberedFacts DEF Walked
<1>8. pos' \in 2 .. Len(order') + 1
  BY <1>1, <1>7
<1>9. \A i \in 1 .. pos' - 1 : i = 1
  BY <1>1
<1>10. \A i \in 1 .. pos' - 1 : doms'[order'[i]] # Null
  BY <1>1, <1>5, <1>7, <1>9
<1>11. 2 .. pos' - 1 = {}
  BY <1>1
<1> QED
  BY <1>4, <1>6, <1>8, <1>10, <1>11 DEF LoopInv

LEMMA LoopSteps ==
  ASSUME GraphOK, LoopInv, ComputeDominance
  PROVE  LoopInv'
<1> PICK b, z, n : b = order[pos] /\ z = NewIdom(b) /\ n = Len(order)
  OBVIOUS
<1>1. /\ pos <= n /\ UNCHANGED <<graph, dir, post, order>> /\ pos' = pos + 1
      /\ doms' = [doms EXCEPT ![b] = z] /\ changed' = (changed \/ doms[b] # z)
  BY DEF ComputeDominance
<1>2. /\ Walked /\ TreeOK /\ pos \in 2 .. n + 1
      /\ \A i \in 1 .. pos - 1 : doms[order[i]] # Null
      /\ ~changed => \A i \in 2 .. pos - 1 : Entered(order[i])
  BY DEF LoopInv
<1>3. /\ Numbered /\ Distinct(order) /\ order[1] = Root /\ Range(order) = Covered
      /\ order \in Seq(Blocks \ {OtherRoot})
      /\ \A i \in 2 .. n : \E j \in 1 .. i - 1 : order[i] \in Forward(order[j])
  BY <1>2 DEF Walked, Numbered
<1>4. n \in Nat /\ \A i, j \in 1 .. n : post[order[i]] > post[order[j]] <=> i < j
  BY <1>3, NumberedFacts
<1>5. \A i \in 1 .. n : order[i] \in Covered
  BY <1>3, RangeFacts
<1>6. pos \in 2 .. n /\ pos \in 1 .. n /\ pos # 1 /\ 1 \in 1 .. n
  BY <1>1, <1>2, <1>4
<1>7. b \in Covered \ {Root}
  BY <1>3, <1>5, <1>6 DEF Distinct
<1>8. Covered \subseteq Blocks /\ Root \in Covered /\ \A p \in Blocks : p # Null
  BY CoveredFacts, NullFacts
<1>9. PICK j \in 1 .. pos - 1 : b \in Forward(order[j])
  BY <1>3, <1>6
<1>10. j \in 1 .. n /\ j < pos
  BY <1>4, <1>6
<1> PICK p0 : p0 = order[j]
  OBVIOUS
<1>11. p0 \in Covered /\ doms[p0] # Null /\ p0 # b /\ post[p0] > post[b]
  BY <1>2, <1>3, <1>4, <1>5, <1>6, <1>9, <1>10 DEF Distinct
<1>12. /\ \A p \in Blocks : b \in Forward(p) /\ Usable(b, p) => z \in Above(p)
       /\ \A d \in Covered : Dominates(d, b) /\ d # b => Dominates(d, z)
       /\ z \in Above(p0)
  <2>1. p0 \in Blocks /\ b \in Forward(p0) /\ Usable(b, p0)
    BY <1>8, <1>9, <1>11 DEF Usable
  <2> QED
    BY <1>2, <1>7, <2>1, NewIdomFacts
<1>13. z \in Covered /\ doms[z] # Null /\ post[z] > post[b]
  <2>1. z \in Covered /\ doms[z] # Null /\ post[z] >= post[p0]
    BY <1>2, <1>11, <1>12, AboveFacts
  <2>2. post[z] \in Nat /\ post[p0] \in Nat /\ post[b] \in Nat
    BY <1>2, <1>7, <1>11, <2>1, WalkedFacts
  <2> QED
    BY <1>11, <2>1, <2>2
<1>14. /\ Root' = Root /\ OtherRoot' = OtherRoot
       /\ \A x : Forward(x)' = Forward(x)
       /\ Covered' = Covered /\ \A x, y : Dominates(x, y)' <=> Dominates(x, y)
  BY <1>1, SameGraph
<1>15. Walked'
  BY <1>1, <1>2, <1>14 DEF Walked, Numbered
<1>16. /\ doms \in [Blocks -> Covered \cup {Null}]
       /\ doms'[b] = z /\ z # Null /\ \A x \in Blocks : x # b => doms'[x] = doms[x]
       /\ doms' \in [Blocks -> Covered \cup {Null}]
  <2>1. doms \in [Blocks -> Covered \cup {Null}]
    BY <1>2 DEF TreeOK
  <2> QED
    BY <1>1, <1>7, <1>8, <1>13, <2>1
<1>17. TreeOK'
  <2>1. doms'[Root] = Root
    BY <1>2, <1>7, <1>8, <1>16 DEF TreeOK
  <2>2. \A x \in Blocks : doms'[x] # Null => x \in Covered
    BY <1>2, <1>7, <1>16 DEF TreeOK
  <2>3. \A x \in Blocks : doms[x] # Null => doms'[x] # Null
    BY <1>16
  <2>4. ASSUME NEW c \in Covered \ {Root}, doms'[c] # Null
        PROVE  /\ doms'[c] \in Covered /\ doms'[doms'[c]] # Null /\ post[doms'[c]] > post[c]
               /\ \A d \in Covered : Dominates(d, c) /\ d # c => Dominates(d, doms'[c])
    <3>1. CASE c = b
      BY <1>8, <1>12, <1>13, <1>16, <2>3, <3>1
    <3>2. CASE c # b
      <4>1. doms'[c] = doms[c]
        BY <1>8, <1>16, <3>2
      <4>2. /\ doms[c] \in Covered /\ doms[doms[c]] # Null /\ post[doms[c]] > post[c]
            /\ \A d \in Covered : Dominates(d, c) /\ d # c => Dominates(d, doms[c])
        BY <1>2, <2>4, <4>1 DEF TreeOK
      <4> QED
        BY <1>8, <2>3, <4>1, <4>2
    <3> QED
      BY <3>1, <3>2
  <2> QED
    BY <1>1, <1>14, <1>16, <2>1, <2>2, <2>4 DEF TreeOK
<1>18. \A i \in 1 .. pos' - 1 : i = pos \/ i \in 1 .. pos - 1
  BY <1>1, <1>6
<1>19. pos' \in 2 .. n + 1
  BY <1>1, <1>4, <1>6
<1>20. \A i \in 1 .. pos' - 1 : doms'[order'[i]] # Null
  <2>1. \A i \in 1 .. pos - 1 : order[i] \in Blocks
    <3>1. \A i \in 1 .. pos - 1 : i \in 1 .. n
      BY <1>4, <1>6
    <3> QED
      BY <1>5, <1>8, <3>1
  <2> QED
    BY <1>1, <1>2, <1>16, <1>18, <2>1
<1>21. ASSUME ~changed', NEW i \in 2 .. pos' - 1 PROVE Entered(order[i])'
  <2>1. doms[b] = z /\ ~changed
    BY <1>1, <1>21
  <2>2. doms' = doms
    BY <1>1, <1>16, <2>1
  <2>3. \A x : Entered(x)' <=> Entered(x)
    BY <1>1, <2>2, SameTree
  <2>4. i = pos \/ i \in 2 .. pos - 1
    BY <1>1, <1>6
  <2>5. Entered(b)
    BY <1>12, <2>1 DEF Entered
  <2>6. Entered(order[i])
    BY <1>2, <2>1, <2>4, <2>5
  <2> PICK c : c = order[i]
    OBVIOUS
  <2>7. Entered(c)' /\ order'[i] = c
    BY <1>1, <2>3, <2>6
  <2> QED
    BY <2>7 DEF Entered, Usable
<1>22. ~changed' => (\A i \in 2 .. pos - 1 : Entered(order[i]))'
  BY <1>21
<1> QED
  BY <1>1, <1>15, <1>17, <1>19, <1>20, <1>22 DEF LoopInv

\* A pass that changed nothing settles the tree.
LEMMA LoopEnds ==
  ASSUME GraphOK, LoopInv, NextPass
  PROVE  IF pc' = "iterate" THEN LoopInv' ELSE Settled' /\ pc' = "frontier" /\ pos' = 1
<1> PICK n : n = Len(order)
  OBVIOUS
<1>1. /\ pos > n /\ UNCHANGED <<graph, dir, post, order, doms>> /\ pc = "iterate"
      /\ IF changed THEN pos' = 2 /\ changed' = FALSE /\ UNCHANGED pc
                    ELSE pc' = "frontier" /\ pos' = 1 /\ UNCHANGED changed
  BY DEF NextPass
<1>2. /\ Walked /\ TreeOK /\ pos \in 2 .. n + 1
      /\ \A i \in 1 .. pos - 1 : doms[order[i]] # Null
      /\ ~changed => \A i \in 2 .. pos - 1 : Entered(order[i])
  BY DEF LoopInv
<1>3. /\ Numbered /\ order[1] = Root /\ Range(order) = Covered /\ n >= 1
      /\ order \in Seq(Blocks \ {OtherRoot})
  BY <1>2 DEF Walked, Numbered
<1>4. n \in Nat /\ \A x \in Covered : \E i \in 1 .. n : order[i] = x
  BY <1>3, NumberedFacts, RangeFacts
<1>5. Walked' /\ TreeOK' /\ (Settled' <=> Settled)
  BY <1>1, <1>2, SameTree
<1>6. pos = n + 1
  BY <1>1, <1>2, <1>4
<1>7. CASE changed
  <2>1. \A i \in 1 .. pos' - 1 : i = 1
    BY <1>1, <1>7
  <2>2. \A i \in 1 .. pos' - 1 : doms'[order'[i]] # Null
    <3>1. 1 \in 1 .. pos - 1
      BY <1>2
    <3> QED
      BY <1>1, <1>2, <2>1, <3>1
  <2>3. 2 .. pos' - 1 = {}
    BY <1>1, <1>7
  <2>4. pos' \in 2 .. Len(order') + 1
    BY <1>1, <1>3, <1>4, <1>7
  <2>5. LoopInv'
    BY <1>5, <2>2, <2>3, <2>4 DEF LoopInv
  <2> QED
    BY <1>1, <1>7, <2>5
<1>8. CASE ~changed
  <2>1. \A i \in 1 .. n : i \in 1 .. pos - 1
    BY <1>6
  <2>2. \A b \in Covered : doms[b] # Null
    BY <1>2, <1>4, <2>1
  <2>3. ASSUME NEW b \in Covered \ {Root}, NEW p \in Covered, b \in Forward(p)
        PROVE  doms[b] \in Above(p)
    <3>1. PICK i \in 1 .. n : order[i] = b
      BY <1>4
    <3>2. i # 1
      BY <1>3, <3>1
    <3>3. i \in 2 .. pos - 1
      BY <1>6, <3>2
    <3>4. Entered(b)
      BY <1>2, <1>8, <3>1, <3>3
    <3>5. CASE p = b
      BY <1>2, <2>2, <3>5, AboveFacts
    <3>6. CASE p # b
      BY <2>2, <2>3, <3>4, <3>6, CoveredFacts DEF Entered, Usable
    <3> QED
      BY <3>5, <3>6
  <2>4. Settled
    BY <1>2, <2>2, <2>3 DEF Settled
  <2> QED
    BY <1>1, <1>5, <1>8, <2>4
<1> QED
  BY <1>7, <1>8

\* The settled tree is the one of the definition.
LEMMA SettledFacts ==
  ASSUME GraphOK, Settled
  PROVE  /\ \A a, b \in Covered : Dominates(a, b) <=> a \in Above(b)
         /\ \A b \in Covered \ {Root} :
              /\ doms[b] \in Covered /\ doms[b] # b /\ post[doms[b]] > post[b]
              /\ \A a \in Covered : Dominates(a, b) <=> a = b \/ Dominates(a, doms[b])
         /\ doms[Root] = Root
         /\ \A b \in Blocks \ Covered : doms[b] = Null
         /\ \A b \in Covered : doms[b] # Null
<1>1. /\ Walked /\ TreeOK
      /\ \A b \in Covered : doms[b] # Null
      /\ \A b \in Covered \ {Root} : \A p \in Covered : b \in Forward(p) => doms[b] \in Above(p)
  BY DEF Settled
<1>2. /\ doms \in [Blocks -> Covered \cup {Null}] /\ doms[Root] = Root
      /\ \A b \in Blocks : doms[b] # Null => b \in Covered
      /\ \A b \in Covered \ {Root} :
           /\ doms[b] \in Covered /\ post[doms[b]] > post[b]
           /\ \A d \in Covered : Dominates(d, b) /\ d # b => Dominates(d, doms[b])
  BY <1>1 DEF TreeOK
<1>3. /\ Covered \subseteq Blocks \ {OtherRoot} /\ Root \in Covered
      /\ \A x \in Covered : Forward(x) \subseteq Covered \cup {OtherRoot}
      /\ Forward(OtherRoot) = {} /\ \A b \in Blocks : Root \notin Forward(b)
      /\ OtherRoot \in Blocks
  BY CoveredFacts, EdgeFacts
<1>4. /\ \A b \in Covered : b \in Above(b) /\ Root \in Above(b) /\ doms[b] \in Above(b)
      /\ \A b \in Covered : \A y \in Above(b) : Above(y) \subseteq Above(b) /\ y \in Covered
      /\ \A b \in Covered : Above(b) \subseteq {b} \cup Above(doms[b])
      /\ Above(Root) = {Root}
  <2>1. ASSUME NEW b \in Covered
        PROVE  /\ b \in Above(b) /\ Root \in Above(b) /\ doms[b] \in Above(b)
               /\ \A y \in Above(b) : Above(y) \subseteq Above(b) /\ y \in Covered
               /\ Above(b) \subseteq {b} \cup Above(doms[b])
               /\ Above(Root) = {Root}
    BY <1>1, AboveFacts
  <2> QED
    BY <1>3, <2>1
<1>5. \A b \in Covered \ {Root} : doms[b] # b
  <2>1. ASSUME NEW b \in Covered \ {Root}, doms[b] = b PROVE FALSE
    <3>1. post[b] > post[b] /\ post[b] \in Nat
      BY <1>1, <1>2, <2>1, WalkedFacts
    <3> QED
      BY <3>1
  <2> QED
    BY <2>1
<1>6. \A a, z : a \in Above(z) <=>
        a \in Blocks /\ \A S \in SUBSET Blocks :
                           z \in S /\ (\A y \in S : doms[y] \in Blocks => doms[y] \in S) => a \in S
  BY DEF Above
<1>7. ASSUME NEW a \in Covered, NEW b \in Covered, Dominates(a, b) PROVE a \in Above(b)
  <2> SUFFICES ASSUME NEW S \in SUBSET Blocks, b \in S, a \notin S,
                      \A y \in S : doms[y] \in Blocks => doms[y] \in S
               PROVE  FALSE
    BY <1>3, <1>6
  <2> PICK X : X = {y \in S : y \in Covered /\ Dominates(a, y)}
    OBVIOUS
  <2>1. X \in SUBSET Blocks /\ b \in X
    BY <1>7
  <2>2. ASSUME NEW y \in X, doms[y] \in Blocks PROVE doms[y] \in X
    <3>1. y \in S /\ y \in Covered /\ Dominates(a, y) /\ y # a
      BY <2>2
    <3>2. CASE y = Root
      BY <1>2, <2>2, <3>2
    <3>3. CASE y # Root
      <4>1. doms[y] \in Covered /\ Dominates(a, doms[y])
        BY <1>2, <3>1, <3>3
      <4> QED
        BY <2>2, <3>1, <4>1
    <3> QED
      BY <3>2, <3>3
  <2>3. Root \in X
    BY <1>4, <1>6, <2>1, <2>2
  <2>4. a = Root
    BY <2>3, DominatesFacts
  <2> QED
    BY <2>3, <2>4
<1>8. ASSUME NEW b \in Covered \ {Root} PROVE Dominates(doms[b], b)
  <2> PICK e : e = doms[b]
    OBVIOUS
  <2> PICK r : r = ReachesFrom({Root}, e)
    OBVIOUS
  <2> SUFFICES b \notin r
    BY DEF Dominates
  <2>1. e \in Covered /\ e # b /\ e \in Above(b)
    BY <1>2, <1>4, <1>5
  <2> SUFFICES ASSUME b \in r PROVE FALSE
    OBVIOUS
  <2> PICK X : X = {x \in Covered : e \notin Above(x)} \cup {OtherRoot}
    OBVIOUS
  <2>2. e # Root => Root \in X
    BY <1>3, <1>4
  <2>3. ASSUME NEW x \in X \cap Blocks, NEW y \in Forward(x) \ {e} PROVE y \in X
    <3>1. x \in Covered /\ e \notin Above(x)
      BY <1>3, <2>3
    <3>2. CASE y = OtherRoot
      BY <3>2
    <3>3. CASE y # OtherRoot
      <4>1. y \in Covered /\ y # Root
        BY <1>3, <2>3, <3>1, <3>3
      <4>2. doms[y] \in Above(x)
        BY <1>1, <2>3, <3>1, <4>1
      <4>3. Above(y) \subseteq {y} \cup Above(x)
        BY <1>4, <3>1, <4>1, <4>2
      <4>4. e \notin Above(y)
        BY <2>3, <3>1, <4>3
      <4> QED
        BY <4>1, <4>4
    <3> QED
      BY <3>2, <3>3
  <2>4. r \subseteq X
    <3>1. \A x \in X \cap Blocks : Forward(x) \ {e} \subseteq X
      BY <2>3
    <3>2. \A Y : /\ e # Root => Root \in Y
                 /\ \A x \in Y \cap Blocks : Forward(x) \ {e} \subseteq Y
                 => r \subseteq Y
      BY ReachFacts
    <3> QED
      BY ONLY <2>2, <3>1, <3>2
  <2> QED
    BY <1>3, <2>1, <2>4
<1>9. ASSUME NEW a \in Covered, NEW b \in Covered, a \in Above(b) PROVE Dominates(a, b)
  <2> PICK X : X = {y \in Covered : Dominates(y, b)}
    OBVIOUS
  <2>1. X \in SUBSET Blocks /\ b \in X
    BY <1>3, DominatesFacts
  <2>2. ASSUME NEW y \in X PROVE doms[y] \in X
    <3>1. CASE y = Root
      BY <1>2, <2>2, <3>1
    <3>2. CASE y # Root
      <4>1. doms[y] \in Covered /\ Dominates(doms[y], y) /\ Dominates(y, b)
        BY <1>2, <1>8, <2>2, <3>2
      <4> QED
        BY <4>1, DominatesFacts
    <3> QED
      BY <3>1, <3>2
  <2>3. a \in X
    BY <1>6, <1>9, <2>1, <2>2
  <2> QED
    BY <2>3
<1>10. ASSUME NEW b \in Covered \ {Root}, NEW a \in Covered
       PROVE  Dominates(a, b) <=> a = b \/ Dominates(a, doms[b])
  <2>1. Dominates(a, b) => a = b \/ Dominates(a, doms[b])
    BY <1>2
  <2>2. a = b \/ Dominates(a, doms[b]) => Dominates(a, b)
    BY <1>8, DominatesFacts
  <2> QED
    BY <2>1, <2>2
<1>11. \A b \in Blocks \ Covered : doms[b] = Null
  BY <1>2
<1>12. \A a, b \in Covered : Dominates(a, b) <=> a \in Above(b)
  BY <1>7, <1>9
<1> QED
  BY <1>1, <1>2, <1>5, <1>10, <1>11, <1>12

-----------------------------------------------------------------------------
(* The frontiers. *)

\* The runner of RunnerPath, step by step.
LEMMA RunnerFacts ==
  ASSUME GraphOK, Settled, NEW f \in Blocks, NEW p \in Blocks
  PROVE  \E C :
           /\ C[0] = p
           /\ \A k \in 1 .. Cardinality(Blocks) : C[k-1] \in Blocks \cup {Null} =>
                C[k] = IF C[k-1] \in {doms[f], Root, Null} THEN C[k-1] ELSE doms[C[k-1]]
           /\ RunnerPath(f, p) = {C[k] : k \in 0 .. Cardinality(Blocks)} \ {doms[f], Root}
<1> PICK n, T : n = Cardinality(Blocks) /\ T = Blocks \cup {Null}
  OBVIOUS
<1> DEFINE U == [r \in Blocks \cup {Null} |-> IF r \in {doms[f], Root, Null} THEN r ELSE doms[r]]
           Eq(C) == C = [k \in 0 .. n |-> IF k = 0 THEN p ELSE U[C[k-1]]]
           C == CHOOSE C : Eq(C)
           g == [k \in 1 .. n |-> U]
<1>1. n \in Nat
  BY BlocksAssumption, FS_CardinalityType
<1>2. RunnerPath(f, p) = {C[k] : k \in 0 .. n} \ {doms[f], Root}
  BY DEF RunnerPath
<1>3. p \in T /\ \A r \in T : U[r] \in T /\ U[r] = IF r \in {doms[f], Root, Null} THEN r ELSE doms[r]
  BY CoveredFacts DEF Settled, TreeOK
<1> HIDE DEF U
<1>4. \E R \in [0 .. n -> T] : Iterates(n, p, g, R)
  <2>1. \A k \in 1 .. n : \A t \in T : g[k][t] \in T
    BY <1>3
  <2> HIDE DEF g
  <2> QED
    BY <1>1, <1>3, <2>1, Iteration
<1>5. PICK R \in [0 .. n -> T] : Iterates(n, p, g, R)
  BY <1>4
<1>6. Eq(R)
  <2>1. \A k \in 1 .. n : g[k] = U
    OBVIOUS
  <2>2. \A k \in 0 .. n : k # 0 => k \in 1 .. n
    BY <1>1
  <2> HIDE DEF g
  <2> QED
    BY <1>5, <2>1, <2>2 DEF Iterates
<1>7. Eq(C)
  <2> HIDE DEF Eq
  <2> QED
    BY <1>6
<1> HIDE DEF C
<1>8. C[0] = p /\ \A k \in 1 .. n : C[k] = U[C[k-1]]
  BY <1>1, <1>7
<1> QED
  BY <1>2, <1>3, <1>8

\* From a way into f the runner passes what is over that way and not over the entry of f; from
\* a block that is not covered it finds no block of the tree.
LEMMA PathFacts ==
  ASSUME GraphOK, Settled, NEW f \in Blocks, NEW p \in Blocks
  PROVE  /\ p \notin Covered => RunnerPath(f, p) \subseteq {p, Null}
         /\ p \in Covered /\ f \in Covered \ {Root} /\ f \in Forward(p) =>
              \A a \in Covered :
                a \in RunnerPath(f, p) <=> Dominates(a, p) /\ ~Dominates(a, doms[f])
<1> PICK n, e : n = Cardinality(Blocks) /\ e = doms[f]
  OBVIOUS
<1>1. n \in Nat
  BY BlocksAssumption, FS_CardinalityType
<1>2. PICK C : /\ C[0] = p
               /\ \A k \in 1 .. n : C[k-1] \in Blocks \cup {Null} =>
                    C[k] = IF C[k-1] \in {e, Root, Null} THEN C[k-1] ELSE doms[C[k-1]]
               /\ RunnerPath(f, p) = {C[k] : k \in 0 .. n} \ {e, Root}
  BY RunnerFacts
<1>3. /\ Covered \subseteq Blocks /\ Root \in Covered
      /\ \A x \in Blocks : x # Null
  BY CoveredFacts, NullFacts
<1>4. /\ \A a, b \in Covered : Dominates(a, b) <=> a \in Above(b)
      /\ \A b \in Covered \ {Root} :
           doms[b] \in Covered /\ doms[b] # b /\ post[doms[b]] > post[b]
      /\ doms[Root] = Root
      /\ \A b \in Blocks \ Covered : doms[b] = Null
  BY SettledFacts
<1>5. CASE p \notin Covered
  <2> DEFINE V == {k \in 0 .. n : C[k] \in {p, Null}}
  <2>1. 0 \in V
    BY <1>1, <1>2
  <2>2. ASSUME NEW k \in 1 .. n, k - 1 \in V PROVE k \in V
    BY <1>2, <1>4, <1>5, <2>2
  <2> HIDE DEF V
  <2>3. 0 .. n \subseteq V
    BY <1>1, <2>1, <2>2, UpToInduction
  <2> QED
    BY <1>2, <1>5, <2>3 DEF V
<1>6. CASE p \in Covered /\ f \in Covered \ {Root} /\ f \in Forward(p)
  <2>1. /\ Walked /\ TreeOK /\ \A b \in Covered : doms[b] # Null
        /\ e \in Above(p)
    BY <1>6 DEF Settled
  <2>2. /\ \A b \in Covered : b \in Above(b) /\ Root \in Above(b) /\ doms[b] \in Above(b)
        /\ \A b \in Covered : \A y \in Above(b) : Above(y) \subseteq Above(b) /\ y \in Covered
        /\ \A b \in Covered : Above(b) \subseteq {b} \cup Above(doms[b])
    BY <2>1, AboveFacts
  <2>3. /\ \A b \in Covered : post[b] \in Nat /\ post[b] < n
        /\ \A a, b \in Covered : Dominates(a, b) /\ a # b => post[a] > post[b]
    <3>1. Numbered /\ Range(order) = Covered
      BY <2>1 DEF Walked
    <3>2. Len(order) \in Nat /\ Len(order) <= n - 1
          /\ \A b \in Covered : post[b] \in 0 .. Len(order) - 1
      BY <3>1, NumberedFacts
    <3>3. \A b \in Covered : post[b] \in Nat /\ post[b] < n
      BY <1>1, <3>2
    <3> QED
      BY <2>1, <3>3, WalkedFacts
  <2>4. e \in Covered
    BY <1>4, <1>6
  <2> DEFINE V == {k \in 0 .. n : /\ C[k] \in Above(p) /\ e \in Above(C[k])
                                  /\ C[k] \in {e, Root} \/ post[C[k]] >= k}
  <2>5. 0 \in V
    BY <1>1, <1>2, <1>6, <2>1, <2>2, <2>3
  <2>6. ASSUME NEW k \in 1 .. n, k - 1 \in V PROVE k \in V
    <3> PICK r : r = C[k-1]
      OBVIOUS
    <3>1. r \in Above(p) /\ e \in Above(r) /\ (r \in {e, Root} \/ post[r] >= k - 1)
      BY <2>6
    <3> HIDE DEF V
    <3>2. r \in Covered
      BY <1>6, <2>2, <3>1
    <3>3. C[k] = IF r \in {e, Root} THEN r ELSE doms[r]
      BY <1>2, <1>3, <3>2
    <3>4. CASE r \in {e, Root}
      BY <1>1, <3>1, <3>3, <3>4 DEF V
    <3>5. CASE r \notin {e, Root}
      <4>1. C[k] = doms[r] /\ doms[r] \in Covered /\ post[doms[r]] > post[r] /\ post[r] >= k - 1
        BY <1>4, <3>1, <3>2, <3>3, <3>5
      <4>2. doms[r] \in Above(p) /\ e \in Above(doms[r])
        BY <1>6, <2>2, <3>1, <3>2, <3>5
      <4>3. post[doms[r]] >= k
        BY <1>1, <2>3, <3>2, <4>1
      <4> QED
        BY <1>1, <4>1, <4>2, <4>3 DEF V
    <3> QED
      BY <3>4, <3>5
  <2> HIDE DEF V
  <2>7. 0 .. n \subseteq V
    BY <1>1, <2>5, <2>6, UpToInduction
  <2>8. \A k \in 0 .. n : /\ C[k] \in Above(p) /\ C[k] \in Covered /\ e \in Above(C[k])
                          /\ C[k] \in {e, Root} \/ post[C[k]] >= k
    BY <1>6, <2>2, <2>7 DEF V
  <2>9. ASSUME NEW a \in Covered, a \in RunnerPath(f, p)
        PROVE  Dominates(a, p) /\ ~Dominates(a, e)
    <3>1. PICK k \in 0 .. n : a = C[k] /\ a # e
      BY <1>2, <2>9
    <3>2. a \in Above(p) /\ e \in Above(a)
      BY <2>8, <3>1
    <3>3. Dominates(a, p) /\ Dominates(e, a)
      BY <1>4, <1>6, <2>4, <3>2
    <3>4. post[e] > post[a] /\ post[e] \in Nat /\ post[a] \in Nat
      BY <2>3, <2>4, <3>1, <3>3
    <3>5. Dominates(a, e) => post[a] > post[e]
      BY <2>3, <2>4, <3>1
    <3> QED
      BY <3>3, <3>4, <3>5
  <2>10. ASSUME NEW a \in Covered, Dominates(a, p), ~Dominates(a, e)
         PROVE  a \in RunnerPath(f, p)
    <3>1. a \in Above(p) /\ a \notin Above(e)
      BY <1>4, <1>6, <2>4, <2>10
    <3>2. a # e /\ a # Root
      BY <2>2, <2>4, <3>1
    <3> PICK S : S = {C[k] : k \in 0 .. n} \cup Above(e)
      OBVIOUS
    <3>3. p \in S /\ S \in SUBSET Blocks
      BY <1>1, <1>2, <1>3, <2>2, <2>4, <2>8
    <3>4. ASSUME NEW y \in S PROVE doms[y] \in S
      <4>1. CASE y \in Above(e)
        <5>1. doms[y] \in Above(y) /\ Above(y) \subseteq Above(e)
          BY <2>2, <2>4, <4>1
        <5> QED
          BY <5>1
      <4>2. CASE y \notin Above(e)
        <5>1. PICK k \in 0 .. n : y = C[k]
          BY <3>4, <4>2
        <5>2. y \notin {e, Root} /\ y \in Covered /\ post[y] >= k
          BY <2>2, <2>4, <2>8, <4>2, <5>1
        <5>3. k + 1 \in 1 .. n /\ (k + 1) - 1 = k
          BY <1>1, <2>3, <5>2
        <5>4. C[k + 1] = doms[y]
          BY <1>2, <1>3, <5>1, <5>2, <5>3
        <5>5. k + 1 \in 0 .. n
          BY <5>3
        <5> QED
          BY <5>4, <5>5
      <4> QED
        BY <4>1, <4>2
    <3>5. a \in S
      BY <3>1, <3>3, <3>4 DEF Above
    <3> QED
      BY <1>2, <3>1, <3>2, <3>5
  <2> QED
    BY <1>6, <2>9, <2>10
<1> QED
  BY <1>5, <1>6

\* Where there is a single way into f it is the entry of f.
LEMMA OneWayIn ==
  ASSUME GraphOK, Settled, NEW f \in Covered \ {Root}, NEW p \in Blocks,
         \A x \in Blocks : f \in Forward(x) => x = p
  PROVE  p \in Covered /\ doms[f] = p
<1>1. /\ Walked /\ TreeOK /\ \A b \in Covered : doms[b] # Null
      /\ Covered \subseteq Blocks /\ Root \in Covered /\ Root \in Blocks
  BY CoveredFacts DEF Settled
<1>2. /\ Numbered /\ order[1] = Root /\ Range(order) = Covered
      /\ order \in Seq(Blocks \ {OtherRoot}) /\ Distinct(order)
      /\ \A i \in 2 .. Len(order) : \E j \in 1 .. i - 1 : order[i] \in Forward(order[j])
  BY <1>1 DEF Walked, Numbered
<1>3. /\ Len(order) \in Nat
      /\ \A i \in 1 .. Len(order) : order[i] \in Covered
      /\ \A x \in Covered : \E i \in 1 .. Len(order) : order[i] = x
  BY <1>2, NumberedFacts, RangeFacts
<1>4. p \in Covered /\ p # f
  <2>1. PICK i \in 1 .. Len(order) : order[i] = f
    BY <1>3
  <2>2. i \in 2 .. Len(order)
    <3>1. i # 1
      BY <1>2, <2>1
    <3> QED
      BY <1>3, <3>1
  <2>3. PICK j \in 1 .. i - 1 : order[i] \in Forward(order[j])
    BY <1>2, <2>2
  <2>4. j \in 1 .. Len(order) /\ j # i
    BY <1>3, <2>2
  <2>5. order[j] \in Covered /\ order[j] # f
    BY <1>2, <1>3, <2>1, <2>4 DEF Distinct
  <2> QED
    BY <1>1, <2>1, <2>3, <2>5
<1>5. Dominates(p, f)
  <2> PICK r : r = ReachesFrom({Root}, p)
    OBVIOUS
  <2>1. /\ r \subseteq Blocks \ {p} /\ (p # Root => Root \in r)
        /\ \A x \in r : Forward(x) \ {p} \subseteq r
        /\ \A Y : /\ p # Root => Root \in Y
                  /\ \A x \in Y \cap Blocks : Forward(x) \ {p} \subseteq Y
                  => r \subseteq Y
    BY ReachFacts
  <2> PICK X : X = r \ {f}
    OBVIOUS
  <2>2. p # Root => Root \in X
    BY <2>1
  <2>3. ASSUME NEW x \in X \cap Blocks PROVE Forward(x) \ {p} \subseteq X
    BY <2>1, <2>3
  <2>4. r \subseteq X
    BY <2>1, <2>2, <2>3
  <2> QED
    BY <2>4 DEF Dominates
<1>6. ASSUME doms[f] # p PROVE FALSE
  <2> PICK e : e = doms[f]
    OBVIOUS
  <2>1. e \in Covered /\ Dominates(e, f) /\ e # f /\ Dominates(p, e)
    BY <1>4, <1>5, SettledFacts, DominatesFacts
  <2>2. f \in Forward(p)
    <3> SUFFICES ASSUME \A x \in Blocks : f \notin Forward(x) PROVE FALSE
      OBVIOUS
    <3>1. PICK i \in 1 .. Len(order) : order[i] = f
      BY <1>3
    <3>2. i \in 2 .. Len(order)
      <4>1. i # 1
        BY <1>2, <3>1
      <4> QED
        BY <1>3, <4>1
    <3>3. PICK j \in 1 .. i - 1 : order[i] \in Forward(order[j])
      BY <1>2, <3>2
    <3>4. j \in 1 .. Len(order)
      BY <1>3, <3>2
    <3> QED
      BY <1>1, <1>3, <3>1, <3>3, <3>4
  <2>3. Dominates(e, p)
    BY <2>1, <2>2, DominatesFacts
  <2>4. post[e] > post[p] /\ post[p] > post[e] /\ post[e] \in Nat /\ post[p] \in Nat
    BY <1>1, <1>4, <1>6, <2>1, <2>3, WalkedFacts
  <2> QED
    BY <2>4
<1> QED
  BY <1>4, <1>6

\* The runners that pass a covered block are those of the frontiers, but for what is left out.
LEMMA RunnersFacts ==
  ASSUME GraphOK, Settled, NEW b \in Covered, NEW f \in Blocks
  PROVE  b \in Runners(f) <=> f \in Covered \ LeftOut /\ InFrontier(b, f, Covered)
<1> PICK in, n, e : in = In(f) /\ n = Len(in) /\ e = doms[f]
  OBVIOUS
<1>1. /\ Covered \subseteq Blocks \ {OtherRoot} /\ Root \in Covered /\ Null \notin Blocks
      /\ \A x \in Covered : Forward(x) \subseteq Covered \cup {OtherRoot}
      /\ \A x \in Blocks : Root \notin Forward(x)
      /\ In(Root) = <<>>
  BY CoveredFacts, EdgeFacts, NullFacts
<1>2. /\ in \in Seq(Blocks) /\ n \in Nat
      /\ \A j \in 1 .. n : in[j] \in Blocks /\ in[j] \in Range(in)
      /\ \A x \in Range(in) : \E j \in 1 .. n : in[j] = x
      /\ Range(in) \subseteq Blocks
  <2>1. in \in Seq(Blocks)
    BY EdgeFacts
  <2> QED
    BY <2>1, RangeFacts, LenProperties
<1>3. InFrontier(b, f, Covered) <=>
        /\ b = f \/ ~Dominates(b, f)
        /\ \E p \in Covered : f \in Forward(p) /\ Dominates(b, p)
  BY DEF InFrontier, Dominates
<1>4. f \in LeftOut <=> RootIsIn(f) /\ n = 1
  BY DEF LeftOut
<1>5. /\ f = OtherRoot \/ n < 2 => Runners(f) = {}
      /\ ~(f = OtherRoot \/ n < 2) => Runners(f) = UNION {RunnerPath(f, p) : p \in Range(in)}
  BY DEF Runners
<1>6. CASE f \in Covered \ {Root}
  <2>1. f \in Blocks \ {Root, OtherRoot} /\ f # OtherRoot
    BY <1>1, <1>6
  <2>2. \A p \in Blocks : f \in Forward(p) <=> p \in Range(in) \/ (p = Root /\ RootIsIn(f))
    BY <2>1, EdgeFacts
  <2>3. /\ e \in Covered /\ e # f /\ post[e] > post[f]
        /\ \A a \in Covered : Dominates(a, f) <=> a = f \/ Dominates(a, e)
    BY <1>6, SettledFacts
  <2>4. ~Dominates(f, e)
    <3>1. Dominates(f, e) => post[f] > post[e]
      BY <1>6, <2>3, WalkedFacts DEF Settled
    <3>2. post[f] \in Nat /\ post[e] \in Nat
      BY <1>6, <2>3, WalkedFacts DEF Settled
    <3> QED
      BY <2>3, <3>1, <3>2
  <2>5. b = f \/ ~Dominates(b, f) <=> ~Dominates(b, e)
    BY <2>3, <2>4
  <2>6. \A p \in Covered : Dominates(b, p) /\ ~Dominates(b, e) => p # Root
    <3>1. Dominates(b, Root) => b = Root
      BY DominatesFacts
    <3>2. Dominates(Root, e)
      BY DominatesFacts
    <3> QED
      BY <3>1, <3>2
  <2>7. InFrontier(b, f, Covered) <=>
          ~Dominates(b, e) /\ \E p \in Covered \cap Range(in) : Dominates(b, p)
    BY <1>1, <1>3, <2>2, <2>5, <2>6
  <2>8. CASE n >= 2
    <3>1. Runners(f) = UNION {RunnerPath(f, p) : p \in Range(in)} /\ f \notin LeftOut
      BY <1>2, <1>4, <1>5, <2>1, <2>8
    <3>2. ASSUME NEW p \in Range(in)
          PROVE  b \in RunnerPath(f, p) <=> p \in Covered /\ Dominates(b, p) /\ ~Dominates(b, e)
      <4>1. p \in Blocks /\ f \in Forward(p)
        BY <1>2, <2>2
      <4>2. CASE p \in Covered
        BY <1>6, <4>1, <4>2, PathFacts
      <4>3. CASE p \notin Covered
        <5>1. RunnerPath(f, p) \subseteq {p, Null}
          BY <4>1, <4>3, PathFacts
        <5> QED
          BY <1>1, <4>3, <5>1
      <4> QED
        BY <4>2, <4>3
    <3> QED
      BY <1>6, <2>7, <3>1, <3>2
  <2>9. CASE n < 2
    <3>1. b \notin Runners(f)
      BY <1>5, <2>9
    <3> SUFFICES ASSUME f \notin LeftOut, InFrontier(b, f, Covered) PROVE FALSE
      BY <3>1
    <3>2. PICK p \in Covered \cap Range(in) : Dominates(b, p) /\ ~Dominates(b, e)
      BY <2>7
    <3>3. n = 1 /\ p = in[1]
      BY <1>2, <2>9, <3>2
    <3>4. ~RootIsIn(f)
      BY <1>4, <3>3
    <3>5. \A x \in Blocks : f \in Forward(x) => x = p
      BY <1>2, <2>2, <3>3, <3>4
    <3>6. e = p
      BY <1>1, <1>6, <3>5, OneWayIn
    <3> QED
      BY <3>2, <3>6
  <2> QED
    BY <1>2, <2>8, <2>9
<1>7. CASE f = Root
  <2>1. n = 0
    BY <1>1, <1>7, EmptyFacts
  <2>2. b \notin Runners(f)
    BY <1>5, <2>1
  <2>3. ~InFrontier(b, f, Covered)
    BY <1>1, <1>3, <1>7
  <2> QED
    BY <2>2, <2>3
<1>8. CASE f \notin Covered
  <2> SUFFICES ASSUME b \in Runners(f) PROVE FALSE
    BY <1>8
  <2>1. f # OtherRoot /\ Runners(f) = UNION {RunnerPath(f, p) : p \in Range(in)}
    BY <1>2, <1>5
  <2>2. PICK p \in Range(in) : b \in RunnerPath(f, p)
    BY <2>1
  <2>3. f \in Forward(p) /\ p \in Blocks
    BY <1>1, <1>2, <1>8, <2>1, EdgeFacts
  <2>4. p \notin Covered
    BY <1>1, <1>8, <2>1, <2>3
  <2>5. RunnerPath(f, p) \subseteq {p, Null}
    BY <2>3, <2>4, PathFacts
  <2> QED
    BY <1>1, <2>2, <2>4, <2>5
<1> QED
  BY <1>6, <1>7, <1>8

\* The frontier of b but for what is left out.
FrontierOf(b) == {f \in Covered \ LeftOut : InFrontier(b, f, Covered)}

\* The frontiers are those of the blocks below pos.
FrontInv ==
  /\ pos \in 1 .. Cardinality(Blocks) + 1
  /\ frontier \in [Blocks -> SUBSET (Blocks \ {OtherRoot})]
  /\ \A b \in Covered : frontier[b] = FrontierOf(b) \cap 1 .. pos - 1

LEMMA SameFront ==
  ASSUME UNCHANGED <<graph, dir>>
  PROVE  \A b : FrontierOf(b)' = FrontierOf(b)
<1>1. /\ Root' = Root /\ Covered' = Covered
      /\ \A b : Out(b)' = Out(b) /\ In(b)' = In(b) /\ Forward(b)' = Forward(b)
      /\ \A b : RootIsIn(b)' <=> RootIsIn(b)
      /\ \A b : ReachesFrom({Root}, b)' = ReachesFrom({Root}, b)
  BY SameGraph
<1>2. LeftOut' = LeftOut
  BY <1>1 DEF LeftOut
<1>3. \A b, f : InFrontier(b, f, Covered)' <=> InFrontier(b, f, Covered)
  BY <1>1 DEF InFrontier
<1> QED
  BY <1>1, <1>2, <1>3 DEF FrontierOf

LEMMA FrontStarts ==
  ASSUME GraphOK, pos = 1, frontier = [b \in Blocks |-> {}]
  PROVE  FrontInv
<1>1. Cardinality(Blocks) \in Nat
  BY BlocksAssumption, FS_CardinalityType
<1>2. 1 .. pos - 1 = {} /\ pos \in 1 .. Cardinality(Blocks) + 1
  BY <1>1
<1>3. Covered \subseteq Blocks
  BY CoveredFacts
<1> QED
  BY <1>2, <1>3 DEF FrontInv

LEMMA FrontSteps ==
  ASSUME GraphOK, Settled, FrontInv, ComputeDomFrontiers, pc' # "crashed"
  PROVE  FrontInv'
<1> PICK n, f : n = Cardinality(Blocks) /\ f = pos
  OBVIOUS
<1>1. /\ f \in Blocks /\ UNCHANGED <<graph, dir, pc>> /\ pos' = f + 1
      /\ frontier' = [r \in Blocks |-> frontier[r] \cup IF r \in Runners(f) THEN {f} ELSE {}]
  BY DEF ComputeDomFrontiers
<1>2. n \in Nat /\ Blocks = 1 .. n
  BY BlocksAssumption, FS_CardinalityType
<1>3. /\ \A b : FrontierOf(b)' = FrontierOf(b)
      /\ Covered' = Covered /\ OtherRoot' = OtherRoot
  BY <1>1, SameFront, SameGraph
<1>4. Runners(f) # {} => f # OtherRoot
  BY DEF Runners
<1>5. frontier' \in [Blocks -> SUBSET (Blocks \ {OtherRoot})]
  BY <1>1, <1>4 DEF FrontInv
<1>6. ASSUME NEW b \in Covered PROVE frontier'[b] = FrontierOf(b) \cap 1 .. pos' - 1
  <2>1. b \in Blocks
    BY CoveredFacts
  <2>2. b \in Runners(f) <=> f \in FrontierOf(b)
    BY <1>1, RunnersFacts DEF FrontierOf
  <2>3. frontier[b] = FrontierOf(b) \cap 1 .. f - 1
    BY DEF FrontInv
  <2>4. \A x : x \in 1 .. pos' - 1 <=> x \in 1 .. f - 1 \/ x = f
    BY <1>1, <1>2
  <2>5. frontier'[b] = frontier[b] \cup IF b \in Runners(f) THEN {f} ELSE {}
    BY <1>1, <2>1
  <2> QED
    BY <2>2, <2>3, <2>4, <2>5
<1>7. pos' \in 1 .. n + 1
  <2>1. f \in 1 .. n
    BY <1>1, <1>2
  <2> QED
    BY <1>1, <1>2, <2>1
<1> QED
  BY <1>3, <1>5, <1>6, <1>7 DEF FrontInv

\* Every frontier is complete.
FrontsDone ==
  /\ frontier \in [Blocks -> SUBSET (Blocks \ {OtherRoot})]
  /\ \A b \in Covered : frontier[b] = FrontierOf(b)

LEMMA FrontEnds ==
  ASSUME GraphOK, FrontInv, pos \notin Blocks
  PROVE  FrontsDone
<1>1. Cardinality(Blocks) \in Nat /\ Blocks = 1 .. Cardinality(Blocks)
  BY BlocksAssumption, FS_CardinalityType
<1>2. 1 .. pos - 1 = Blocks
  BY <1>1 DEF FrontInv
<1>3. \A b : FrontierOf(b) \subseteq Blocks
  BY CoveredFacts DEF FrontierOf
<1> QED
  BY <1>2, <1>3 DEF FrontInv, FrontsDone

\* What S grows to by the union of what h gives for its members.
GrowsTo(S, h) ==
  LET F[k \in 0 .. Cardinality(Blocks)] ==
        IF k = 0 THEN S ELSE LET p == F[k-1] IN p \cup UNION {h[b] : b \in p}
  IN  F[Cardinality(Blocks)]

LEMMA SameIterated ==
  ASSUME UNCHANGED frontier
  PROVE  \A a : Iterated(a)' = Iterated(a)
<1> SUFFICES ASSUME NEW a PROVE Iterated(a)' = Iterated(a)
  OBVIOUS
<1>1. Iterated(a) = GrowsTo(frontier[a], frontier)
  BY DEF Iterated, GrowsTo
<1>2. Iterated(a)' = GrowsTo(frontier'[a], frontier')
  BY DEF Iterated, GrowsTo
<1> QED
  BY <1>1, <1>2

\* That is the least set with S that h does not leave.
LEMMA UnionClosure ==
  ASSUME NEW S \in SUBSET Blocks, NEW h \in [Blocks -> SUBSET Blocks]
  PROVE  LET c == GrowsTo(S, h)
         IN  /\ S \subseteq c /\ c \subseteq Blocks /\ \A b \in c : h[b] \subseteq c
             /\ \A X \in SUBSET Blocks :
                  S \subseteq X /\ (\A b \in X : h[b] \subseteq X) => c \subseteq X
<1> PICK c : c = GrowsTo(S, h)
  OBVIOUS
<1> DEFINE n == Cardinality(Blocks)
           T == SUBSET Blocks
           Eq(F) == F = [k \in 0 .. n |-> IF k = 0 THEN S
                                          ELSE LET p == F[k-1] IN p \cup UNION {h[b] : b \in p}]
           F == CHOOSE F : Eq(F)
           g == [t \in T |-> UNION {h[b] : b \in t}]
           i == [k \in 1 .. n |-> [t \in T |-> t \cup g[t]]]
<1>1. n \in Nat /\ IsFiniteSet(Blocks)
  BY BlocksAssumption, FS_CardinalityType
<1>2. c = F[n]
  BY DEF GrowsTo
<1>3. \A t \in T : g[t] = UNION {h[b] : b \in t}
  OBVIOUS
<1>4. S \in T /\ g \in [T -> T] /\ \A X, Y \in T : X \subseteq Y => g[X] \subseteq g[Y]
  OBVIOUS
<1>5. Eq(F)
  <2>1. \A k \in 1 .. n : \A t \in T : i[k][t] \in T /\ i[k][t] = t \cup g[t]
    BY <1>4
  <2>2. \E R \in [0 .. n -> T] : Iterates(n, S, i, R)
    <3> HIDE DEF T, i, n, g
    <3> QED
      BY <1>1, <1>4, <2>1, Iteration
  <2>3. PICK R \in [0 .. n -> T] : Iterates(n, S, i, R)
    BY <2>2
  <2> HIDE DEF i
  <2>4. ASSUME NEW k \in 0 .. n
        PROVE  (IF k = 0 THEN S ELSE i[k][R[k - 1]])
               = IF k = 0 THEN S ELSE LET p == R[k-1] IN p \cup UNION {h[b] : b \in p}
    <3>1. k # 0 => k \in 1 .. n /\ k - 1 \in 0 .. n
      BY <1>1
    <3>2. k # 0 => R[k - 1] \in T
      BY <2>3, <3>1
    <3> HIDE DEF T, g
    <3> QED
      BY <1>3, <2>1, <3>1, <3>2
  <2>5. Eq(R)
    <3> HIDE DEF g, T
    <3> QED
      BY <2>3, <2>4 DEF Iterates
  <2> HIDE DEF Eq
  <2> QED
    BY <2>5
<1> HIDE DEF F
<1>6. Grows(Blocks, S, g, F)
  <2>1. F[0] = S
    BY <1>1, <1>5
  <2>2. ASSUME NEW k \in 1 .. n, F[k-1] \in T PROVE F[k] = F[k-1] \cup g[F[k-1]]
    <3>1. F[k] = F[k-1] \cup UNION {h[b] : b \in F[k-1]}
      <4>1. k \in 0 .. n /\ k # 0
        BY <1>1
      <4> HIDE DEF n
      <4> QED
        BY <1>5, <4>1
    <3> QED
      BY <1>3, <2>2, <3>1
  <2> HIDE DEF g
  <2> QED
    BY <1>4, <2>1, <2>2 DEF Grows
<1>7. Closure(Blocks, S, g, F[n])
  <2> HIDE DEF g, Eq
  <2> QED
    BY <1>1, <1>6, ClosureFacts
<1> HIDE DEF g, Eq
<1>8. /\ S \subseteq c /\ c \subseteq Blocks /\ g[c] \subseteq c
      /\ \A X \in SUBSET Blocks : S \subseteq X /\ g[X] \subseteq X => c \subseteq X
  BY <1>2, <1>7 DEF Closure
<1>9. \A b \in c : h[b] \subseteq c
  BY <1>3, <1>8
<1>10. \A X \in T : (\A b \in X : h[b] \subseteq X) => g[X] \subseteq X
  BY <1>3
<1> QED
  BY <1>8, <1>9, <1>10

\* The least set with the frontier of a that the frontiers of its members do not leave.
LEMMA IteratedFacts ==
  ASSUME GraphOK, FrontsDone, NEW a \in Blocks
  PROVE  /\ frontier[a] \subseteq Iterated(a) /\ Iterated(a) \subseteq Blocks \ {OtherRoot}
         /\ \A b \in Iterated(a) : frontier[b] \subseteq Iterated(a)
         /\ \A X \in SUBSET Blocks :
              frontier[a] \subseteq X /\ (\A b \in X : frontier[b] \subseteq X) => Iterated(a) \subseteq X
<1> PICK S, c : S = frontier[a] /\ c = Iterated(a)
  OBVIOUS
<1>1. frontier \in [Blocks -> SUBSET Blocks] /\ \A b \in Blocks : frontier[b] \subseteq Blocks \ {OtherRoot}
  BY DEF FrontsDone
<1>2. S \in SUBSET Blocks
  BY <1>1
<1>3. c = GrowsTo(S, frontier)
  BY DEF Iterated, GrowsTo
<1>4. /\ S \subseteq c /\ c \subseteq Blocks /\ \A b \in c : frontier[b] \subseteq c
      /\ \A X \in SUBSET Blocks :
           S \subseteq X /\ (\A b \in X : frontier[b] \subseteq X) => c \subseteq X
  BY <1>1, <1>2, <1>3, UnionClosure
<1>5. c \subseteq Blocks \ {OtherRoot}
  <2> PICK X : X = Blocks \ {OtherRoot}
    OBVIOUS
  <2>1. X \in SUBSET Blocks /\ S \subseteq X /\ \A b \in X : frontier[b] \subseteq X
    BY <1>1
  <2> QED
    BY <1>4, <2>1
<1> QED
  BY <1>4, <1>5

\* The iterations of the blocks below pos are those of the definition.
IterInv ==
  /\ FrontsDone
  /\ pos \in 1 .. Cardinality(Blocks) + 1
  /\ iterated \in [Blocks -> SUBSET Blocks]
  /\ \A b \in 1 .. pos - 1 : b # OtherRoot => iterated[b] = Iterated(b)

\* What is iterated already may stand for what it is the iteration of.
LEMMA IterFrontierFacts ==
  ASSUME GraphOK, IterInv, pos \in Blocks
  PROVE  IterFrontier(pos) = Iterated(pos)
<1> PICK a, c, I : a = pos /\ c = IterFrontier(a) /\ I = Iterated(a)
  OBVIOUS
<1> DEFINE h == [f \in Blocks |-> IF f < a THEN iterated[f] ELSE frontier[f]]
<1>1. /\ FrontsDone /\ a \in Blocks /\ Blocks = 1 .. Cardinality(Blocks) /\ Cardinality(Blocks) \in Nat
      /\ iterated \in [Blocks -> SUBSET Blocks]
      /\ \A b \in 1 .. a - 1 : b # OtherRoot => iterated[b] = Iterated(b)
      /\ frontier \in [Blocks -> SUBSET (Blocks \ {OtherRoot})]
  BY BlocksAssumption, FS_CardinalityType DEF IterInv, FrontsDone
<1>2. h \in [Blocks -> SUBSET Blocks] /\ frontier[a] \in SUBSET Blocks
  BY <1>1
<1> PICK S, g : S = frontier[a] /\ g = h
  OBVIOUS
<1>3. c = GrowsTo(S, g)
  BY DEF IterFrontier, GrowsTo
<1>4. S \in SUBSET Blocks /\ g \in [Blocks -> SUBSET Blocks]
  BY <1>2
<1>5. /\ S \subseteq c /\ c \subseteq Blocks /\ \A b \in c : g[b] \subseteq c
      /\ \A X \in SUBSET Blocks :
           S \subseteq X /\ (\A b \in X : g[b] \subseteq X) => c \subseteq X
  BY ONLY <1>3, <1>4, UnionClosure
<1>6. /\ S \subseteq I /\ I \subseteq Blocks \ {OtherRoot} /\ \A b \in I : frontier[b] \subseteq I
      /\ \A X \in SUBSET Blocks :
           S \subseteq X /\ (\A b \in X : frontier[b] \subseteq X) => I \subseteq X
  BY <1>1, IteratedFacts
\* What g gives for a block is what the frontiers give for it in some rounds.
<1>7. ASSUME NEW f \in Blocks, f # OtherRoot
      PROVE  /\ frontier[f] \subseteq g[f] /\ g[f] \subseteq Blocks \ {OtherRoot}
             /\ \A X \in SUBSET Blocks :
                  f \in X /\ (\A b \in X : frontier[b] \subseteq X) => g[f] \subseteq X
  <2>1. CASE f < a
    <3>1. f \in 1 .. a - 1
      BY <1>1, <2>1
    <3>2. g[f] = Iterated(f)
      BY <1>1, <1>7, <2>1, <3>1
    <3> PICK d : d = Iterated(f)
      OBVIOUS
    <3>3. /\ frontier[f] \subseteq d /\ d \subseteq Blocks \ {OtherRoot}
          /\ \A X \in SUBSET Blocks :
               frontier[f] \subseteq X /\ (\A b \in X : frontier[b] \subseteq X) => d \subseteq X
      BY <1>1, IteratedFacts
    <3>4. ASSUME NEW X \in SUBSET Blocks, f \in X, \A b \in X : frontier[b] \subseteq X
          PROVE  d \subseteq X
      BY <3>3, <3>4
    <3> HIDE DEF h
    <3> QED
      BY <3>2, <3>3, <3>4
  <2>2. CASE ~(f < a)
    <3>1. g[f] = frontier[f]
      BY <2>2
    <3> QED
      BY <1>1, <3>1
  <2> QED
    BY <2>1, <2>2
<1> HIDE DEF h
<1>8. c \subseteq I
  <2>1. I \in SUBSET Blocks /\ \A b \in I : g[b] \subseteq I
    BY <1>6, <1>7
  <2> QED
    BY <1>5, <1>6, <2>1
<1>9. c \subseteq Blocks \ {OtherRoot}
  BY <1>6, <1>8
<1>10. I \subseteq c
  <2>1. \A b \in c : frontier[b] \subseteq c
    BY <1>5, <1>7, <1>9
  <2> QED
    BY <1>5, <1>6, <2>1
<1> QED
  BY <1>8, <1>10

LEMMA IterStarts ==
  ASSUME GraphOK, FrontsDone, pos = 1, iterated \in [Blocks -> SUBSET Blocks]
  PROVE  IterInv
<1>1. Cardinality(Blocks) \in Nat
  BY BlocksAssumption, FS_CardinalityType
<1>2. 1 .. pos - 1 = {} /\ pos \in 1 .. Cardinality(Blocks) + 1
  BY <1>1
<1> QED
  BY <1>2 DEF IterInv

LEMMA SameFronts ==
  ASSUME UNCHANGED <<graph, dir, frontier>>, FrontsDone
  PROVE  FrontsDone'
<1>1. /\ Covered' = Covered /\ OtherRoot' = OtherRoot
      /\ \A b : FrontierOf(b)' = FrontierOf(b)
  BY SameGraph, SameFront
<1> QED
  BY <1>1 DEF FrontsDone

LEMMA IterSteps ==
  ASSUME GraphOK, IterInv, ComputeIterDomFrontiers
  PROVE  IterInv'
<1> PICK n, a : n = Cardinality(Blocks) /\ a = pos
  OBVIOUS
<1>1. /\ a \in Blocks /\ UNCHANGED <<graph, dir, frontier>> /\ pos' = a + 1
      /\ iterated' = [iterated EXCEPT ![a] = IF a = OtherRoot THEN {} ELSE IterFrontier(a)]
  BY DEF ComputeIterDomFrontiers
<1>2. n \in Nat /\ Blocks = 1 .. n
  BY BlocksAssumption, FS_CardinalityType
<1>3. /\ FrontsDone /\ iterated \in [Blocks -> SUBSET Blocks]
      /\ \A b \in 1 .. a - 1 : b # OtherRoot => iterated[b] = Iterated(b)
  BY DEF IterInv
<1>4. FrontsDone' /\ OtherRoot' = OtherRoot
  BY <1>1, <1>3, SameFronts, SameGraph
<1>5. IterFrontier(a) = Iterated(a) /\ Iterated(a) \subseteq Blocks
  BY <1>1, <1>3, IterFrontierFacts, IteratedFacts
<1>6. iterated' \in [Blocks -> SUBSET Blocks]
  BY <1>1, <1>3, <1>5
<1>7. ASSUME NEW b \in 1 .. pos' - 1, b # OtherRoot PROVE iterated'[b] = Iterated(b)'
  <2>1. b \in Blocks /\ (b = a \/ (b # a /\ b \in 1 .. a - 1))
    <3>0. a \in 1 .. n
      BY <1>1, <1>2
    <3>1. a \in 1 .. n /\ pos' - 1 = a
      BY <1>1, <1>2, <3>0
    <3>2. b \in 1 .. n /\ (b = a \/ (b # a /\ b \in 1 .. a - 1))
      BY <1>2, <3>1
    <3> QED
      BY <1>2, <3>2
  <2>2. Iterated(b)' = Iterated(b)
    BY <1>1, SameIterated
  <2> QED
    BY <1>1, <1>3, <1>5, <1>7, <2>1, <2>2
<1>8. pos' \in 1 .. n + 1
  <2>1. a \in 1 .. n
    BY <1>1, <1>2
  <2> QED
    BY <1>1, <1>2, <2>1
<1> QED
  BY <1>4, <1>6, <1>7, <1>8 DEF IterInv

-----------------------------------------------------------------------------
(* The preorder. *)

\* The pairs of a block and one that it is over.
Over == {ab \in Covered \X Covered : Dominates(ab[1], ab[2])}

LEMMA OverFacts ==
  /\ \A a, b \in Covered : <<a, b>> \in Over <=> Dominates(a, b)
  /\ UNCHANGED <<graph, dir>> => Over' = Over
<1>1. \A a, b \in Covered : <<a, b>> \in Over <=> Dominates(a, b)
  BY DEF Over
<1>2. ASSUME UNCHANGED <<graph, dir>> PROVE Over' = Over
  <2>1. Covered' = Covered /\ \A a, b : Dominates(a, b)' <=> Dominates(a, b)
    BY <1>2, SameGraph
  <2>2. Over' = {ab \in Covered \X Covered : Dominates(ab[1], ab[2])'}
    BY <2>1 DEF Over
  <2>3. \A ab \in Covered \X Covered : Dominates(ab[1], ab[2])' <=> Dominates(ab[1], ab[2])
    BY <2>1
  <2>4. {ab \in Covered \X Covered : Dominates(ab[1], ab[2])'} = Over
    BY <2>3 DEF Over
  <2> QED
    BY <2>2, <2>4
<1> QED
  BY <1>1, <1>2

\* preorder holds whole ways down from the root, and stack the blocks just below them: what is
\* under a block of preorder comes right after it, in stack before anything else.
PreInv ==
  /\ preorder \in Seq(Covered) /\ stack \in Seq(Covered)
  /\ Distinct(preorder) /\ Distinct(stack) /\ Range(preorder) \cap Range(stack) = {}
  /\ Root \in Range(preorder) \cup Range(stack)
  /\ \A c \in Covered \ {Root} :
       doms[c] \in Range(preorder) <=> c \in Range(preorder) \cup Range(stack)
  /\ \A x \in 1 .. Len(preorder) : \A a \in Covered :
       <<a, preorder[x]>> \in Over => \E i \in 1 .. x : preorder[i] = a
  /\ \A i, x \in 1 .. Len(preorder) : \A y \in i .. x :
       <<preorder[i], preorder[x]>> \in Over => <<preorder[i], preorder[y]>> \in Over
  /\ \A i \in 1 .. Len(preorder) : \A k \in 1 .. Len(stack) :
       <<preorder[i], stack[k]>> \in Over =>
         /\ \A y \in i .. Len(preorder) : <<preorder[i], preorder[y]>> \in Over
         /\ \A l \in 1 .. k : <<preorder[i], stack[l]>> \in Over

\* The same in terms of Dominates.
LEMMA PreFacts ==
  ASSUME PreInv
  PROVE  /\ Len(preorder) \in Nat /\ Len(stack) \in Nat
         /\ \A i \in 1 .. Len(preorder) : preorder[i] \in Covered /\ preorder[i] \in Range(preorder)
         /\ \A x \in Range(preorder) : \E i \in 1 .. Len(preorder) : preorder[i] = x
         /\ \A i \in 1 .. Len(stack) : stack[i] \in Covered /\ stack[i] \in Range(stack)
         /\ Range(preorder) \subseteq Covered /\ Range(stack) \subseteq Covered
         /\ \A x \in 1 .. Len(preorder) : \A a \in Covered :
              Dominates(a, preorder[x]) => \E i \in 1 .. x : preorder[i] = a
         /\ \A i, x \in 1 .. Len(preorder) : \A y \in i .. x :
              Dominates(preorder[i], preorder[x]) => Dominates(preorder[i], preorder[y])
         /\ \A i \in 1 .. Len(preorder) : \A k \in 1 .. Len(stack) :
              Dominates(preorder[i], stack[k]) =>
                /\ \A y \in i .. Len(preorder) : Dominates(preorder[i], preorder[y])
                /\ \A l \in 1 .. k : Dominates(preorder[i], stack[l])
<1> PICK p, s, n, m : p = preorder /\ s = stack /\ n = Len(p) /\ m = Len(s)
  OBVIOUS
<1>1. p \in Seq(Covered) /\ s \in Seq(Covered)
  BY DEF PreInv
<1>2. /\ n \in Nat /\ m \in Nat
      /\ \A i \in 1 .. n : p[i] \in Covered /\ p[i] \in Range(p)
      /\ \A x \in Range(p) : \E i \in 1 .. n : p[i] = x
      /\ \A i \in 1 .. m : s[i] \in Covered /\ s[i] \in Range(s)
      /\ Range(p) \subseteq Covered /\ Range(s) \subseteq Covered
  BY <1>1, RangeFacts, LenProperties
<1>3. /\ \A x \in 1 .. n : \A a \in Covered : <<a, p[x]>> \in Over => \E i \in 1 .. x : p[i] = a
      /\ \A i, x \in 1 .. n : \A y \in i .. x : <<p[i], p[x]>> \in Over => <<p[i], p[y]>> \in Over
      /\ \A i \in 1 .. n : \A k \in 1 .. m :
           <<p[i], s[k]>> \in Over =>
             /\ \A y \in i .. n : <<p[i], p[y]>> \in Over
             /\ \A l \in 1 .. k : <<p[i], s[l]>> \in Over
  BY DEF PreInv
<1>4. \A a, b \in Covered : <<a, b>> \in Over <=> Dominates(a, b)
  BY OverFacts
<1>5. \A i, x \in 1 .. n : \A y \in i .. x : y \in 1 .. n
  BY <1>2
<1>6. \A i \in 1 .. n : \A y \in i .. n : y \in 1 .. n
  BY <1>2
<1>7. \A k \in 1 .. m : \A l \in 1 .. k : l \in 1 .. m
  BY <1>2
<1>8. \A i, x \in 1 .. n : \A y \in i .. x : Dominates(p[i], p[x]) => Dominates(p[i], p[y])
  <2> SUFFICES ASSUME NEW i \in 1 .. n, NEW x \in 1 .. n, NEW y \in i .. x, Dominates(p[i], p[x])
               PROVE  Dominates(p[i], p[y])
    OBVIOUS
  <2>1. p[i] \in Covered /\ p[x] \in Covered /\ p[y] \in Covered
    BY <1>2, <1>5
  <2>2. <<p[i], p[y]>> \in Over
    BY <1>3, <1>4, <2>1
  <2> QED
    BY <1>4, <2>1, <2>2
<1>9. \A i \in 1 .. n : \A k \in 1 .. m :
        Dominates(p[i], s[k]) =>
          /\ \A y \in i .. n : Dominates(p[i], p[y])
          /\ \A l \in 1 .. k : Dominates(p[i], s[l])
  <2> SUFFICES ASSUME NEW i \in 1 .. n, NEW k \in 1 .. m, Dominates(p[i], s[k])
               PROVE  /\ \A y \in i .. n : Dominates(p[i], p[y])
                      /\ \A l \in 1 .. k : Dominates(p[i], s[l])
    OBVIOUS
  <2>1. <<p[i], s[k]>> \in Over
    BY <1>2, <1>4
  <2>2. /\ \A y \in i .. n : <<p[i], p[y]>> \in Over
        /\ \A l \in 1 .. k : <<p[i], s[l]>> \in Over
    BY <1>3, <2>1
  <2>3. ASSUME NEW y \in i .. n PROVE Dominates(p[i], p[y])
    BY <1>2, <1>4, <1>6, <2>2
  <2>4. ASSUME NEW l \in 1 .. k PROVE Dominates(p[i], s[l])
    BY <1>2, <1>4, <1>7, <2>2
  <2> QED
    BY <2>3, <2>4
<1>10. \A x \in 1 .. n : \A a \in Covered : Dominates(a, p[x]) => \E i \in 1 .. x : p[i] = a
  <2> SUFFICES ASSUME NEW x \in 1 .. n, NEW a \in Covered, Dominates(a, p[x])
               PROVE  \E i \in 1 .. x : p[i] = a
    OBVIOUS
  <2>1. <<a, p[x]>> \in Over
    BY <1>2, <1>4
  <2> QED
    BY <1>3, <2>1
<1> QED
  BY <1>2, <1>8, <1>9, <1>10

LEMMA PreStarts ==
  ASSUME GraphOK, StartDtPreorder
  PROVE  PreInv' /\ stack' # <<>>
<1>1. /\ UNCHANGED <<graph, dir, doms, post, order>> /\ stack' = <<Root>> /\ preorder' = <<>>
  BY DEF StartDtPreorder
<1>2. /\ Root' = Root /\ Covered' = Covered /\ \A a, b : Dominates(a, b)' <=> Dominates(a, b)
  BY <1>1, SameGraph
<1>3. Root \in Covered /\ Covered \subseteq Blocks
  BY CoveredFacts
<1> PICK p, s : p = preorder' /\ s = stack'
  OBVIOUS
<1>4. p \in Seq(Covered) /\ Len(p) = 0 /\ Range(p) = {} /\ Distinct(p)
  BY <1>1, EmptyFacts
<1>5. s \in Seq(Covered) /\ Len(s) = 1 /\ Distinct(s) /\ \A x : x \in Range(s) <=> x = Root
  BY <1>1, <1>3, SingleFacts
<1>6. s # <<>>
  BY <1>5, EmptyFacts
<1>7. 1 .. Len(p) = {}
  BY <1>4
<1>8. /\ p \in Seq(Covered) /\ s \in Seq(Covered)
      /\ Distinct(p) /\ Distinct(s) /\ Range(p) \cap Range(s) = {}
      /\ Root \in Range(p) \cup Range(s)
      /\ \A c \in Covered \ {Root} : doms[c] \in Range(p) <=> c \in Range(p) \cup Range(s)
  BY <1>4, <1>5
<1> QED
  BY <1>1, <1>2, <1>6, <1>7, <1>8 DEF PreInv

LEMMA PreSteps ==
  ASSUME GraphOK, Settled, PreInv, stack # <<>>, ComputeDtPreorder
  PROVE  PreInv'
<1> PICK p, s, h, kids, t, n, m :
      /\ p = preorder /\ s = stack /\ h = Head(s) /\ t = Tail(s)
      /\ kids = Ascending(Children(h)) /\ n = Len(p) /\ m = Len(kids)
  OBVIOUS
<1>1. /\ UNCHANGED <<graph, dir, doms, post, order>>
      /\ preorder' = Append(p, h) /\ stack' = kids \o t
  BY DEF ComputeDtPreorder
<1>2. /\ Root' = Root /\ Covered' = Covered /\ \A a, b : Dominates(a, b)' <=> Dominates(a, b)
  BY <1>1, SameGraph
<1>3. /\ p \in Seq(Covered) /\ s \in Seq(Covered) /\ s # <<>>
      /\ Distinct(p) /\ Distinct(s) /\ Range(p) \cap Range(s) = {}
      /\ Root \in Range(p) \cup Range(s)
      /\ \A c \in Covered \ {Root} : doms[c] \in Range(p) <=> c \in Range(p) \cup Range(s)
  BY DEF PreInv
<1>4. /\ \A x \in 1 .. n : \A a \in Covered : Dominates(a, p[x]) => \E i \in 1 .. x : p[i] = a
      /\ \A i, x \in 1 .. n : \A y \in i .. x : Dominates(p[i], p[x]) => Dominates(p[i], p[y])
      /\ \A i \in 1 .. n : \A k \in 1 .. Len(s) :
           Dominates(p[i], s[k]) =>
             /\ \A y \in i .. n : Dominates(p[i], p[y])
             /\ \A l \in 1 .. k : Dominates(p[i], s[l])
  BY PreFacts
<1>5. /\ h \in Covered /\ h = s[1] /\ Len(s) >= 1 /\ t \in Seq(Covered) /\ Len(t) = Len(s) - 1
      /\ \A i \in 1 .. Len(s) - 1 : t[i] = s[i + 1]
      /\ \A x : x \in Range(s) <=> x = h \/ x \in Range(t)
      /\ Distinct(t) /\ h \notin Range(t)
  <2>1. s \in Seq(Covered) /\ s # <<>>
    BY <1>3
  <2>2. /\ Head(s) \in Covered /\ Head(s) = s[1] /\ Len(s) >= 1
        /\ Tail(s) \in Seq(Covered) /\ Len(Tail(s)) = Len(s) - 1
        /\ \A i \in 1 .. Len(s) - 1 : Tail(s)[i] = s[i + 1]
        /\ \A x : x \in Range(s) <=> x = Head(s) \/ x \in Range(Tail(s))
        /\ Distinct(s) => Distinct(Tail(s)) /\ Head(s) \notin Range(Tail(s))
    BY ONLY <2>1, TailFacts
  <2> QED
    BY <1>3, <2>2
<1>6. /\ n \in Nat /\ Len(s) \in Nat
      /\ \A i \in 1 .. n : p[i] \in Range(p) /\ p[i] \in Covered
      /\ \A x \in Range(p) : \E i \in 1 .. n : p[i] = x
      /\ \A i \in 1 .. Len(s) : s[i] \in Range(s) /\ s[i] \in Covered
      /\ Range(p) \subseteq Covered /\ Range(s) \subseteq Covered
  BY <1>3, RangeFacts, LenProperties
<1>7. /\ \A b \in Covered \ {Root} :
           /\ doms[b] \in Covered /\ doms[b] # b
           /\ \A a \in Covered : Dominates(a, b) <=> a = b \/ Dominates(a, doms[b])
      /\ doms[Root] = Root
      /\ \A b \in Blocks \ Covered : doms[b] = Null
      /\ Null \notin Blocks /\ Covered \subseteq Blocks /\ Root \in Covered
  BY SettledFacts, CoveredFacts, NullFacts
<1>8. /\ \A a : Dominates(a, a)
      /\ \A a, b, c : Dominates(a, b) /\ Dominates(b, c) => Dominates(a, c)
      /\ \A a : Dominates(a, Root) => a = Root
  BY DominatesFacts
\* The children of h.
<1>9. /\ kids \in Seq(Covered) /\ Distinct(kids)
      /\ \A x : x \in Range(kids) <=> x \in Covered \ {Root} /\ doms[x] = h
  <2> PICK K, N : K = Children(h) /\ N = Cardinality(Blocks)
    OBVIOUS
  <2>1. N \in Nat /\ Blocks = 1 .. N
    BY BlocksAssumption, FS_CardinalityType
  <2>2. kids = Numbers(K, N)
    BY DEF Ascending, Numbers
  <2>3. /\ kids \in Seq(1 .. N) /\ Distinct(kids)
        /\ \A x : x \in Range(kids) <=> x \in 1 .. N /\ x \in K
    BY <2>1, <2>2, NumbersFacts
  <2>4. \A x : x \in K <=> x \in Blocks /\ x # h /\ doms[x] = h
    BY DEF Children
  <2>5. \A x : x \in K <=> x \in Covered \ {Root} /\ doms[x] = h
    BY <1>5, <1>7, <2>4
  <2>6. \A x : x \in Range(kids) <=> x \in Covered \ {Root} /\ doms[x] = h
    BY <1>7, <2>1, <2>3, <2>5
  <2>7. m \in Nat /\ \A i \in 1 .. m : kids[i] \in Range(kids)
    BY <2>3, RangeFacts, LenProperties
  <2>8. kids \in Seq(Covered)
    <3>1. \A i \in 1 .. m : kids[i] \in Covered
      BY <2>6, <2>7
    <3>2. DOMAIN kids = 1 .. m /\ kids = [i \in DOMAIN kids |-> kids[i]]
      BY <2>3, LenProperties, SeqDef
    <3>3. kids \in [1 .. m -> Covered]
      BY <3>1, <3>2
    <3> QED
      BY <2>7, <3>3, SeqDef
  <2> QED
    BY <2>3, <2>6, <2>8
<1>10. m \in Nat /\ \A i \in 1 .. m : kids[i] \in Range(kids)
  BY <1>9, RangeFacts, LenProperties
<1>11. h \notin Range(p) /\ \A x \in Range(t) : x \notin Range(p) /\ x \in Range(s)
  BY <1>3, <1>5
<1>12. \A x \in Range(kids) : x \notin Range(p) \cup Range(s)
  BY <1>3, <1>9, <1>11
<1>13. \A a \in Covered : a \in Range(p) => \A b \in Covered : Dominates(b, a) => b \in Range(p)
  <2> SUFFICES ASSUME NEW a \in Range(p), NEW b \in Covered, Dominates(b, a) PROVE b \in Range(p)
    BY <1>6
  <2>1. PICK x \in 1 .. n : p[x] = a
    BY <1>6
  <2>2. PICK i \in 1 .. x : p[i] = b
    BY <1>4, <2>1
  <2>3. i \in 1 .. n
    BY <1>6, <2>2
  <2> QED
    BY <1>6, <2>2, <2>3
<1>14. \A x \in Range(t) : ~Dominates(h, x)
  <2> SUFFICES ASSUME NEW x \in Range(t), Dominates(h, x) PROVE FALSE
    OBVIOUS
  <2>1. x \in Covered /\ x # h /\ x \in Range(s)
    BY <1>5, <1>6
  <2>2. x # Root
    BY <1>8, <2>1
  <2>3. Dominates(h, doms[x]) /\ doms[x] \in Range(p) /\ doms[x] \in Covered
    BY <1>3, <1>5, <1>7, <2>1, <2>2
  <2> QED
    BY <1>5, <1>11, <1>13, <2>3
<1> PICK q, r : q = preorder' /\ r = stack'
  OBVIOUS
<1>15. /\ q \in Seq(Covered) /\ Len(q) = n + 1 /\ Distinct(q)
       /\ \A x : x \in Range(q) <=> x \in Range(p) \/ x = h
       /\ \A i \in 1 .. n : q[i] = p[i]
       /\ q[n + 1] = h
  BY <1>1, <1>3, <1>5, <1>11, AppendedFacts
<1>16. /\ r \in Seq(Covered) /\ Len(r) = m + Len(s) - 1 /\ Distinct(r)
       /\ \A x : x \in Range(r) <=> x \in Range(kids) \/ x \in Range(t)
       /\ \A k \in 1 .. m : r[k] = kids[k]
       /\ \A k \in m + 1 .. m + Len(s) - 1 : r[k] = s[k - m + 1] /\ k - m + 1 \in 2 .. Len(s)
  <2>1. kids \in Seq(Covered) /\ t \in Seq(Covered)
    BY <1>5, <1>9
  <2>2. /\ kids \o t \in Seq(Covered)
        /\ Len(kids \o t) = Len(kids) + Len(t)
        /\ \A i \in 1 .. Len(kids) : (kids \o t)[i] = kids[i]
        /\ \A i \in Len(kids) + 1 .. Len(kids) + Len(t) :
             i - Len(kids) \in 1 .. Len(t) /\ (kids \o t)[i] = t[i - Len(kids)]
        /\ \A x : x \in Range(kids \o t) <=> x \in Range(kids) \/ x \in Range(t)
        /\ Distinct(kids) /\ Distinct(t) /\ Range(kids) \cap Range(t) = {} => Distinct(kids \o t)
    BY ONLY <2>1, JoinedFacts
  <2>3. Range(kids) \cap Range(t) = {}
    BY <1>11, <1>12
  <2>4. ASSUME NEW k \in m + 1 .. m + Len(s) - 1
        PROVE  r[k] = s[k - m + 1] /\ k - m + 1 \in 2 .. Len(s)
    <3>1. k \in m + 1 .. m + Len(t)
      BY <1>5, <1>6, <1>10
    <3>2. k - m \in 1 .. Len(s) - 1 /\ k - m + 1 \in 2 .. Len(s)
      BY <1>6, <1>10
    <3>3. r[k] = t[k - m]
      BY <1>1, <2>2, <3>1
    <3> QED
      BY <1>5, <3>2, <3>3
  <2>5. Len(r) = m + Len(s) - 1
    BY <1>1, <1>5, <1>6, <1>10, <2>2
  <2> QED
    BY <1>1, <1>5, <1>9, <2>2, <2>3, <2>4, <2>5
<1>17. Range(q) \cap Range(r) = {}
  BY <1>5, <1>11, <1>12, <1>15, <1>16
<1>18. Root \in Range(q) \cup Range(r)
  BY <1>3, <1>5, <1>15, <1>16
<1>19. \A c \in Covered \ {Root} : doms[c] \in Range(q) <=> c \in Range(q) \cup Range(r)
  <2> SUFFICES ASSUME NEW c \in Covered \ {Root}
               PROVE  doms[c] \in Range(q) <=> c \in Range(q) \cup Range(r)
    OBVIOUS
  <2>1. doms[c] \in Range(q) <=> doms[c] \in Range(p) \/ c \in Range(kids)
    BY <1>9, <1>15
  <2>2. doms[c] \in Range(p) <=> c \in Range(p) \cup Range(s)
    BY <1>3
  <2> QED
    BY <1>5, <1>15, <1>16, <2>1, <2>2
<1>20. \A i \in 1 .. n + 1 : i = n + 1 \/ i \in 1 .. n
  BY <1>6
<1>21. ASSUME NEW x \in 1 .. n + 1, NEW a \in Covered, Dominates(a, q[x])
       PROVE  \E i \in 1 .. x : q[i] = a
  <2>1. CASE x \in 1 .. n
    <3>1. PICK i \in 1 .. x : p[i] = a
      BY <1>4, <1>15, <1>21, <2>1
    <3>2. i \in 1 .. n
      BY <1>6, <2>1
    <3> QED
      BY <1>15, <3>1, <3>2
  <2>2. CASE x = n + 1
    <3>1. CASE a = h
      BY <1>6, <1>15, <2>2, <3>1
    <3>2. CASE a # h
      <4>1. h # Root
        BY <1>8, <1>15, <1>21, <2>2, <3>2
      <4>2. Dominates(a, doms[h]) /\ doms[h] \in Range(p)
        BY <1>3, <1>5, <1>7, <1>15, <1>21, <2>2, <3>2, <4>1
      <4>3. PICK y \in 1 .. n : p[y] = doms[h]
        BY <1>6, <4>2
      <4>4. PICK i \in 1 .. y : p[i] = a
        BY <1>4, <4>2, <4>3
      <4>5. i \in 1 .. n /\ i \in 1 .. x
        BY <1>6, <2>2, <4>3
      <4> QED
        BY <1>15, <4>4, <4>5
    <3> QED
      BY <3>1, <3>2
  <2> QED
    BY <1>20, <2>1, <2>2
<1>22. ASSUME NEW i \in 1 .. n, NEW k \in 1 .. Len(s), Dominates(p[i], s[k])
       PROVE  /\ \A y \in i .. n + 1 : Dominates(p[i], q[y])
              /\ \A l \in 1 .. k : Dominates(p[i], s[l])
              /\ Dominates(p[i], h)
  <2>1. /\ \A y \in i .. n : Dominates(p[i], p[y])
        /\ \A l \in 1 .. k : Dominates(p[i], s[l])
    BY <1>4, <1>22
  <2>2. 1 \in 1 .. k
    BY <1>6
  <2>3. Dominates(p[i], h)
    BY <1>5, <2>1, <2>2
  <2>4. ASSUME NEW y \in i .. n + 1 PROVE Dominates(p[i], q[y])
    <3>1. y # n + 1 => y \in i .. n
      <4>1. n \in Nat /\ i \in Nat
        BY <1>6
      <4> QED
        BY ONLY <4>1, y \in i .. n + 1
    <3>2. y \in i .. n => y \in 1 .. n
      BY <1>6
    <3> QED
      BY <1>15, <2>1, <2>3, <3>1, <3>2
  <2> QED
    BY <2>1, <2>3, <2>4
<1>23. ASSUME NEW i \in 1 .. n + 1, NEW x \in 1 .. n + 1, NEW y \in i .. x, Dominates(q[i], q[x])
       PROVE  Dominates(q[i], q[y])
  <2>1. CASE x \in 1 .. n
    <3>1. i \in 1 .. n /\ y \in 1 .. n
      BY <1>6, <2>1
    <3> QED
      BY <1>4, <1>15, <1>23, <2>1, <3>1
  <2>2. CASE x = n + 1 /\ i \in 1 .. n
    <3>1. 1 \in 1 .. Len(s) /\ Dominates(p[i], s[1])
      BY <1>5, <1>6, <1>15, <1>23, <2>2
    <3> QED
      BY <1>15, <1>22, <2>2, <3>1
  <2>3. CASE x = n + 1 /\ i = n + 1
    <3>1. y = n + 1
      BY <1>6, <2>3
    <3> QED
      BY <1>23, <2>3, <3>1
  <2> QED
    BY <1>20, <2>1, <2>2, <2>3
<1>24. \A k \in 1 .. m : Dominates(h, kids[k]) /\ kids[k] \in Covered
                        /\ \A a \in Covered : Dominates(a, kids[k]) /\ a # kids[k] => Dominates(a, h)
  BY <1>7, <1>8, <1>9, <1>10, <1>5
<1>25. ASSUME NEW i \in 1 .. n + 1, NEW k \in 1 .. m + Len(s) - 1, Dominates(q[i], r[k])
       PROVE  /\ \A y \in i .. n + 1 : Dominates(q[i], q[y])
              /\ \A l \in 1 .. k : Dominates(q[i], r[l])
  <2>1. k \in 1 .. m \/ k \in m + 1 .. m + Len(s) - 1
    BY <1>6, <1>10
  <2>2. CASE i \in 1 .. n
    <3>0. q[i] = p[i] /\ p[i] \in Range(p) /\ p[i] \in Covered
      BY <1>6, <1>15, <2>2
    <3>1. CASE k \in 1 .. m
      <4>1. p[i] # kids[k]
        BY <1>10, <1>12, <3>0, <3>1
      <4>2. Dominates(p[i], h)
        BY <1>16, <1>24, <1>25, <3>0, <3>1, <4>1
      <4>3. \A y \in i .. n + 1 : Dominates(p[i], q[y])
        BY <1>5, <1>6, <1>22, <2>2, <4>2
      <4>4. ASSUME NEW l \in 1 .. k PROVE Dominates(p[i], r[l])
        <5>1. l \in 1 .. m
          BY <1>10, <3>1
        <5> QED
          BY <1>8, <1>16, <1>24, <4>2, <5>1
      <4> QED
        BY <3>0, <4>3, <4>4
    <3>2. CASE k \in m + 1 .. m + Len(s) - 1
      <4>1. r[k] = s[k - m + 1] /\ k - m + 1 \in 2 .. Len(s)
        BY <1>16, <3>2
      <4>2. k - m + 1 \in 1 .. Len(s)
        BY <4>1
      <4>3. /\ \A y \in i .. n + 1 : Dominates(p[i], q[y])
            /\ \A l \in 1 .. k - m + 1 : Dominates(p[i], s[l])
            /\ Dominates(p[i], h)
        BY <1>22, <1>25, <2>2, <3>0, <4>1, <4>2
      <4>4. ASSUME NEW l \in 1 .. k PROVE Dominates(p[i], r[l])
        <5>1. CASE l \in 1 .. m
          BY <1>8, <1>16, <1>24, <4>3, <5>1
        <5>2. CASE l \notin 1 .. m
          <6>1. l \in m + 1 .. m + Len(s) - 1 /\ l - m + 1 \in 1 .. k - m + 1
            BY <1>6, <1>10, <3>2, <5>2
          <6> QED
            BY <1>16, <4>3, <6>1
        <5> QED
          BY <5>1, <5>2
      <4> QED
        BY <3>0, <4>3, <4>4
    <3> QED
      BY <2>1, <3>1, <3>2
  <2>3. CASE i = n + 1
    <3>1. q[i] = h /\ \A y \in i .. n + 1 : y = n + 1
      BY <1>6, <1>15, <2>3
    <3>2. k \in 1 .. m
      <4> SUFFICES ASSUME k \in m + 1 .. m + Len(s) - 1 PROVE FALSE
        BY <2>1
      <4>1. r[k] = s[k - m + 1] /\ k - m + 1 \in 2 .. Len(s)
        BY <1>16
      <4>2. k - m + 1 \in 1 .. Len(s) /\ k - m + 1 # 1 /\ 1 \in 1 .. Len(s)
        BY <1>6, <4>1
      <4>3. r[k] \in Range(s) /\ r[k] # h
        BY <1>3, <1>5, <1>6, <4>1, <4>2 DEF Distinct
      <4>4. r[k] \in Range(t)
        BY <1>5, <4>3
      <4> QED
        BY <1>14, <1>25, <3>1, <4>4
    <3>3. ASSUME NEW l \in 1 .. k PROVE Dominates(h, r[l])
      <4>1. l \in 1 .. m
        BY <1>10, <3>2
      <4> QED
        BY <1>16, <1>24, <4>1
    <3> QED
      BY <1>8, <1>15, <3>1, <3>3
  <2> QED
    BY <1>20, <2>2, <2>3
<1>26. /\ \A i \in 1 .. n + 1 : q[i] \in Covered
       /\ \A k \in 1 .. m + Len(s) - 1 : r[k] \in Covered
       /\ \A i \in 1 .. n + 1 : \A x \in 1 .. n + 1 : \A y \in i .. x : y \in 1 .. n + 1
       /\ \A k \in 1 .. m + Len(s) - 1 : \A l \in 1 .. k : l \in 1 .. m + Len(s) - 1
       /\ n + 1 \in 1 .. n + 1
  <2>1. \A i \in 1 .. n + 1 : q[i] \in Covered
    BY <1>15, RangeFacts
  <2>2. \A k \in 1 .. m + Len(s) - 1 : r[k] \in Covered
    BY <1>16, RangeFacts
  <2>3. n + 1 \in 1 .. n + 1 /\ \A i \in 1 .. n + 1 : \A x \in 1 .. n + 1 : \A y \in i .. x : y \in 1 .. n + 1
    BY <1>6
  <2>4. \A k \in 1 .. m + Len(s) - 1 : \A l \in 1 .. k : l \in 1 .. m + Len(s) - 1
    BY <1>6, <1>10
  <2> QED
    BY <2>1, <2>2, <2>3, <2>4
<1>27. \A a, b \in Covered : <<a, b>> \in Over <=> Dominates(a, b)
  BY OverFacts
<1>28. \A x \in 1 .. n + 1 : \A a \in Covered :
         <<a, q[x]>> \in Over => \E i \in 1 .. x : q[i] = a
  BY <1>21, <1>26, <1>27
<1>29. \A i, x \in 1 .. n + 1 : \A y \in i .. x :
         <<q[i], q[x]>> \in Over => <<q[i], q[y]>> \in Over
  BY <1>23, <1>26, <1>27
<1>30. \A i \in 1 .. n + 1 : \A k \in 1 .. m + Len(s) - 1 :
         <<q[i], r[k]>> \in Over =>
           /\ \A y \in i .. n + 1 : <<q[i], q[y]>> \in Over
           /\ \A l \in 1 .. k : <<q[i], r[l]>> \in Over
  <2> SUFFICES ASSUME NEW i \in 1 .. n + 1, NEW k \in 1 .. m + Len(s) - 1, <<q[i], r[k]>> \in Over
               PROVE  /\ \A y \in i .. n + 1 : <<q[i], q[y]>> \in Over
                      /\ \A l \in 1 .. k : <<q[i], r[l]>> \in Over
    OBVIOUS
  <2>1. Dominates(q[i], r[k])
    BY <1>26, <1>27
  <2>2. /\ \A y \in i .. n + 1 : Dominates(q[i], q[y])
        /\ \A l \in 1 .. k : Dominates(q[i], r[l])
    BY <1>25, <2>1
  <2>3. ASSUME NEW y \in i .. n + 1 PROVE <<q[i], q[y]>> \in Over
    BY <1>26, <1>27, <2>2
  <2>4. ASSUME NEW l \in 1 .. k PROVE <<q[i], r[l]>> \in Over
    BY <1>26, <1>27, <2>2
  <2> QED
    BY <2>3, <2>4
<1>31. preorder' = q /\ stack' = r /\ Over' = Over /\ doms' = doms
  BY <1>1, OverFacts
<1>32. (\A x \in 1 .. Len(preorder) : \A a \in Covered :
          <<a, preorder[x]>> \in Over => \E i \in 1 .. x : preorder[i] = a)'
  BY <1>2, <1>15, <1>28, <1>31
<1>33. (\A i, x \in 1 .. Len(preorder) : \A y \in i .. x :
          <<preorder[i], preorder[x]>> \in Over => <<preorder[i], preorder[y]>> \in Over)'
  BY <1>15, <1>29, <1>31
<1>34. (\A i \in 1 .. Len(preorder) : \A k \in 1 .. Len(stack) :
          <<preorder[i], stack[k]>> \in Over =>
            /\ \A y \in i .. Len(preorder) : <<preorder[i], preorder[y]>> \in Over
            /\ \A l \in 1 .. k : <<preorder[i], stack[l]>> \in Over)'
  BY <1>15, <1>16, <1>30, <1>31
<1>35. (\A c \in Covered \ {Root} :
          doms[c] \in Range(preorder) <=> c \in Range(preorder) \cup Range(stack))'
  BY <1>2, <1>19, <1>31
<1> QED
  BY <1>2, <1>15, <1>16, <1>17, <1>18, <1>31, <1>32, <1>33, <1>34, <1>35 DEF PreInv

\* When the stack is empty every covered block is there, and what is under a block lies right
\* behind it.
LEMMA PreEnds ==
  ASSUME GraphOK, Settled, PreInv, stack = <<>>
  PROVE  /\ Range(preorder) = Covered /\ Len(preorder) = Cardinality(Covered)
         /\ \A a \in Covered :
              LET below == {b \in Covered : Dominates(a, b)}
              IN  {Dfn(b) : b \in below} = Dfn(a) .. Dfn(a) + Cardinality(below) - 1
<1> PICK p, n : p = preorder /\ n = Len(p)
  OBVIOUS
<1>1. /\ p \in Seq(Covered) /\ Distinct(p) /\ Root \in Range(p)
      /\ \A c \in Covered \ {Root} : doms[c] \in Range(p) <=> c \in Range(p)
  <2>1. Range(stack) = {}
    BY EmptyFacts
  <2> QED
    BY <2>1 DEF PreInv
<1>2. /\ n \in Nat
      /\ \A i \in 1 .. n : p[i] \in Covered /\ p[i] \in Range(p)
      /\ \A x \in Range(p) : \E i \in 1 .. n : p[i] = x
      /\ Range(p) \subseteq Covered
      /\ \A x \in 1 .. n : \A a \in Covered : Dominates(a, p[x]) => \E i \in 1 .. x : p[i] = a
      /\ \A i, x \in 1 .. n : \A y \in i .. x : Dominates(p[i], p[x]) => Dominates(p[i], p[y])
  BY PreFacts
<1>3. /\ \A b \in Covered \ {Root} : doms[b] \in Covered
      /\ \A a, b \in Covered : Dominates(a, b) <=> a \in Above(b)
      /\ Covered \subseteq Blocks /\ Root \in Covered
  BY SettledFacts, CoveredFacts
<1>4. Range(p) = Covered
  <2> SUFFICES ASSUME NEW b \in Covered, b \notin Range(p) PROVE FALSE
    BY <1>2
  <2> PICK S : S = {c \in Covered : c \notin Range(p)}
    OBVIOUS
  <2>1. S \in SUBSET Blocks /\ b \in S /\ Root \notin S
    BY <1>1, <1>3
  <2>2. \A y \in S : doms[y] \in S
    BY <1>1, <1>3
  <2>3. Root \in Above(b)
    BY <1>3, DominatesFacts
  <2> QED
    BY <2>1, <2>2, <2>3 DEF Above
<1>5. IsFiniteSet(Covered)
  BY <1>3, BlocksAssumption, FS_Subset
<1>6. n = Cardinality(Covered)
  <2>1. \A x \in Covered : x \in Range(p)
    BY <1>4
  <2> QED
    BY <1>1, <1>5, <2>1, DistinctLength
<1>7. \A i \in 1 .. n : Dfn(p[i]) = i
  <2> SUFFICES ASSUME NEW i \in 1 .. n PROVE Dfn(p[i]) = i
    OBVIOUS
  <2>1. DOMAIN p = 1 .. n
    BY <1>1, LenProperties
  <2>2. \A j \in 1 .. n : p[j] = p[i] => j = i
    BY <1>1 DEF Distinct
  <2>3. Dfn(p[i]) = CHOOSE j \in 1 .. n : p[j] = p[i]
    BY <2>1 DEF Dfn
  <2> QED
    BY <2>2, <2>3
<1>8. ASSUME NEW a \in Covered
      PROVE  LET below == {b \in Covered : Dominates(a, b)}
             IN  {Dfn(b) : b \in below} = Dfn(a) .. Dfn(a) + Cardinality(below) - 1
  <2> PICK below, D : /\ below = {b \in Covered : Dominates(a, b)}
                      /\ D = {x \in 1 .. n : Dominates(a, p[x])}
    OBVIOUS
  <2>1. PICK i \in 1 .. n : p[i] = a
    BY <1>2, <1>4
  <2>2. {Dfn(b) : b \in below} = D
    <3>1. ASSUME NEW b \in below PROVE Dfn(b) \in D
      <4>1. PICK x \in 1 .. n : p[x] = b
        BY <1>2, <1>4
      <4> QED
        BY <1>7, <4>1
    <3>2. ASSUME NEW x \in D PROVE \E b \in below : Dfn(b) = x
      <4>1. x \in 1 .. n /\ p[x] \in below
        BY <1>2
      <4> QED
        BY <1>7, <4>1
    <3> QED
      BY <3>1, <3>2
  <2>3. \A x \in D : x \in 1 .. n /\ i <= x
    <3> SUFFICES ASSUME NEW x \in D PROVE i <= x
      OBVIOUS
    <3>1. PICK j \in 1 .. x : p[j] = a
      BY <1>2
    <3>2. j \in 1 .. n /\ j <= x
      BY <1>2
    <3>3. j = i
      BY <1>1, <2>1, <3>1, <3>2 DEF Distinct
    <3> QED
      BY <3>2, <3>3
  <2>4. i \in D
    BY <2>1, DominatesFacts
  <2>5. PICK m \in D : \A x \in D : x <= m
    <3>1. D \subseteq 0 .. n /\ D # {}
      BY <1>2, <2>4
    <3> QED
      BY <1>2, <3>1, GreatestNat
  <2>6. m \in 1 .. n /\ i <= m /\ i \in Nat
    BY <2>3
  <2>7. D = i .. m
    <3>1. ASSUME NEW x \in i .. m PROVE x \in D
      <4>1. Dominates(p[i], p[m])
        BY <2>1, <2>5
      <4>2. x \in 1 .. n
        BY <1>2, <2>6
      <4> QED
        BY <1>2, <2>1, <2>6, <4>1, <4>2
    <3>2. \A x \in D : x \in i .. m
      BY <1>2, <2>3, <2>5, <2>6
    <3> QED
      BY <3>1, <3>2
  <2>8. Cardinality(below) = m - i + 1
    <3> PICK q : q = SubSeq(p, i, m)
      OBVIOUS
    <3>1. /\ q \in Seq(Covered) /\ Len(q) = m - i + 1
          /\ \A k \in 1 .. m - i + 1 : q[k] = p[i + k - 1]
      <4>1. i \in 1 .. Len(p) + 1 /\ m \in i - 1 .. Len(p)
        BY <1>2, <2>6
      <4> QED
        BY <1>1, <4>1, PartFacts
    <3>2. \A k \in 1 .. m - i + 1 : i + k - 1 \in i .. m /\ i + k - 1 \in 1 .. n
      BY <1>2, <2>6
    <3>3. ASSUME NEW k \in 1 .. m - i + 1 PROVE q[k] \in below
      <4> PICK x : x = i + k - 1
        OBVIOUS
      <4>1. x \in D /\ x \in 1 .. n /\ q[k] = p[x]
        BY <2>7, <3>1, <3>2
      <4> QED
        BY <1>2, <4>1
    <3>4. q \in Seq(below)
      <4>1. DOMAIN q = 1 .. m - i + 1 /\ q = [k \in DOMAIN q |-> q[k]]
        BY <3>1, LenProperties, SeqDef
      <4>2. q \in [1 .. m - i + 1 -> below]
        BY <3>3, <4>1
      <4>3. m - i + 1 \in Nat
        BY <2>6
      <4> QED
        BY <4>2, <4>3, FunctionSeq
    <3>5. Distinct(q)
      <4> SUFFICES ASSUME NEW k \in 1 .. m - i + 1, NEW l \in 1 .. m - i + 1, q[k] = q[l] PROVE k = l
        BY <3>1 DEF Distinct
      <4>1. i + k - 1 = i + l - 1
        BY <1>1, <3>1, <3>2 DEF Distinct
      <4> QED
        BY <2>6, <4>1
    <3>6. ASSUME NEW x \in below PROVE x \in Range(q)
      <4>1. PICK y \in 1 .. n : p[y] = x
        BY <1>2, <1>4
      <4>2. y \in i .. m
        BY <2>7, <4>1
      <4>3. y - i + 1 \in 1 .. m - i + 1 /\ i + (y - i + 1) - 1 = y
        BY <2>6, <4>2
      <4>4. q[y - i + 1] = x
        BY <3>1, <4>1, <4>3
      <4>5. \A k \in 1 .. m - i + 1 : q[k] \in Range(q)
        BY <3>1, RangeFacts
      <4> QED
        BY <4>3, <4>4, <4>5
    <3>7. IsFiniteSet(below)
      BY <1>5, FS_Subset
    <3>8. Len(q) = Cardinality(below)
      BY <3>4, <3>5, <3>6, <3>7, DistinctLength
    <3> QED
      BY <3>1, <3>8
  <2>9. Dfn(a) = i /\ i + Cardinality(below) - 1 = m
    BY <1>7, <2>1, <2>6, <2>8
  <2> QED
    BY <2>2, <2>7, <2>9
<1> QED
  BY <1>4, <1>6, <1>8

-----------------------------------------------------------------------------
(* The inductive invariant. *)

Bare == [b \in Blocks |-> {}]

\* The iterations are complete.
IteratedDone == \A b \in Blocks \ {OtherRoot} : iterated[b] = Iterated(b)

\* Each loop has what it relies on; nothing but the types is known of a crash.
Inv ==
  /\ GraphOK /\ Numbered
  /\ doms \in [Blocks -> Blocks \cup {Null}]
  /\ frontier \in [Blocks -> SUBSET Blocks] /\ iterated \in [Blocks -> SUBSET Blocks]
  /\ Range(preorder) \subseteq Blocks
  /\ pc \in {"number", "iterate", "frontier", "closure", "preorder", "done", "crashed"}
  /\ pc = "number" => WalkInv /\ pos = 1 /\ frontier = Bare /\ iterated = Bare
  /\ pc = "iterate" => LoopInv /\ frontier = Bare /\ iterated = Bare
  /\ pc = "frontier" => Settled /\ FrontInv
  /\ pc = "closure" => Settled /\ IterInv
  /\ pc \in {"preorder", "done"} => Settled /\ FrontsDone /\ IteratedDone /\ PreInv
  /\ pc = "preorder" => stack # <<>>
  /\ pc = "done" => stack = <<>>

LEMMA WalkStartsAgain ==
  (GraphOK /\ post = [b \in Blocks |-> -1] /\ order = <<>> /\ stack = <<Root>> => WalkInv)'
<1>1. GraphOK /\ post = [b \in Blocks |-> -1] /\ order = <<>> /\ stack = <<Root>> => WalkInv
  BY WalkStarts
<1> QED
  BY <1>1, PTL

LEMMA InitInv ==
  ASSUME Init
  PROVE  Inv
<1>1. GraphOK /\ Root = Entry
  BY DEF Init, GraphOK, Root
<1>2. WalkInv
  BY <1>1, WalkStarts DEF Init
<1>3. Numbered
  BY <1>2 DEF WalkInv
<1>4. Range(preorder) \subseteq Blocks
  <2>1. preorder = <<>>
    BY DEF Init
  <2> QED
    BY <2>1, EmptyFacts
<1>5. doms \in [Blocks -> Blocks \cup {Null}] /\ pc = "number" /\ pos = 1
  BY DEF Init
<1>6. /\ frontier = Bare /\ iterated = Bare
      /\ frontier \in [Blocks -> SUBSET Blocks] /\ iterated \in [Blocks -> SUBSET Blocks]
  BY DEF Init, Bare
<1> QED
  BY <1>1, <1>2, <1>3, <1>4, <1>5, <1>6 DEF Inv

\* Nothing changes.
LEMMA StutterInv ==
  ASSUME Inv, UNCHANGED vars
  PROVE  Inv'
<1>1. UNCHANGED <<graph, dir, pc, post, order, doms, stack, pos, changed, frontier, iterated, preorder>>
  BY DEF vars
<1>2. /\ GraphOK' <=> GraphOK
      /\ Root' = Root /\ OtherRoot' = OtherRoot /\ Covered' = Covered
      /\ \A x : Forward(x)' = Forward(x)
      /\ Walked' <=> Walked
      /\ TreeOK' <=> TreeOK
      /\ Settled' <=> Settled
      /\ \A b : Entered(b)' <=> Entered(b)
      /\ \A b : FrontierOf(b)' = FrontierOf(b) /\ Iterated(b)' = Iterated(b)
      /\ Over' = Over
  BY <1>1, SameGraph, SameTree, SameFront, SameIterated, OverFacts
<1>3. Numbered' <=> Numbered
  BY <1>1, <1>2 DEF Numbered
<1>4. \A i : CameFrom(i)' <=> CameFrom(i)
  BY <1>1, <1>2 DEF CameFrom
<1>5. WalkInv' <=> WalkInv
  BY <1>1, <1>2, <1>3, <1>4 DEF WalkInv
<1>6. LoopInv' <=> LoopInv
  <2>1. \A i : Entered(order[i])' <=> Entered(order[i])
    BY <1>1, <1>2 DEF Entered
  <2>2. (~changed => \A i \in 2 .. pos - 1 : Entered(order[i]))'
        <=> (~changed => \A i \in 2 .. pos - 1 : Entered(order[i]))
    BY <1>1, <2>1
  <2> QED
    BY <1>1, <1>2, <2>2 DEF LoopInv
<1>7. FrontInv' <=> FrontInv
  BY <1>1, <1>2 DEF FrontInv
<1>8. FrontsDone' <=> FrontsDone
  BY <1>1, <1>2 DEF FrontsDone
<1>9. IterInv' <=> IterInv
  BY <1>1, <1>2, <1>8 DEF IterInv
<1>10. IteratedDone' <=> IteratedDone
  BY <1>1, <1>2 DEF IteratedDone
<1>11. PreInv' <=> PreInv
  BY <1>1, <1>2 DEF PreInv
<1>12. Bare' = Bare
  BY DEF Bare
<1> QED
  BY <1>1, <1>2, <1>3, <1>5, <1>6, <1>7, <1>8, <1>9, <1>10, <1>11, <1>12 DEF Inv

\* The steps of the walk and of the loop.
LEMMA WalkStepInv ==
  ASSUME Inv, PostOrderWalk
  PROVE  Inv'
<1>1. /\ pc = "number"
      /\ UNCHANGED <<graph, dir, pc, doms, pos, changed, frontier, iterated, preorder>>
  BY DEF PostOrderWalk
<1>2. GraphOK /\ WalkInv /\ pos = 1 /\ frontier = Bare /\ iterated = Bare
  BY <1>1 DEF Inv
<1>3. GraphOK'
  BY <1>1, <1>2, SameGraph
<1>4. WalkInv'
  BY <1>2, WalkSteps
<1>5. Numbered'
  BY <1>4 DEF WalkInv
<1>6. Bare' = Bare
  BY DEF Bare
<1>7. (Range(preorder) \subseteq Blocks)' <=> Range(preorder) \subseteq Blocks
  BY <1>1
<1> QED
  BY <1>1, <1>2, <1>3, <1>4, <1>5, <1>6, <1>7 DEF Inv

LEMMA TreeTypes ==
  ASSUME GraphOK, Walked, TreeOK
  PROVE  Numbered /\ doms \in [Blocks -> Blocks \cup {Null}]
<1>1. Numbered /\ doms \in [Blocks -> Covered \cup {Null}]
  BY DEF Walked, TreeOK
<1>2. Covered \subseteq Blocks
  BY CoveredFacts
<1> QED
  BY <1>1, <1>2

LEMMA TreeTypesAgain ==
  (GraphOK /\ Walked /\ TreeOK => Numbered /\ doms \in [Blocks -> Blocks \cup {Null}])'
<1>1. GraphOK /\ Walked /\ TreeOK => Numbered /\ doms \in [Blocks -> Blocks \cup {Null}]
  BY TreeTypes
<1> QED
  BY <1>1, PTL

LEMMA WalkEndInv ==
  ASSUME Inv, GenPostOrderID
  PROVE  Inv'
<1>1. /\ pc = "number" /\ pc' = "iterate"
      /\ UNCHANGED <<graph, dir, post, order, stack, frontier, iterated, preorder>>
  BY DEF GenPostOrderID
<1>2. /\ GraphOK /\ WalkInv /\ frontier = Bare /\ iterated = Bare
      /\ frontier \in [Blocks -> SUBSET Blocks] /\ iterated \in [Blocks -> SUBSET Blocks]
  BY <1>1 DEF Inv
<1>3. GraphOK'
  BY <1>1, <1>2, SameGraph
<1>4. LoopInv'
  BY <1>2, LoopStarts
<1>5. Numbered' /\ doms' \in [Blocks -> Blocks \cup {Null}]
  BY <1>3, <1>4, TreeTypesAgain DEF LoopInv
<1>6. Bare' = Bare
  BY DEF Bare
<1>7. (Range(preorder) \subseteq Blocks)'
  BY <1>1 DEF Inv
<1> QED
  BY <1>1, <1>2, <1>3, <1>4, <1>5, <1>6, <1>7 DEF Inv

LEMMA LoopStepInv ==
  ASSUME Inv, ComputeDominance
  PROVE  Inv'
<1>1. /\ pc = "iterate"
      /\ UNCHANGED <<graph, dir, pc, frontier, iterated, preorder>>
  BY DEF ComputeDominance
<1>2. /\ GraphOK /\ LoopInv /\ frontier = Bare /\ iterated = Bare
      /\ frontier \in [Blocks -> SUBSET Blocks] /\ iterated \in [Blocks -> SUBSET Blocks]
  BY <1>1 DEF Inv
<1>3. GraphOK'
  BY <1>1, <1>2, SameGraph
<1>4. LoopInv'
  BY <1>2, LoopSteps
<1>5. Numbered' /\ doms' \in [Blocks -> Blocks \cup {Null}]
  BY <1>3, <1>4, TreeTypesAgain DEF LoopInv
<1>6. Bare' = Bare
  BY DEF Bare
<1>7. (Range(preorder) \subseteq Blocks)'
  BY <1>1 DEF Inv
<1> QED
  BY <1>1, <1>2, <1>3, <1>4, <1>5, <1>6, <1>7 DEF Inv

LEMMA FrontStartsAgain ==
  (GraphOK /\ pos = 1 /\ frontier = [b \in Blocks |-> {}] => FrontInv)'
<1>1. GraphOK /\ pos = 1 /\ frontier = [b \in Blocks |-> {}] => FrontInv
  BY FrontStarts
<1> QED
  BY <1>1, PTL

LEMMA LoopEndInv ==
  ASSUME Inv, NextPass
  PROVE  Inv'
<1>1. /\ pc = "iterate" /\ pc' \in {"iterate", "frontier"}
      /\ UNCHANGED <<graph, dir, frontier, iterated, preorder>>
  BY DEF NextPass
<1>2. /\ GraphOK /\ LoopInv /\ frontier = Bare /\ iterated = Bare
      /\ frontier \in [Blocks -> SUBSET Blocks] /\ iterated \in [Blocks -> SUBSET Blocks]
  BY <1>1 DEF Inv
<1>3. GraphOK'
  BY <1>1, <1>2, SameGraph
<1>4. IF pc' = "iterate" THEN LoopInv' ELSE Settled' /\ pc' = "frontier" /\ pos' = 1
  BY <1>2, LoopEnds
<1>5. Numbered' /\ doms' \in [Blocks -> Blocks \cup {Null}]
  BY <1>3, <1>4, TreeTypesAgain DEF LoopInv, Settled
<1>6. Bare' = Bare
  BY DEF Bare
<1>7. (Range(preorder) \subseteq Blocks)'
  BY <1>1 DEF Inv
<1>8. pc' = "frontier" => FrontInv'
  BY <1>1, <1>2, <1>3, <1>4, FrontStartsAgain DEF Bare
<1> QED
  BY <1>1, <1>2, <1>3, <1>4, <1>5, <1>6, <1>7, <1>8 DEF Inv

\* The steps of the frontiers and of their iterations.
LEMMA FrontStepInv ==
  ASSUME Inv, ComputeDomFrontiers
  PROVE  Inv'
<1>1. /\ pc = "frontier" /\ pc' \in {"frontier", "crashed"}
      /\ pc' = "crashed" => UNCHANGED frontier
      /\ UNCHANGED <<graph, dir, post, order, doms, iterated, preorder>>
  BY DEF ComputeDomFrontiers, Inv
<1>2. GraphOK /\ Settled /\ FrontInv
  BY <1>1 DEF Inv
<1>3. GraphOK' /\ Settled' /\ OtherRoot' = OtherRoot
  BY <1>1, <1>2, SameGraph, SameTree
<1>4. Numbered' /\ doms' \in [Blocks -> Blocks \cup {Null}]
  BY <1>3, TreeTypesAgain DEF Settled
<1>5. pc' = "frontier" => FrontInv'
  BY <1>2, FrontSteps
<1>6. frontier' \in [Blocks -> SUBSET Blocks]
  <2>1. CASE pc' = "crashed"
    BY <1>1, <2>1 DEF Inv
  <2>2. CASE pc' = "frontier"
    BY <1>5, <2>2 DEF FrontInv
  <2> QED
    BY <1>1, <2>1, <2>2
<1>7. (Range(preorder) \subseteq Blocks)'
  BY <1>1 DEF Inv
<1>8. iterated' \in [Blocks -> SUBSET Blocks]
  BY <1>1 DEF Inv
<1> QED
  BY <1>1, <1>3, <1>4, <1>5, <1>6, <1>7, <1>8 DEF Inv

LEMMA IterStartsAgain ==
  (GraphOK /\ FrontsDone /\ pos = 1 /\ iterated \in [Blocks -> SUBSET Blocks] => IterInv)'
<1>1. GraphOK /\ FrontsDone /\ pos = 1 /\ iterated \in [Blocks -> SUBSET Blocks] => IterInv
  BY IterStarts
<1> QED
  BY <1>1, PTL

LEMMA FrontEndInv ==
  ASSUME Inv, FrontiersDone
  PROVE  Inv'
<1>1. /\ pc = "frontier" /\ pc' = "closure" /\ pos \notin Blocks /\ pos' = 1
      /\ UNCHANGED <<graph, dir, post, order, doms, frontier, iterated, preorder>>
  BY DEF FrontiersDone
<1>2. /\ GraphOK /\ Settled /\ FrontInv
      /\ frontier \in [Blocks -> SUBSET Blocks] /\ iterated \in [Blocks -> SUBSET Blocks]
  BY <1>1 DEF Inv
<1>3. GraphOK' /\ Settled'
  BY <1>1, <1>2, SameGraph, SameTree
<1>4. Numbered' /\ doms' \in [Blocks -> Blocks \cup {Null}]
  BY <1>3, TreeTypesAgain DEF Settled
<1>5. FrontsDone'
  BY <1>1, <1>2, FrontEnds, SameFronts
<1>6. IterInv'
  BY <1>1, <1>2, <1>3, <1>5, IterStartsAgain
<1>7. (Range(preorder) \subseteq Blocks)'
  BY <1>1 DEF Inv
<1> QED
  BY <1>1, <1>2, <1>3, <1>4, <1>6, <1>7 DEF Inv

LEMMA IterStepInv ==
  ASSUME Inv, ComputeIterDomFrontiers
  PROVE  Inv'
<1>1. /\ pc = "closure"
      /\ UNCHANGED <<graph, dir, pc, post, order, doms, frontier, preorder>>
  BY DEF ComputeIterDomFrontiers
<1>2. /\ GraphOK /\ Settled /\ IterInv /\ frontier \in [Blocks -> SUBSET Blocks]
  BY <1>1 DEF Inv
<1>3. GraphOK' /\ Settled'
  BY <1>1, <1>2, SameGraph, SameTree
<1>4. Numbered' /\ doms' \in [Blocks -> Blocks \cup {Null}]
  BY <1>3, TreeTypesAgain DEF Settled
<1>5. IterInv'
  BY <1>2, IterSteps
<1>6. iterated' \in [Blocks -> SUBSET Blocks]
  BY <1>5 DEF IterInv
<1>7. (Range(preorder) \subseteq Blocks)'
  BY <1>1 DEF Inv
<1> QED
  BY <1>1, <1>2, <1>3, <1>4, <1>5, <1>6, <1>7 DEF Inv

\* The steps of the preorder, and the second half.
LEMMA PreStartInv ==
  ASSUME Inv, StartDtPreorder
  PROVE  Inv'
<1>1. /\ pc = "closure" /\ pc' = "preorder" /\ pos \notin Blocks /\ preorder' = <<>>
      /\ UNCHANGED <<graph, dir, post, order, doms, frontier, iterated>>
  BY DEF StartDtPreorder
<1>2. /\ GraphOK /\ Settled /\ IterInv
      /\ frontier \in [Blocks -> SUBSET Blocks] /\ iterated \in [Blocks -> SUBSET Blocks]
  BY <1>1 DEF Inv
<1>3. GraphOK' /\ Settled' /\ OtherRoot' = OtherRoot
  BY <1>1, <1>2, SameGraph, SameTree
<1>4. Numbered' /\ doms' \in [Blocks -> Blocks \cup {Null}]
  BY <1>3, TreeTypesAgain DEF Settled
<1>5. FrontsDone'
  BY <1>1, <1>2, SameFronts DEF IterInv
<1>6. IteratedDone
  <2>1. Cardinality(Blocks) \in Nat /\ Blocks = 1 .. Cardinality(Blocks)
    BY BlocksAssumption, FS_CardinalityType
  <2>2. 1 .. pos - 1 = Blocks
    BY <1>1, <1>2, <2>1 DEF IterInv
  <2> QED
    BY <1>2, <2>2 DEF IterInv, IteratedDone
<1>7. IteratedDone'
  BY <1>1, <1>3, <1>6, SameIterated DEF IteratedDone
<1>8. PreInv' /\ stack' # <<>>
  BY <1>2, PreStarts
<1>9. (Range(preorder) \subseteq Blocks)'
  BY <1>1, EmptyFacts
<1> QED
  BY <1>1, <1>2, <1>3, <1>4, <1>5, <1>7, <1>8, <1>9 DEF Inv

LEMMA PreFactsAgain == (PreInv => Range(preorder) \subseteq Covered)'
<1>1. PreInv => Range(preorder) \subseteq Covered
  BY PreFacts
<1> QED
  BY <1>1, PTL

LEMMA PreStepInv ==
  ASSUME Inv, ComputeDtPreorder
  PROVE  Inv'
<1>1. /\ pc = "preorder" /\ pc' = (IF stack' = <<>> THEN "done" ELSE "preorder")
      /\ UNCHANGED <<graph, dir, post, order, doms, frontier, iterated>>
  BY DEF ComputeDtPreorder
<1>2. /\ GraphOK /\ Settled /\ FrontsDone /\ IteratedDone /\ PreInv /\ stack # <<>>
      /\ frontier \in [Blocks -> SUBSET Blocks] /\ iterated \in [Blocks -> SUBSET Blocks]
  BY <1>1 DEF Inv
<1>3. GraphOK' /\ Settled' /\ OtherRoot' = OtherRoot /\ Covered' = Covered
  BY <1>1, <1>2, SameGraph, SameTree
<1>4. Numbered' /\ doms' \in [Blocks -> Blocks \cup {Null}]
  BY <1>3, TreeTypesAgain DEF Settled
<1>5. FrontsDone'
  BY <1>1, <1>2, SameFronts
<1>6. IteratedDone'
  BY <1>1, <1>2, <1>3, SameIterated DEF IteratedDone
<1>7. PreInv'
  BY <1>2, PreSteps
<1>8. (Range(preorder) \subseteq Blocks)'
  BY <1>2, <1>3, <1>7, PreFactsAgain, CoveredFacts
<1> QED
  BY <1>1, <1>2, <1>3, <1>4, <1>5, <1>6, <1>7, <1>8 DEF Inv

LEMMA OtherHalfInv ==
  ASSUME Inv, StartPostDominance
  PROVE  Inv'
<1>1. /\ dir' = "pdom" /\ pc' = "number" /\ pos' = 1 /\ stack' = <<Exit>>
      /\ post' = [b \in Blocks |-> -1] /\ order' = <<>>
      /\ frontier' = [b \in Blocks |-> {}] /\ iterated' = [b \in Blocks |-> {}]
      /\ UNCHANGED <<graph, doms, preorder>>
  BY DEF StartPostDominance
<1>2. GraphOK' /\ Root' = Exit
  BY <1>1 DEF Inv, GraphOK, Root
<1>3. WalkInv'
  BY <1>1, <1>2, WalkStartsAgain
<1>4. Numbered'
  BY <1>3 DEF WalkInv
<1>5. /\ frontier' = Bare' /\ iterated' = Bare'
      /\ frontier' \in [Blocks -> SUBSET Blocks] /\ iterated' \in [Blocks -> SUBSET Blocks]
  BY <1>1 DEF Bare
<1>6. (Range(preorder) \subseteq Blocks)' /\ doms' \in [Blocks -> Blocks \cup {Null}]
  BY <1>1 DEF Inv
<1> QED
  BY <1>1, <1>2, <1>3, <1>4, <1>5, <1>6 DEF Inv

LEMMA NextInv ==
  ASSUME Inv, [Next]_vars
  PROVE  Inv'
<1>1. CASE PostOrderWalk
  BY <1>1, WalkStepInv
<1>2. CASE GenPostOrderID
  BY <1>2, WalkEndInv
<1>3. CASE ComputeDominance
  BY <1>3, LoopStepInv
<1>4. CASE NextPass
  BY <1>4, LoopEndInv
<1>5. CASE ComputeDomFrontiers
  BY <1>5, FrontStepInv
<1>6. CASE FrontiersDone
  BY <1>6, FrontEndInv
<1>7. CASE ComputeIterDomFrontiers
  BY <1>7, IterStepInv
<1>8. CASE StartDtPreorder
  BY <1>8, PreStartInv
<1>9. CASE ComputeDtPreorder
  BY <1>9, PreStepInv
<1>10. CASE StartPostDominance
  BY <1>10, OtherHalfInv
<1>11. CASE UNCHANGED vars
  BY <1>11, StutterInv
<1> QED
  BY <1>1, <1>2, <1>3, <1>4, <1>5, <1>6, <1>7, <1>8, <1>9, <1>10, <1>11 DEF Next, Step, Stop

-----------------------------------------------------------------------------
(* What the invariant says of the runs' properties. *)

LEMMA InvTypes ==
  ASSUME Inv
  PROVE  TypeOK
<1>1. \A b \in Blocks : post[b] \in -1 .. Cardinality(Blocks) - 2
  BY NumberedFacts DEF Inv
<1>2. Range(order) \subseteq Blocks
  BY NumberedFacts DEF Inv
<1>3. dir \in {"dom", "pdom"}
  BY DEF Inv, GraphOK
<1> QED
  BY <1>1, <1>2, <1>3 DEF Inv, TypeOK

LEMMA InvPointsUp ==
  ASSUME Inv
  PROVE  TreePointsUp
<1> SUFFICES ASSUME pc = "iterate", NEW b \in Blocks \ {Root}, doms[b] # Null
             PROVE  post[doms[b]] > post[b]
  BY DEF TreePointsUp
<1>1. TreeOK
  BY DEF Inv, LoopInv
<1>2. b \in Covered \ {Root}
  BY <1>1 DEF TreeOK
<1> QED
  BY <1>1, <1>2 DEF TreeOK

LEMMA InvDominators ==
  ASSUME Inv
  PROVE  DomsAreDominators
<1> DEFINE above == [b \in Covered |-> {a \in Covered : Dominates(a, b)}]
<1>1. ASSUME pc = "frontier", NEW b \in Covered \ {Root}
      PROVE  doms[b] \in Covered /\ above[b] = above[doms[b]] \cup {b}
  <2>1. /\ doms[b] \in Covered
        /\ \A a \in Covered : Dominates(a, b) <=> a = b \/ Dominates(a, doms[b])
    BY <1>1, SettledFacts DEF Inv
  <2> QED
    BY <2>1
<1> QED
  BY <1>1, InvTypes, InvPointsUp DEF DomsAreDominators

LEMMA InvPreorder ==
  ASSUME Inv
  PROVE  PreorderNestsSubtrees
<1> SUFFICES ASSUME pc = "done" PROVE PreorderNestsSubtrees
  BY DEF PreorderNestsSubtrees
<1>1. GraphOK /\ Settled /\ PreInv /\ stack = <<>>
  BY DEF Inv
<1> QED
  BY <1>1, PreEnds DEF PreorderNestsSubtrees

LEMMA InvFrontiers ==
  ASSUME Inv
  PROVE  FrontiersAreRight
<1>1. ASSUME pc = "closure", NEW b \in Covered
      PROVE  frontier[b] = {f \in Covered \ LeftOut : InFrontier(b, f, Covered)}
  BY <1>1 DEF Inv, IterInv, FrontsDone, FrontierOf
<1>2. ASSUME pc = "done", NEW b \in Covered
      PROVE  iterated[b] = Iterated(b)
  <2>1. b \in Blocks \ {OtherRoot}
    BY <1>2, CoveredFacts DEF Inv
  <2> QED
    BY <1>2, <2>1 DEF Inv, IteratedDone
<1> QED
  BY <1>1, <1>2 DEF FrontiersAreRight

LEMMA SpecInv == Spec => []Inv
<1> QED
  BY InitInv, NextInv, PTL DEF Spec

-----------------------------------------------------------------------------
(* The theorems. *)

\* ComputeDominance and ComputePostDominance leave the immediate dominators of the
\* definition, for any graph, whatever the orders of its lists; until then the tree points
\* upwards in postorder, so that Intersect comes to an end; and ComputeDtPreorder lays each
\* subtree out in one piece, after its dominators.
THEOREM TreeHolds == Spec => []TreeIsRight
<1>1. Inv => TreeIsRight
  BY InvDominators, InvPreorder DEF TreeIsRight
<1> QED
  BY <1>1, SpecInv, PTL

\* ComputeDomFrontiers and ComputePdomFrontiers give the frontiers of the definition but for
\* what is left out, and GetIterDomFrontier their closure though it reads sets that are
\* iterated already next to ones that are not.
THEOREM FrontiersHold == Spec => []FrontiersAreRight
<1> QED
  BY InvFrontiers, SpecInv, PTL
=============================================================================
