----------------------------- MODULE InlineProofs -----------------------------
(***************************************************************************)
(* Theorems about CallGraph and Inline for any programs: the components    *)
(* are the recursions, callees come before their callers, and the calls    *)
(* the inliner leaves lie on a recursion.                                  *)
(***************************************************************************)
EXTENDS Inline, Foundations

-----------------------------------------------------------------------------
(* Reachability. *)

\* The functions that f reaches in at most n calls are the n-th of R.
Reached(c, f, n, R) ==
  R = [k \in 0 .. n |-> IF k = 0 THEN {f}
                        ELSE LET t == R[k-1] IN t \cup UNION {Range(c[x]) : x \in t}]

\* The functions that f reaches over the callees c.
From(c, f) == (CHOOSE R : Reached(c, f, Cardinality(Functions), R))[Cardinality(Functions)]

CalleesOK(c) == c \in [Functions -> Seq(Functions)]

\* There is the function R.
LEMMA ReachedExists ==
  ASSUME NEW c, CalleesOK(c), NEW f \in Functions, NEW n \in Nat
  PROVE  Reached(c, f, n, CHOOSE R : Reached(c, f, n, R))
<1> DEFINE T == SUBSET Functions
           g == [k \in 1 .. n |-> [t \in T |-> t \cup UNION {Range(c[x]) : x \in t}]]
<1>1. {f} \in T
  OBVIOUS
<1>2. ASSUME NEW k \in 1 .. n, NEW t \in T PROVE g[k][t] \in T
  <2>1. \A x \in t : Range(c[x]) \subseteq Functions
    BY RangeFacts DEF CalleesOK
  <2> QED
    BY <2>1
<1>3. \E R \in [0 .. n -> T] : Iterates(n, {f}, g, R)
  <2> HIDE DEF T, g
  <2> QED
    BY <1>1, <1>2, Iteration
<1>4. PICK R \in [0 .. n -> T] : Iterates(n, {f}, g, R)
  BY <1>3
<1>5. ASSUME NEW k \in 0 .. n
      PROVE  (IF k = 0 THEN {f} ELSE g[k][R[k - 1]])
             = IF k = 0 THEN {f} ELSE LET t == R[k-1] IN t \cup UNION {Range(c[x]) : x \in t}
  <2>1. k # 0 => k \in 1 .. n /\ k - 1 \in 0 .. n
    OBVIOUS
  <2>2. k # 0 => R[k - 1] \in T
    BY <1>4, <2>1
  <2> QED
    BY <2>1, <2>2
<1> HIDE DEF g, T
<1>6. Reached(c, f, n, R)
  BY <1>4, <1>5 DEF Iterates, Reached
<1> QED
  BY <1>6

\* From(c, f) is the least set with f that is closed under calls.
LEMMA FromFacts ==
  ASSUME NEW c, CalleesOK(c), NEW f \in Functions
  PROVE  /\ f \in From(c, f) /\ From(c, f) \subseteq Functions
         /\ \A x \in From(c, f) : Range(c[x]) \subseteq From(c, f)
         /\ \A X : f \in X /\ (\A x \in X \cap Functions : Range(c[x]) \subseteq X)
                     => From(c, f) \subseteq X
<1> DEFINE n == Cardinality(Functions)
           R == CHOOSE R : Reached(c, f, n, R)
           g == [t \in SUBSET Functions |-> UNION {Range(c[x]) : x \in t}]
<1>1. n \in Nat /\ IsFiniteSet(Functions)
  BY FunctionsAssumption, FS_CardinalityType
<1>2. From(c, f) = R[n]
  BY DEF From
<1>3. Reached(c, f, n, R)
  BY <1>1, ReachedExists
<1> HIDE DEF R
<1>4. \A x \in Functions : Range(c[x]) \subseteq Functions
  BY RangeFacts DEF CalleesOK
<1>5. /\ g \in [SUBSET Functions -> SUBSET Functions]
      /\ \A X, Y \in SUBSET Functions : X \subseteq Y => g[X] \subseteq g[Y]
  BY <1>4
<1>6. R[0] = {f}
  BY <1>1, <1>3 DEF Reached
<1>7. ASSUME NEW k \in 1 .. n, R[k-1] \in SUBSET Functions PROVE R[k] = R[k-1] \cup g[R[k-1]]
  <2>1. R[k] = R[k-1] \cup UNION {Range(c[x]) : x \in R[k-1]}
    BY <1>1, <1>3, <1>7 DEF Reached
  <2> QED
    BY <1>7, <2>1
<1>8. \A t \in SUBSET Functions : g[t] = UNION {Range(c[x]) : x \in t}
  OBVIOUS
<1>9. /\ {f} \subseteq R[n] /\ R[n] \subseteq Functions /\ g[R[n]] \subseteq R[n]
      /\ \A X \in SUBSET Functions : {f} \subseteq X /\ g[X] \subseteq X => R[n] \subseteq X
  <2> HIDE DEF g, n
  <2>1. \A k \in 1 .. Cardinality(Functions) :
          R[k-1] \in SUBSET Functions => R[k] = R[k-1] \cup g[R[k-1]]
    BY <1>7 DEF n
  <2>2. Grows(Functions, {f}, g, R)
    BY <1>5, <1>6, <2>1 DEF Grows
  <2>3. Closure(Functions, {f}, g, R[n])
    BY <1>1, <2>2, ClosureFacts DEF n
  <2> QED
    BY <2>3 DEF Closure
<1> HIDE DEF g, n
<1>10. ASSUME NEW X, f \in X, \A x \in X \cap Functions : Range(c[x]) \subseteq X
       PROVE  R[n] \subseteq X
  <2>1. g[X \cap Functions] \subseteq X \cap Functions
    BY <1>4, <1>8, <1>10
  <2> QED
    BY <1>9, <1>10, <2>1
<1> QED
  BY <1>2, <1>8, <1>9, <1>10

\* Reaches is membership in this set.
LEMMA ReachesIs == \A f, g : Reaches(f, g) <=> g \in From(callees, f)
  BY Zenon DEF Reaches, From, Reached

\* It is a preorder that contains the calls, and starts with one.
LEMMA FromOrder ==
  ASSUME NEW c, CalleesOK(c)
  PROVE  /\ \A f \in Functions : /\ f \in From(c, f) /\ From(c, f) \subseteq Functions
                                 /\ Range(c[f]) \subseteq Functions
                                 /\ Range(c[f]) \subseteq From(c, f)
         /\ \A f \in Functions : \A g \in From(c, f) : From(c, g) \subseteq From(c, f)
         /\ \A f \in Functions : \A g \in From(c, f) :
              f # g => \E h \in Range(c[f]) : g \in From(c, h)
         /\ \A f \in Functions : \A X :
              f \in X /\ (\A x \in X \cap Functions : Range(c[x]) \subseteq X) => From(c, f) \subseteq X
<1>1. \A f \in Functions : Range(c[f]) \subseteq Functions
  BY RangeFacts DEF CalleesOK
<1>2. ASSUME NEW f \in Functions
      PROVE  /\ f \in From(c, f) /\ From(c, f) \subseteq Functions
             /\ \A x \in From(c, f) : Range(c[x]) \subseteq From(c, f)
             /\ \A X : f \in X /\ (\A x \in X \cap Functions : Range(c[x]) \subseteq X)
                         => From(c, f) \subseteq X
  BY FromFacts
<1>3. ASSUME NEW f \in Functions, NEW g \in From(c, f), f # g
      PROVE  \E h \in Range(c[f]) : g \in From(c, h)
  <2> DEFINE X == {f} \cup UNION {From(c, h) : h \in Range(c[f])}
  <2>1. \A h \in Range(c[f]) : /\ h \in From(c, h)
                               /\ \A x \in From(c, h) : Range(c[x]) \subseteq From(c, h)
    BY <1>1, <1>2
  <2>2. f \in X /\ \A x \in X : Range(c[x]) \subseteq X
    BY <2>1
  <2> HIDE DEF X
  <2>3. g \in X
    BY <1>2, <2>2
  <2> QED
    BY <1>3, <2>3 DEF X
<1>4. ASSUME NEW f \in Functions, NEW g \in From(c, f) PROVE From(c, g) \subseteq From(c, f)
  BY <1>2
<1> QED
  BY <1>1, <1>2, <1>3, <1>4

-----------------------------------------------------------------------------
(* The depth-first search. *)

Visited(f) == visitedOrder[f] # 0
OnStack(f) == visitedOrder[f] # 0 /\ sccNode[f] = 0
Frames == [node : Functions, next : Nat]

\* The callees of f that were looked at.
Seen(f) == {callees[f][i] : i \in {i \in 1 .. Len(callees[f]) :
              Visited(f) /\ \A k \in 1 .. Len(dfs) : dfs[k].node = f => i < dfs[k].next}}

DfsTypes ==
  /\ CalleesOK(callees)
  /\ dfs \in Seq(Frames)
  /\ visitStack \in Seq(Functions)
  /\ visitIndex \in Nat /\ visitIndex > 0
  /\ visitedOrder \in [Functions -> Nat] /\ lowestOrder \in [Functions -> Nat]
  /\ sccNodes \in Seq(Seq(Functions))
  /\ sccNode \in [Functions -> 0 .. Len(sccNodes)]

\* The orders tell the visited functions apart.
Orders ==
  /\ \A f \in Functions : visitedOrder[f] < visitIndex
  /\ \A f, g \in Functions : Visited(f) /\ visitedOrder[f] = visitedOrder[g] => f = g
  /\ \A f \in Functions : sccNode[f] # 0 => Visited(f)

\* The stack has the visited functions without a component, the latest on top.
StackOrder ==
  /\ \A i, j \in 1 .. Len(visitStack) :
       i < j => visitedOrder[visitStack[i]] < visitedOrder[visitStack[j]]
  /\ \A i \in 1 .. Len(visitStack) : OnStack(visitStack[i])
  /\ \A f \in Functions : OnStack(f) => \E i \in 1 .. Len(visitStack) : visitStack[i] = f

\* The functions under way are on the stack, in this order, above its bottom.
DfsOrder ==
  /\ \A k, m \in 1 .. Len(dfs) :
       k < m => visitedOrder[dfs[k].node] < visitedOrder[dfs[m].node]
  /\ \A k \in 1 .. Len(dfs) : OnStack(dfs[k].node) /\ dfs[k].next >= 1
  /\ \A f \in Functions :
       OnStack(f) => Len(dfs) > 0 /\ visitedOrder[dfs[1].node] <= visitedOrder[f]

\* What was looked at was visited; a component leads to itself and older ones.
SeenVisited == \A f \in Functions : \A g \in Seen(f) : Visited(g)
Finished ==
  \A f \in Functions : sccNode[f] # 0 =>
    \A g \in Range(callees[f]) : sccNode[g] # 0 /\ sccNode[g] <= sccNode[f]

\* The lowest order of f is that of a function on the stack that f reaches.
LowReached ==
  \A f \in Functions : OnStack(f) =>
    \E h \in From(callees, f) :
      OnStack(h) /\ visitedOrder[h] = lowestOrder[f] /\ visitedOrder[h] <= visitedOrder[f]

\* One that was left stays on the stack only for a lower one.
LowLeaves ==
  \A f \in Functions : OnStack(f) /\ lowestOrder[f] = visitedOrder[f] =>
    \E k \in 1 .. Len(dfs) : dfs[k].node = f

\* f was visited while the k-th function was the latest of those still under way.
Under(k, f) ==
  /\ OnStack(f) /\ visitedOrder[dfs[k].node] <= visitedOrder[f]
  /\ \A m \in k + 1 .. Len(dfs) : visitedOrder[f] < visitedOrder[dfs[m].node]

LowBounds ==
  \A k \in 1 .. Len(dfs) : \A f \in Functions : Under(k, f) =>
    \A g \in Seen(f) : OnStack(g) => lowestOrder[dfs[k].node] <= visitedOrder[g]

\* A function under way reaches those that came on the stack after it.
GrayReaches ==
  \A k \in 1 .. Len(dfs) : \A f \in Functions :
    OnStack(f) /\ visitedOrder[dfs[k].node] <= visitedOrder[f] =>
      f \in From(callees, dfs[k].node)

\* The components list each of their functions once.
Listed ==
  \A s \in 1 .. Len(sccNodes) :
    /\ \A i \in 1 .. Len(sccNodes[s]) : sccNode[sccNodes[s][i]] = s
    /\ \A i, j \in 1 .. Len(sccNodes[s]) : sccNodes[s][i] = sccNodes[s][j] => i = j
    /\ \A f \in Functions : sccNode[f] = s => \E i \in 1 .. Len(sccNodes[s]) : sccNodes[s][i] = f
    /\ Len(sccNodes[s]) > 0

SearchInv ==
  /\ Orders /\ StackOrder /\ DfsOrder /\ SeenVisited /\ Finished /\ LowReached
  /\ LowLeaves /\ LowBounds /\ GrayReaches /\ Listed /\ ComponentsAreCycles

DfsInv == DfsTypes /\ SearchInv

\* Reachability is the same as long as the callees are.
LEMMA SameReaches ==
  ASSUME callees' = callees
  PROVE  \A f, g : Reaches(f, g)' <=> Reaches(f, g)
  BY DEF Reaches

\* The places of dfs.
LEMMA DfsFacts ==
  ASSUME DfsTypes
  PROVE  /\ Len(dfs) \in Nat
         /\ \A k \in 1 .. Len(dfs) : dfs[k].node \in Functions /\ dfs[k].next \in Nat
         /\ Len(visitStack) \in Nat
         /\ \A k \in 1 .. Len(visitStack) : visitStack[k] \in Functions
         /\ Len(sccNodes) \in Nat
         /\ \A s \in 1 .. Len(sccNodes) : sccNodes[s] \in Seq(Functions) /\ Len(sccNodes[s]) \in Nat
         /\ \A f \in Functions : /\ visitedOrder[f] \in Nat /\ lowestOrder[f] \in Nat
                                 /\ sccNode[f] \in 0 .. Len(sccNodes)
                                 /\ callees[f] \in Seq(Functions) /\ Len(callees[f]) \in Nat
                                 /\ \A i \in 1 .. Len(callees[f]) : callees[f][i] \in Functions
<1>1. \A k \in 1 .. Len(dfs) : dfs[k] \in Frames
  BY RangeFacts DEF DfsTypes
<1>2. \A k \in 1 .. Len(dfs) : dfs[k].node \in Functions /\ dfs[k].next \in Nat
  BY <1>1 DEF Frames
<1>3. \A s \in 1 .. Len(sccNodes) : sccNodes[s] \in Seq(Functions)
  BY DEF DfsTypes
<1>4. \A f \in Functions : callees[f] \in Seq(Functions)
  BY DEF DfsTypes, CalleesOK
<1> QED
  BY <1>2, <1>3, <1>4, RangeFacts, LenProperties DEF DfsTypes

\* The callees looked at are functions.
LEMMA SeenFacts ==
  ASSUME DfsTypes, NEW f \in Functions
  PROVE  Seen(f) \subseteq Functions /\ Seen(f) \subseteq Range(callees[f])
<1>1. callees[f] \in Seq(Functions)
  BY DfsFacts
<1>2. \A i \in 1 .. Len(callees[f]) : callees[f][i] \in Range(callees[f]) /\ callees[f][i] \in Functions
  BY <1>1, RangeFacts
<1> QED
  BY <1>2 DEF Seen

\* The functions of the stack.
LEMMA StackFacts ==
  ASSUME DfsTypes, StackOrder
  PROVE  \A f : f \in Range(visitStack) <=> f \in Functions /\ OnStack(f)
<1>1. visitStack \in Seq(Functions)
  BY DEF DfsTypes
<1>2. /\ Range(visitStack) \subseteq Functions
      /\ \A i \in 1 .. Len(visitStack) : visitStack[i] \in Range(visitStack)
      /\ \A x \in Range(visitStack) : \E i \in 1 .. Len(visitStack) : visitStack[i] = x
  BY <1>1, RangeFacts
<1> QED
  BY <1>2 DEF StackOrder

\* A new function is visited, from below.
LEMMA EnterStep ==
  ASSUME DfsInv, NEW g \in Functions, ~Visited(g), NEW below,
         Enter(g, below), lowestOrder' = [lowestOrder EXCEPT ![g] = visitIndex],
         UNCHANGED <<callees, sccNode, sccNodes>>,
         below \in Seq(Frames), Len(below) = Len(dfs),
         \A k \in 1 .. Len(dfs) : below[k].node = dfs[k].node /\ below[k].next >= 1,
         \A k \in 1 .. Len(dfs) : g \in From(callees, dfs[k].node),
         \A f \in Functions : Seen(f)' \subseteq Seen(f) \cup {g}
  PROVE  DfsInv'
<1>1. /\ DfsTypes /\ Orders /\ StackOrder /\ DfsOrder /\ SeenVisited /\ Finished /\ LowReached
      /\ LowLeaves /\ LowBounds /\ GrayReaches /\ Listed /\ ComponentsAreCycles
  BY DEF DfsInv, SearchInv
<1> PICK n : n = Len(dfs)
  OBVIOUS
<1>2. n \in Nat /\ \A k \in 1 .. n : dfs[k].node \in Functions
  BY <1>1, DfsFacts
<1>3. /\ dfs' \in Seq(Frames) /\ Len(dfs)' = n + 1
      /\ \A k \in 1 .. n : dfs'[k].node = dfs[k].node /\ dfs'[k].next >= 1
      /\ dfs'[n + 1].node = g /\ dfs'[n + 1].next = 1
  <2>1. [node |-> g, next |-> 1] \in Frames
    BY DEF Frames
  <2>2. \A k \in 1 .. n : dfs'[k] = below[k]
    BY <1>2, <2>1, AppendProperties DEF Enter
  <2>3. dfs'[n + 1] = [node |-> g, next |-> 1] /\ Len(dfs') = n + 1
        /\ dfs' \in Seq(Frames)
    BY <1>2, <2>1, AppendProperties DEF Enter
  <2>4. \A k \in 1 .. n : dfs'[k].node = below[k].node /\ dfs'[k].next = below[k].next
    BY <2>2
  <2>5. dfs'[n + 1].node = g /\ dfs'[n + 1].next = 1
    BY <2>3
  <2> QED
    BY <2>3, <2>4, <2>5
<1>4. /\ visitStack' \in Seq(Functions) /\ Len(visitStack)' = Len(visitStack) + 1
      /\ \A i \in 1 .. Len(visitStack) : visitStack'[i] = visitStack[i]
      /\ visitStack'[Len(visitStack) + 1] = g
      /\ Len(visitStack) \in Nat
  BY <1>1, AppendProperties, LenProperties DEF Enter, DfsTypes
<1>5. /\ \A f \in Functions : f # g => visitedOrder[f]' = visitedOrder[f] /\ lowestOrder'[f] = lowestOrder[f]
      /\ visitedOrder[g]' = visitIndex /\ lowestOrder'[g] = visitIndex
      /\ visitIndex' = visitIndex + 1
      /\ visitIndex \in Nat /\ visitIndex > 0
      /\ \A f \in Functions : /\ visitedOrder[f] \in Nat /\ visitedOrder[f] < visitIndex
                              /\ lowestOrder[f] \in Nat
                              /\ visitedOrder[f]' \in Nat
  BY <1>1 DEF DfsTypes, Enter, Orders
<1>6. /\ sccNode[g] = 0 /\ ~OnStack(g) /\ OnStack(g)' /\ Visited(g)'
      /\ \A f \in Functions : f # g => (OnStack(f)' <=> OnStack(f)) /\ (Visited(f)' <=> Visited(f))
  BY <1>1, <1>5 DEF OnStack, Visited, Orders
<1>7. \A k \in 1 .. n : dfs[k].node # g
  BY <1>1, <1>2, <1>6 DEF DfsOrder
<1>8. \A k \in 1 .. n : /\ visitedOrder'[dfs'[k].node] = visitedOrder[dfs[k].node]
                        /\ visitedOrder[dfs[k].node] < visitIndex
  BY <1>2, <1>5, <1>7, <1>3
<1>9. \A k \in 1 .. n + 1 : k \in 1 .. n \/ k = n + 1
  BY <1>2
<1>10. DfsTypes'
  <2>1. CalleesOK(callees')
    BY <1>1 DEF DfsTypes
  <2>2. visitedOrder' \in [Functions -> Nat] /\ lowestOrder' \in [Functions -> Nat]
    BY <1>1 DEF DfsTypes, Enter
  <2>3. sccNodes' \in Seq(Seq(Functions)) /\ sccNode' \in [Functions -> 0 .. Len(sccNodes')]
    BY <1>1 DEF DfsTypes
  <2> QED
    BY <1>3, <1>4, <1>5, <2>1, <2>2, <2>3 DEF DfsTypes, CalleesOK
<1>11. Orders'
  BY <1>1, <1>5, <1>6 DEF Orders, Visited
<1>12. StackOrder'
  <2> DEFINE m == Len(visitStack)
  <2>1. \A i \in 1 .. m : visitStack[i] # g /\ visitStack[i] \in Functions
    BY <1>1, <1>6, DfsFacts DEF StackOrder
  <2>2. \A i \in 1 .. m : /\ visitStack'[i] = visitStack[i]
                          /\ visitedOrder[visitStack[i]]' = visitedOrder[visitStack[i]]
                          /\ OnStack(visitStack[i])'
    BY <1>1, <1>4, <1>5, <1>6, <2>1 DEF StackOrder
  <2>3. visitStack'[m + 1] = g /\ \A i \in 1 .. m + 1 : i \in 1 .. m \/ i = m + 1
    BY <1>4
  <2>4. ASSUME NEW i \in 1 .. m + 1, NEW j \in 1 .. m + 1, i < j
        PROVE  (visitedOrder[visitStack[i]] < visitedOrder[visitStack[j]])'
    <3>1. i \in 1 .. m
      BY <1>4, <2>4
    <3>2. CASE j \in 1 .. m
      BY <1>1, <2>2, <2>4, <3>1, <3>2 DEF StackOrder
    <3>3. CASE j = m + 1
      BY <1>5, <2>1, <2>2, <2>3, <3>1, <3>3
    <3> QED
      BY <2>3, <3>2, <3>3
  <2>5. \A i \in 1 .. m + 1 : OnStack(visitStack[i])'
    BY <1>6, <2>2, <2>3
  <2>6. ASSUME NEW f \in Functions, OnStack(f)' PROVE \E i \in 1 .. m + 1 : visitStack'[i] = f
    <3>1. CASE f = g
      BY <1>4, <2>3, <3>1
    <3>2. CASE f # g
      BY <1>1, <1>4, <1>6, <2>2, <2>6, <3>2 DEF StackOrder
    <3> QED
      BY <3>1, <3>2
  <2> QED
    BY <1>4, <2>4, <2>5, <2>6 DEF StackOrder
<1>13. DfsOrder'
  <2>1. ASSUME NEW k \in 1 .. n + 1, NEW m \in 1 .. n + 1, k < m
        PROVE  (visitedOrder[dfs[k].node] < visitedOrder[dfs[m].node])'
    <3>1. k \in 1 .. n
      BY <1>2, <2>1
    <3>2. CASE m \in 1 .. n
      BY <1>1, <1>8, <2>1, <3>1, <3>2 DEF DfsOrder
    <3>3. CASE m = n + 1
      BY <1>2, <1>3, <1>5, <1>8, <3>1, <3>3
    <3> QED
      BY <1>9, <3>2, <3>3
  <2>2. ASSUME NEW k \in 1 .. n + 1 PROVE OnStack(dfs[k].node)' /\ dfs'[k].next >= 1
    BY <1>1, <1>2, <1>3, <1>6, <1>7, <1>9 DEF DfsOrder, OnStack
  <2>3. ASSUME NEW f \in Functions, OnStack(f)' PROVE (visitedOrder[dfs[1].node] <= visitedOrder[f])'
    <3>1. CASE n = 0
      <4>1. ~OnStack(f)
        BY <1>1, <3>1 DEF DfsOrder
      <4> QED
        BY <1>3, <1>5, <1>6, <2>3, <3>1, <4>1
    <3>2. CASE n > 0
      BY <1>1, <1>2, <1>5, <1>6, <1>8, <2>3, <3>2 DEF DfsOrder
    <3> QED
      BY <1>2, <3>1, <3>2
  <2> QED
    BY <1>2, <1>3, <2>1, <2>2, <2>3 DEF DfsOrder
<1>14. SeenVisited'
  <2>1. \A f \in Functions : \A h \in Seen(f) : h \in Functions
    BY <1>1, DfsFacts DEF Seen
  <2> QED
    BY <1>1, <1>6, <2>1 DEF SeenVisited
<1>15. Finished'
  BY <1>1 DEF Finished
<1>16. LowReached'
  <2>1. ASSUME NEW f \in Functions, OnStack(f)'
        PROVE  \E h \in From(callees', f) :
                 /\ OnStack(h)' /\ visitedOrder'[h] = lowestOrder'[f]
                 /\ visitedOrder'[h] <= visitedOrder'[f]
    <3>1. CASE f = g
      <4>1. g \in From(callees', g)
        BY <1>1, FromOrder DEF DfsTypes
      <4> QED
        BY <1>5, <1>6, <3>1, <4>1
    <3>2. CASE f # g
      <4>1. PICK h \in From(callees, f) :
              OnStack(h) /\ visitedOrder[h] = lowestOrder[f] /\ visitedOrder[h] <= visitedOrder[f]
        BY <1>1, <1>6, <2>1, <3>2 DEF LowReached
      <4>2. h \in Functions
        BY <1>1, FromOrder DEF DfsTypes
      <4> QED
        BY <1>5, <1>6, <3>2, <4>1, <4>2
    <3> QED
      BY <3>1, <3>2
  <2> QED
    BY <2>1 DEF LowReached
<1>17. LowLeaves'
  <2> SUFFICES ASSUME NEW f \in Functions, OnStack(f)', lowestOrder'[f] = visitedOrder'[f]
               PROVE  \E k \in 1 .. n + 1 : dfs'[k].node = f
    BY <1>3 DEF LowLeaves
  <2>1. CASE f = g
    BY <1>2, <1>3, <2>1
  <2>2. CASE f # g
    <3>1. PICK k \in 1 .. n : dfs[k].node = f
      BY <1>1, <1>5, <1>6, <2>2 DEF LowLeaves
    <3> QED
      BY <1>2, <1>3, <3>1
  <2> QED
    BY <2>1, <2>2
<1>18. LowBounds'
  <2> SUFFICES ASSUME NEW k \in 1 .. n + 1, NEW f \in Functions, Under(k, f)',
                      NEW h \in Seen(f)', OnStack(h)'
               PROVE  (lowestOrder[dfs[k].node] <= visitedOrder[h])'
    BY <1>3 DEF LowBounds
  <2>1. f # g
    <3>1. Seen(g)' = {}
      <4>1. \A i \in 1 .. Len(callees'[g]) : ~(i < dfs'[n + 1].next)
        BY <1>3
      <4>2. n + 1 \in 1 .. Len(dfs')
        BY <1>2, <1>3
      <4>3. \A i \in 1 .. Len(callees'[g]) :
              ~ \A m \in 1 .. Len(dfs') : dfs'[m].node = g => i < dfs'[m].next
        BY <1>3, <4>1, <4>2
      <4> QED
        BY <4>3 DEF Seen
    <3> QED
      BY <3>1
  <2>2. CASE k \in 1 .. n
    <3>1. OnStack(f) /\ visitedOrder[dfs[k].node] <= visitedOrder[f]
      BY <1>5, <1>6, <1>8, <2>1, <2>2 DEF Under
    <3>2. \A m \in k + 1 .. n : visitedOrder[f] < visitedOrder[dfs[m].node]
      <4> TAKE m \in k + 1 .. n
      <4>1. m \in 1 .. n /\ m \in k + 1 .. n + 1
        BY <1>2, <2>2
      <4>2. (visitedOrder[f] < visitedOrder[dfs[m].node])'
        BY <1>3, <4>1 DEF Under
      <4> QED
        BY <1>5, <1>8, <2>1, <4>1, <4>2
    <3>3. Under(k, f)
      BY <3>1, <3>2 DEF Under
    <3>4. dfs'[k].node = dfs[k].node /\ lowestOrder'[dfs[k].node] = lowestOrder[dfs[k].node]
      BY <1>2, <1>3, <1>5, <1>7, <2>2
    <3>5. CASE h = g
      <4>1. lowestOrder[dfs[k].node] <= visitedOrder[dfs[k].node] /\ visitedOrder[dfs[k].node] < visitIndex
        BY <1>1, <1>2, <1>5, <2>2 DEF LowReached, DfsOrder
      <4> QED
        BY <1>2, <1>5, <2>2, <3>4, <3>5, <4>1
    <3>6. CASE h # g
      <4>1. h \in Seen(f)
        BY <3>6
      <4>2. h \in Functions
        BY <1>1, <4>1, SeenFacts
      <4> QED
        BY <1>1, <1>5, <1>6, <2>2, <3>3, <3>4, <3>6, <4>1, <4>2 DEF LowBounds
    <3> QED
      BY <3>5, <3>6
  <2>3. CASE k = n + 1
    <3>1. visitedOrder[f]' >= visitIndex
      BY <1>3, <1>5, <2>3 DEF Under
    <3> QED
      BY <1>5, <2>1, <3>1
  <2> QED
    BY <1>9, <2>2, <2>3
<1>19. GrayReaches'
  <2> SUFFICES ASSUME NEW k \in 1 .. n + 1, NEW f \in Functions, OnStack(f)',
                      (visitedOrder[dfs[k].node] <= visitedOrder[f])'
               PROVE  f \in From(callees', dfs'[k].node)
    BY <1>3 DEF GrayReaches
  <2>1. CASE k \in 1 .. n
    <3>1. CASE f = g
      BY <1>3, <2>1, <3>1
    <3>2. CASE f # g
      BY <1>1, <1>3, <1>5, <1>6, <1>8, <2>1, <3>2 DEF GrayReaches
    <3> QED
      BY <3>1, <3>2
  <2>2. CASE k = n + 1
    <3>1. f = g
      BY <1>3, <1>5, <2>2
    <3> QED
      BY <1>1, <1>3, <2>2, <3>1, FromOrder DEF DfsTypes
  <2> QED
    BY <1>9, <2>1, <2>2
<1>20. Listed' /\ ComponentsAreCycles'
  BY <1>1, SameReaches DEF Listed, ComponentsAreCycles
<1> QED
  BY <1>10, <1>11, <1>12, <1>13, <1>14, <1>15, <1>16, <1>17, <1>18, <1>19, <1>20
     DEF DfsInv, SearchInv

\* The current frame goes on to its next callee.
LEMMA AdvancedFacts ==
  ASSUME DfsTypes, dfs # <<>>
  PROVE  /\ Len(dfs) > 0
         /\ Advanced \in Seq(Frames) /\ Len(Advanced) = Len(dfs)
         /\ \A k \in 1 .. Len(dfs) :
              /\ Advanced[k].node = dfs[k].node
              /\ k < Len(dfs) => Advanced[k].next = dfs[k].next
         /\ Advanced[Len(dfs)].next = dfs[Len(dfs)].next + 1
<1> PICK n : n = Len(dfs)
  OBVIOUS
<1>1. n \in Nat /\ n > 0 /\ dfs \in [1 .. n -> Frames]
  BY LenProperties, EmptySeq DEF DfsTypes
<1> PICK e : e = [dfs[n] EXCEPT !.next = @ + 1]
  OBVIOUS
<1>2. e \in Frames /\ e.node = dfs[n].node /\ e.next = dfs[n].next + 1
  <2>1. dfs[n] \in Frames
    BY <1>1
  <2> QED
    BY <2>1 DEF Frames
<1>3. Advanced = [dfs EXCEPT ![n] = e]
  BY DEF Advanced
<1>4. Advanced \in Seq(Frames) /\ Len(Advanced) = n
  BY <1>1, <1>2, <1>3, ExceptSeq DEF DfsTypes
<1>5. \A k \in 1 .. n : Advanced[k] = IF k = n THEN e ELSE dfs[k]
  BY <1>1, <1>3
<1>6. ASSUME NEW k \in 1 .. n
      PROVE  Advanced[k].node = dfs[k].node /\ (k < n => Advanced[k].next = dfs[k].next)
  <2>1. CASE k = n
    <3>1. Advanced[k] = e
      BY <1>5, <2>1
    <3> QED
      BY <1>1, <1>2, <2>1, <3>1
  <2>2. CASE k # n
    <3>1. Advanced[k] = dfs[k]
      BY <1>5, <2>2
    <3> QED
      BY <3>1
  <2> QED
    BY <2>1, <2>2
<1>7. Advanced[n].next = dfs[n].next + 1
  <2>1. Advanced[n] = e
    BY <1>1, <1>5
  <2> QED
    BY <1>2, <2>1
<1> QED
  BY <1>1, <1>4, <1>6, <1>7

\* By that, no more than this callee has been looked at.
LEMMA SeenAdvances ==
  ASSUME DfsTypes, dfs # <<>>, callees' = callees, NEW f \in Functions, Visited(f)' => Visited(f),
         Len(dfs) <= Len(dfs'), Len(dfs') \in Nat,
         \A k \in 1 .. Len(dfs) : dfs'[k] = Advanced[k]
  PROVE  \A g \in Seen(f)' : g \in Seen(f) \/ (f = Current.node /\ g = Callee)
<1> PICK n : n = Len(dfs)
  OBVIOUS
<1>1. n \in Nat /\ \A k \in 1 .. n : k \in 1 .. Len(dfs')
  BY DfsFacts
<1> TAKE g \in Seen(f)'
<1>2. PICK i \in 1 .. Len(callees[f]) :
        /\ g = callees[f][i] /\ Visited(f)'
        /\ \A k \in 1 .. Len(dfs') : dfs'[k].node = f => i < dfs'[k].next
  BY DEF Seen
<1>3. CASE \A k \in 1 .. n : dfs[k].node = f => i < dfs[k].next
  BY <1>2, <1>3 DEF Seen
<1>4. CASE \E k \in 1 .. n : dfs[k].node = f /\ ~(i < dfs[k].next)
  <2>1. PICK k \in 1 .. n : dfs[k].node = f /\ ~(i < dfs[k].next)
    BY <1>4
  <2>2. dfs'[k].node = f /\ i < dfs'[k].next
    BY <1>1, <1>2, <2>1, AdvancedFacts
  <2>3. k = n /\ i < dfs[n].next + 1
    BY <1>1, <2>1, <2>2, AdvancedFacts
  <2>4. dfs[n].next \in Nat /\ i \in Nat
    BY <1>1, <2>3, DfsFacts
  <2>5. i = dfs[n].next
    BY <2>1, <2>3, <2>4
  <2> QED
    BY <1>2, <2>1, <2>3, <2>5 DEF Current, Callee
<1> QED
  BY <1>3, <1>4

\* A callee that was visited before is looked at.
LEMMA LookStep ==
  ASSUME DfsInv, VisitCallee, visitedOrder[Callee] # 0
  PROVE  DfsInv'
<1>1. /\ DfsTypes /\ Orders /\ StackOrder /\ DfsOrder /\ SeenVisited /\ Finished /\ LowReached
      /\ LowLeaves /\ LowBounds /\ GrayReaches /\ Listed /\ ComponentsAreCycles
  BY DEF DfsInv, SearchInv
<1> PICK n, f, g : n = Len(dfs) /\ f = Current.node /\ g = Callee
  OBVIOUS
<1>2. /\ n \in Nat /\ n > 0 /\ dfs # <<>>
      /\ \A k \in 1 .. n : dfs[k].node \in Functions
      /\ n \in 1 .. n
  BY <1>1, DfsFacts, AdvancedFacts DEF VisitCallee, AtCallee
<1>3. /\ f = dfs[n].node /\ f \in Functions /\ g = callees[f][dfs[n].next]
      /\ g \in Functions /\ g \in Range(callees[f]) /\ Visited(g)
  <2>1. f = dfs[n].node /\ f \in Functions /\ g = callees[f][dfs[n].next]
        /\ dfs[n].next \in 1 .. Len(callees[f])
    BY <1>1, <1>2, DfsFacts DEF VisitCallee, AtCallee, Current, Callee, DfsOrder
  <2>2. callees[f] \in Seq(Functions)
    BY <1>1, <2>1, DfsFacts
  <2> QED
    BY <2>1, <2>2, RangeFacts DEF Visited
<1>4. UNCHANGED <<callees, visitStack, visitIndex, visitedOrder, sccNode, sccNodes>>
  BY DEF VisitCallee
<1>5. dfs' = Advanced
  BY DEF VisitCallee
<1>6. /\ dfs' \in Seq(Frames) /\ Len(dfs') = n
      /\ \A k \in 1 .. n : dfs'[k].node = dfs[k].node /\ dfs'[k].next >= 1
  <2>1. \A k \in 1 .. n : dfs[k].next \in Nat /\ dfs[k].next >= 1
    BY <1>1, DfsFacts DEF DfsOrder
  <2> QED
    BY <1>1, <1>2, <1>5, <2>1, AdvancedFacts
<1>7. \A x \in Functions : \A h \in Seen(x)' : h \in Seen(x) \/ (x = f /\ h = g)
  BY <1>1, <1>2, <1>4, <1>5, <1>6, SeenAdvances DEF Visited
<1>8. \A x \in Functions : (Visited(x)' <=> Visited(x)) /\ (OnStack(x)' <=> OnStack(x))
  BY <1>4 DEF Visited, OnStack
<1>9. OnStack(f) /\ (OnStack(g) => g \in Range(visitStack))
  <2>1. OnStack(f)
    BY <1>1, <1>2, <1>3 DEF DfsOrder
  <2>2. OnStack(g) => g \in Range(visitStack)
    BY <1>1, <1>3, StackFacts
  <2> QED
    BY <2>1, <2>2
<1>10. \A x \in Functions : visitedOrder[x] \in Nat /\ lowestOrder[x] \in Nat
  BY <1>1, DfsFacts
<1>11. /\ lowestOrder' \in [Functions -> Nat]
       /\ \A x \in Functions : lowestOrder'[x] \in Nat /\ lowestOrder'[x] <= lowestOrder[x]
       /\ \A x \in Functions : x # f => lowestOrder'[x] = lowestOrder[x]
       /\ lowestOrder'[f] = lowestOrder[f] \/ (lowestOrder'[f] = visitedOrder[g] /\ OnStack(g))
       /\ OnStack(g) => lowestOrder'[f] <= visitedOrder[g]
  <2>1. lowestOrder' = IF g \in Range(visitStack) /\ visitedOrder[g] < lowestOrder[f]
                       THEN [lowestOrder EXCEPT ![f] = visitedOrder[g]] ELSE lowestOrder
    BY DEF VisitCallee
  <2>2. g \in Range(visitStack) => OnStack(g)
    BY <1>1, StackFacts
  <2>3. lowestOrder \in [Functions -> Nat]
    BY <1>1 DEF DfsTypes
  <2>4. visitedOrder[g] \in Nat /\ lowestOrder[f] \in Nat
    BY <1>3, <1>10
  <2>5. CASE g \in Range(visitStack) /\ visitedOrder[g] < lowestOrder[f]
    <3>1. lowestOrder' = [lowestOrder EXCEPT ![f] = visitedOrder[g]]
      BY <2>1, <2>5
    <3>2. lowestOrder'[f] = visitedOrder[g] /\ \A x \in Functions : x # f => lowestOrder'[x] = lowestOrder[x]
      BY <1>3, <2>3, <3>1
    <3>3. lowestOrder' \in [Functions -> Nat]
      BY <1>3, <2>3, <2>4, <3>1
    <3>4. \A x \in Functions : lowestOrder'[x] \in Nat /\ lowestOrder'[x] <= lowestOrder[x]
      BY <1>10, <2>4, <2>5, <3>2
    <3> QED
      BY <2>2, <2>4, <2>5, <3>2, <3>3, <3>4
  <2>6. CASE ~(g \in Range(visitStack) /\ visitedOrder[g] < lowestOrder[f])
    <3>1. lowestOrder' = lowestOrder
      BY <2>1, <2>6
    <3> QED
      BY <1>9, <1>10, <2>3, <2>4, <2>6, <3>1
  <2> QED
    BY <2>5, <2>6
<1>12. DfsTypes'
  BY <1>1, <1>4, <1>6, <1>11 DEF DfsTypes, CalleesOK
<1>13. Orders' /\ StackOrder' /\ Finished' /\ Listed'
  BY <1>1, <1>4 DEF Orders, StackOrder, Finished, Listed, OnStack, Visited
<1>14. ComponentsAreCycles'
  BY <1>1, <1>4, SameReaches DEF ComponentsAreCycles
<1>15. DfsOrder'
  BY <1>1, <1>4, <1>6, <1>2 DEF DfsOrder, OnStack
<1>16. SeenVisited'
  BY <1>1, <1>3, <1>7, <1>8, SeenFacts DEF SeenVisited
<1>17. LowReached'
  <2> SUFFICES ASSUME NEW x \in Functions, OnStack(x)
               PROVE  \E h \in From(callees, x) :
                        /\ OnStack(h) /\ visitedOrder[h] = lowestOrder'[x]
                        /\ visitedOrder[h] <= visitedOrder[x]
    BY <1>4 DEF LowReached, OnStack
  <2>1. PICK h \in From(callees, x) :
          OnStack(h) /\ visitedOrder[h] = lowestOrder[x] /\ visitedOrder[h] <= visitedOrder[x]
    BY <1>1 DEF LowReached
  <2>2. CASE lowestOrder'[x] = lowestOrder[x]
    BY <2>1, <2>2
  <2>3. CASE lowestOrder'[x] # lowestOrder[x]
    <3>1. x = f /\ lowestOrder'[x] = visitedOrder[g] /\ OnStack(g)
      BY <1>11, <2>3
    <3>2. g \in From(callees, f)
      BY <1>1, <1>3, FromOrder DEF DfsTypes
    <3>3. visitedOrder[g] <= visitedOrder[x]
      BY <1>3, <1>10, <1>11, <2>1, <3>1
    <3> QED
      BY <3>1, <3>2, <3>3
  <2> QED
    BY <2>2, <2>3
<1>18. LowLeaves'
  <2> SUFFICES ASSUME NEW x \in Functions, OnStack(x), lowestOrder'[x] = visitedOrder[x]
               PROVE  \E k \in 1 .. n : dfs[k].node = x
    BY <1>4, <1>6 DEF LowLeaves, OnStack
  <2>1. CASE x = f
    BY <1>2, <1>3, <2>1
  <2>2. CASE x # f
    BY <1>1, <1>11, <2>2 DEF LowLeaves
  <2> QED
    BY <2>1, <2>2
<1>19. LowBounds'
  <2> SUFFICES ASSUME NEW k \in 1 .. n, NEW x \in Functions, Under(k, x)',
                      NEW h \in Seen(x)', OnStack(h)'
               PROVE  lowestOrder'[dfs'[k].node] <= visitedOrder'[h]
    BY <1>6 DEF LowBounds
  <2>1. Under(k, x)
    <3>1. OnStack(x) /\ visitedOrder[dfs[k].node] <= visitedOrder[x]
      BY <1>4, <1>6, <1>8 DEF Under
    <3>2. ASSUME NEW m \in k + 1 .. n PROVE visitedOrder[x] < visitedOrder[dfs[m].node]
      <4>1. m \in 1 .. n /\ m \in k + 1 .. Len(dfs')
        BY <1>2, <1>6
      <4>2. visitedOrder'[x] < visitedOrder'[dfs'[m].node]
        BY <4>1 DEF Under
      <4> QED
        BY <1>4, <1>6, <4>1, <4>2
    <3> QED
      BY <3>1, <3>2 DEF Under
  <2>2. OnStack(h)
    BY <1>4 DEF OnStack
  <2>3. CASE h \in Seen(x)
    <3>1. lowestOrder[dfs[k].node] <= visitedOrder[h] /\ h \in Functions
      BY <1>1, <2>1, <2>2, <2>3, SeenFacts DEF LowBounds
    <3> QED
      BY <1>2, <1>4, <1>6, <1>10, <1>11, <3>1
  <2>4. CASE x = f /\ h = g
    <3>1. k = n
      <4>1. ASSUME k < n PROVE FALSE
        <5>1. n \in k + 1 .. n
          BY <1>2, <4>1
        <5>2. visitedOrder[f] < visitedOrder[f]
          BY <1>3, <2>1, <2>4, <5>1 DEF Under
        <5> QED
          BY <1>3, <1>10, <5>2
      <4> QED
        BY <1>2, <4>1
    <3> QED
      BY <1>3, <1>4, <1>6, <1>11, <2>2, <2>4, <3>1
  <2> QED
    BY <1>7, <2>3, <2>4
<1>20. GrayReaches'
  BY <1>1, <1>4, <1>6 DEF GrayReaches, OnStack
<1> QED
  BY <1>12, <1>13, <1>14, <1>15, <1>16, <1>17, <1>18, <1>19, <1>20 DEF DfsInv, SearchInv

\* The frames below the current one, and what it has looked at by the end: all.
LEMMA LeaveFacts ==
  ASSUME DfsTypes, DfsOrder, dfs # <<>>, ~AtCallee, stage = "dfs", callees' = callees,
         visitedOrder' = visitedOrder, dfs' = SubSeq(dfs, 1, Len(dfs) - 1)
  PROVE  /\ dfs' \in Seq(Frames) /\ Len(dfs') = Len(dfs) - 1
         /\ \A k \in 1 .. Len(dfs) - 1 : dfs'[k] = dfs[k]
         /\ \A f \in Functions : Seen(f)' \subseteq Seen(f)
         /\ \A f \in Functions : Visited(f) /\ (\A k \in 1 .. Len(dfs) - 1 : dfs[k].node # f) =>
              Range(callees[f]) \subseteq Seen(f)
<1> PICK n, f : n = Len(dfs) /\ f = Current.node
  OBVIOUS
<1>1. n \in Nat /\ n > 0 /\ n - 1 \in Nat
  BY DfsFacts, AdvancedFacts
<1>2. /\ dfs' \in Seq(Frames) /\ Len(dfs') = n - 1
      /\ \A k \in 1 .. n - 1 : dfs'[k] = dfs[k]
  BY <1>1, SubSeqProperties DEF DfsTypes
<1>3. f = dfs[n].node /\ f \in Functions /\ ~(dfs[n].next <= Len(callees[f]))
  BY <1>1, DfsFacts DEF AtCallee, Current
<1>4. ASSUME NEW x \in Functions, NEW i \in 1 .. Len(callees[x]), Visited(x),
             \A k \in 1 .. n - 1 : dfs[k].node = x => i < dfs[k].next
      PROVE  callees[x][i] \in Seen(x)
  <2>1. ASSUME NEW k \in 1 .. n, dfs[k].node = x PROVE i < dfs[k].next
    <3>1. CASE k = n
      <4>1. dfs[n].next \in Nat /\ Len(callees[f]) \in Nat /\ i \in 1 .. Len(callees[f])
        BY <1>1, <1>3, <2>1, <3>1, DfsFacts
      <4> QED
        BY <1>3, <3>1, <4>1
    <3>2. CASE k # n
      BY <1>1, <1>4, <2>1, <3>2
    <3> QED
      BY <3>1, <3>2
  <2> QED
    BY <1>4, <2>1 DEF Seen
<1>5. ASSUME NEW x \in Functions, NEW g \in Seen(x)' PROVE g \in Seen(x)
  <2>1. PICK i \in 1 .. Len(callees[x]) :
          /\ g = callees[x][i] /\ Visited(x)
          /\ \A k \in 1 .. n - 1 : dfs'[k].node = x => i < dfs'[k].next
    BY <1>2 DEF Seen, Visited
  <2> QED
    BY <1>2, <1>4, <2>1
<1>6. ASSUME NEW x \in Functions, Visited(x), \A k \in 1 .. n - 1 : dfs[k].node # x
      PROVE  Range(callees[x]) \subseteq Seen(x)
  <2>1. callees[x] \in Seq(Functions)
    BY DfsFacts
  <2>2. \A g \in Range(callees[x]) : \E i \in 1 .. Len(callees[x]) : callees[x][i] = g
    BY <2>1, RangeFacts
  <2> QED
    BY <1>4, <1>6, <2>2
<1> QED
  BY <1>2, <1>5, <1>6

\* A function is left that reaches a lower one.
LEMMA ReturnStep ==
  ASSUME DfsInv, LeaveDFS, visitedOrder[Current.node] # lowestOrder[Current.node]
  PROVE  DfsInv'
<1>1. /\ DfsTypes /\ Orders /\ StackOrder /\ DfsOrder /\ SeenVisited /\ Finished /\ LowReached
      /\ LowLeaves /\ LowBounds /\ GrayReaches /\ Listed /\ ComponentsAreCycles
  BY DEF DfsInv, SearchInv
<1> PICK n, f : n = Len(dfs) /\ f = Current.node
  OBVIOUS
<1>2. UNCHANGED <<callees, visitStack, visitIndex, visitedOrder, sccNode, sccNodes>>
  BY DEF LeaveDFS
<1>3. /\ n \in Nat /\ n > 0 /\ n \in 1 .. n /\ dfs # <<>>
      /\ f = dfs[n].node
      /\ \A k \in 1 .. n : dfs[k].node \in Functions /\ OnStack(dfs[k].node) /\ dfs[k].next >= 1
      /\ \A x \in Functions : visitedOrder[x] \in Nat /\ lowestOrder[x] \in Nat
  BY <1>1, DfsFacts, AdvancedFacts DEF LeaveDFS, Current, DfsOrder
<1>4. PICK h \in From(callees, f) :
        OnStack(h) /\ visitedOrder[h] = lowestOrder[f] /\ visitedOrder[h] <= visitedOrder[f]
  BY <1>1, <1>3 DEF LowReached
<1>5. h \in Functions /\ lowestOrder[f] < visitedOrder[f]
  <2>1. h \in Functions
    BY <1>1, <1>3, FromOrder DEF DfsTypes
  <2> QED
    BY <1>3, <1>4, <2>1
<1>6. n > 1 /\ n - 1 \in 1 .. n
  <2>1. visitedOrder[dfs[1].node] <= visitedOrder[h]
    BY <1>1, <1>4, <1>5 DEF DfsOrder
  <2>2. n # 1
    BY <1>3, <1>4, <1>5, <2>1
  <2> QED
    BY <1>3, <2>2
<1> PICK c : c = dfs[n - 1].node
  OBVIOUS
<1>7. c \in Functions /\ OnStack(c) /\ visitedOrder[c] < visitedOrder[f] /\ f \in Functions
  BY <1>1, <1>3, <1>6 DEF DfsOrder
<1>8. /\ lowestOrder' \in [Functions -> Nat]
      /\ \A x \in Functions : x # c => lowestOrder'[x] = lowestOrder[x]
      /\ lowestOrder'[c] <= lowestOrder[c] /\ lowestOrder'[c] <= lowestOrder[f]
      /\ lowestOrder'[c] = lowestOrder[c] \/ lowestOrder'[c] = lowestOrder[f]
  <2>1. lowestOrder' = IF lowestOrder[f] < lowestOrder[c]
                       THEN [lowestOrder EXCEPT ![c] = lowestOrder[f]] ELSE lowestOrder
    <3>1. n # 1
      BY <1>3, <1>6
    <3> QED
      BY <3>1 DEF LeaveDFS, HandUp
  <2>2. lowestOrder \in [Functions -> Nat]
    BY <1>1 DEF DfsTypes
  <2>3. lowestOrder[c] \in Nat /\ lowestOrder[f] \in Nat
    BY <1>3, <1>7
  <2>4. CASE lowestOrder[f] < lowestOrder[c]
    <3>1. lowestOrder' = [lowestOrder EXCEPT ![c] = lowestOrder[f]]
      BY <2>1, <2>4
    <3> QED
      BY <1>7, <2>2, <2>3, <2>4, <3>1
  <2>5. CASE ~(lowestOrder[f] < lowestOrder[c])
    BY <2>1, <2>2, <2>3, <2>5
  <2> QED
    BY <2>4, <2>5
<1>9. /\ dfs' \in Seq(Frames) /\ Len(dfs') = n - 1 /\ n - 1 \in Nat
      /\ \A k \in 1 .. n - 1 : dfs'[k] = dfs[k] /\ k \in 1 .. n
      /\ \A x \in Functions : Seen(x)' \subseteq Seen(x)
  BY <1>1, <1>2, <1>3, LeaveFacts DEF LeaveDFS
<1>10. \A x \in Functions : (Visited(x)' <=> Visited(x)) /\ (OnStack(x)' <=> OnStack(x))
  BY <1>2 DEF Visited, OnStack
<1>11. DfsTypes'
  BY <1>1, <1>2, <1>8, <1>9 DEF DfsTypes, CalleesOK
<1>12. Orders' /\ StackOrder' /\ Finished' /\ Listed'
  BY <1>1, <1>2 DEF Orders, StackOrder, Finished, Listed, OnStack, Visited
<1>13. ComponentsAreCycles'
  BY <1>1, <1>2, SameReaches DEF ComponentsAreCycles
<1>14. DfsOrder'
  <2>1. 1 \in 1 .. n - 1
    BY <1>3, <1>6
  <2> QED
    BY <1>1, <1>2, <1>9, <2>1 DEF DfsOrder, OnStack
<1>15. SeenVisited'
  BY <1>1, <1>9, <1>10, SeenFacts DEF SeenVisited
<1>16. LowReached'
  <2> SUFFICES ASSUME NEW x \in Functions, OnStack(x)
               PROVE  \E y \in From(callees, x) :
                        /\ OnStack(y) /\ visitedOrder[y] = lowestOrder'[x]
                        /\ visitedOrder[y] <= visitedOrder[x]
    BY <1>2 DEF LowReached, OnStack
  <2>1. PICK y \in From(callees, x) :
          OnStack(y) /\ visitedOrder[y] = lowestOrder[x] /\ visitedOrder[y] <= visitedOrder[x]
    BY <1>1 DEF LowReached
  <2>2. CASE lowestOrder'[x] = lowestOrder[x]
    BY <2>1, <2>2
  <2>3. CASE lowestOrder'[x] # lowestOrder[x]
    <3>1. x = c /\ lowestOrder'[x] = lowestOrder[f]
      BY <1>8, <2>3
    <3>2. f \in From(callees, c)
      BY <1>1, <1>3, <1>6, <1>7 DEF GrayReaches
    <3>3. h \in From(callees, c)
      <4>1. From(callees, f) \subseteq From(callees, c)
        BY <1>1, <1>7, <3>2, FromOrder DEF DfsTypes
      <4> QED
        BY <4>1
    <3>4. visitedOrder[h] <= visitedOrder[x]
      BY <1>3, <1>4, <1>5, <1>7, <1>8, <2>1, <3>1
    <3> QED
      BY <1>4, <3>1, <3>3, <3>4
  <2> QED
    BY <2>2, <2>3
<1>17. LowLeaves'
  <2> SUFFICES ASSUME NEW x \in Functions, OnStack(x), lowestOrder'[x] = visitedOrder[x]
               PROVE  \E k \in 1 .. n - 1 : dfs'[k].node = x
    BY <1>2, <1>9 DEF LowLeaves, OnStack
  <2>1. CASE x = c
    BY <1>3, <1>6, <1>9, <2>1
  <2>2. CASE x # c
    <3>1. PICK k \in 1 .. n : dfs[k].node = x
      BY <1>1, <1>8, <2>2 DEF LowLeaves
    <3>2. k # n
      BY <1>3, <1>5, <1>7, <1>8, <2>2, <3>1
    <3>3. k \in 1 .. n - 1
      BY <1>3, <3>2
    <3> QED
      BY <1>9, <3>1, <3>3
  <2> QED
    BY <2>1, <2>2
<1>18. LowBounds'
  <2> SUFFICES ASSUME NEW k \in 1 .. n - 1, NEW x \in Functions, Under(k, x)',
                      NEW y \in Seen(x)', OnStack(y)'
               PROVE  lowestOrder'[dfs'[k].node] <= visitedOrder'[y]
    BY <1>9 DEF LowBounds
  <2>1. y \in Seen(x) /\ OnStack(y) /\ y \in Functions /\ visitedOrder[y] \in Nat
    BY <1>1, <1>3, <1>9, <1>10, SeenFacts
  <2>2. k \in 1 .. n /\ dfs'[k] = dfs[k] /\ dfs[k].node \in Functions
    BY <1>3, <1>9
  <2>3. /\ OnStack(x) /\ visitedOrder[dfs[k].node] <= visitedOrder[x]
        /\ \A m \in k + 1 .. n - 1 : visitedOrder[x] < visitedOrder[dfs[m].node]
    <3>1. OnStack(x) /\ visitedOrder[dfs[k].node] <= visitedOrder[x]
      BY <1>2, <1>10, <2>2 DEF Under
    <3>2. ASSUME NEW m \in k + 1 .. n - 1 PROVE visitedOrder[x] < visitedOrder[dfs[m].node]
      <4>1. m \in 1 .. n - 1 /\ m \in k + 1 .. Len(dfs')
        BY <1>3, <1>9
      <4>2. visitedOrder'[x] < visitedOrder'[dfs'[m].node]
        BY <4>1 DEF Under
      <4> QED
        BY <1>2, <1>9, <4>1, <4>2
    <3> QED
      BY <3>1, <3>2
  <2>4. CASE visitedOrder[x] < visitedOrder[f]
    <3>1. Under(k, x)
      <4>1. \A m \in k + 1 .. n : m = n \/ m \in k + 1 .. n - 1
        BY <1>3
      <4> QED
        BY <1>3, <2>3, <2>4, <4>1 DEF Under
    <3>2. lowestOrder[dfs[k].node] <= visitedOrder[y]
      BY <1>1, <2>1, <2>2, <3>1 DEF LowBounds
    <3>3. lowestOrder'[dfs[k].node] <= lowestOrder[dfs[k].node] /\ lowestOrder'[dfs[k].node] \in Nat
      <4>1. ASSUME NEW z \in Functions PROVE lowestOrder'[z] <= lowestOrder[z] /\ lowestOrder'[z] \in Nat
        BY <1>3, <1>8
      <4> QED
        BY <2>2, <4>1
    <3> QED
      BY <1>2, <1>3, <2>1, <2>2, <3>2, <3>3
  <2>5. CASE ~(visitedOrder[x] < visitedOrder[f])
    <3>1. k = n - 1
      <4>1. ASSUME k # n - 1 PROVE FALSE
        <5>1. n - 1 \in k + 1 .. n - 1
          BY <1>3, <4>1
        <5>2. visitedOrder[x] < visitedOrder[c]
          BY <2>3, <5>1
        <5> QED
          BY <1>3, <1>7, <2>5, <5>2
      <4> QED
        BY <4>1
    <3>2. Under(n, x)
      <4>1. n + 1 .. n = {}
        BY <1>3
      <4>2. visitedOrder[f] <= visitedOrder[x]
        BY <1>3, <1>7, <2>5
      <4> QED
        BY <1>3, <2>3, <4>1, <4>2 DEF Under
    <3>3. lowestOrder[f] <= visitedOrder[y]
      BY <1>1, <1>3, <2>1, <3>2 DEF LowBounds
    <3>4. lowestOrder'[c] <= lowestOrder[f] /\ lowestOrder'[c] \in Nat /\ lowestOrder[f] \in Nat
      BY <1>3, <1>7, <1>8
    <3> QED
      BY <1>2, <2>1, <2>2, <3>1, <3>3, <3>4
  <2> QED
    BY <2>4, <2>5
<1>19. GrayReaches'
  BY <1>1, <1>2, <1>9 DEF GrayReaches, OnStack
<1> QED
  BY <1>11, <1>12, <1>13, <1>14, <1>15, <1>16, <1>17, <1>18, <1>19 DEF DfsInv, SearchInv

\* What the current function leaves with, if its component ends with it.
LEMMA PoppedFacts ==
  ASSUME DfsTypes, StackOrder, NEW f \in Functions, OnStack(f)
  PROVE  /\ Popped(f) \in Seq(Functions) /\ Len(Popped(f)) > 0
         /\ \A g : g \in Range(Popped(f)) <=>
              g \in Functions /\ OnStack(g) /\ visitedOrder[f] <= visitedOrder[g]
         /\ \A i, j \in 1 .. Len(Popped(f)) : Popped(f)[i] = Popped(f)[j] => i = j
         /\ Len(visitStack) - Len(Popped(f)) \in Nat
         /\ \A i \in 1 .. Len(visitStack) :
              i <= Len(visitStack) - Len(Popped(f)) <=> visitedOrder[visitStack[i]] < visitedOrder[f]
<1> PICK n : n = Len(visitStack)
  OBVIOUS
<1>1. /\ n \in Nat /\ visitStack \in Seq(Functions) /\ DOMAIN visitStack = 1 .. n
      /\ \A i \in 1 .. n : visitStack[i] \in Functions
      /\ \A g \in Functions : visitedOrder[g] \in Nat
  BY DfsFacts, LenProperties DEF DfsTypes
<1> PICK from, p, m : from \in 1 .. n /\ visitStack[from] = f /\ p = Popped(f) /\ m = n - from + 1
                      /\ p = Reverse(SubSeq(visitStack, from, n))
  <2>1. \E i \in DOMAIN visitStack : visitStack[i] = f
    BY <1>1 DEF StackOrder
  <2> QED
    BY <1>1, <2>1 DEF Popped
<1>2. from \in 1 .. n /\ visitStack[from] = f
  OBVIOUS
<1>3. m \in Nat /\ m > 0 /\ n - m = from - 1 /\ n - m \in Nat /\ from \in Nat /\ m = n - from + 1
  BY <1>1, <1>2
<1>4. /\ p \in Seq(Functions) /\ Len(p) = m
      /\ \A i \in 1 .. m : n - i + 1 \in from .. n /\ p[i] = visitStack[n - i + 1]
  BY <1>1, <1>2, EndFacts
<1>5. /\ Range(p) \subseteq Functions
      /\ \A i \in 1 .. m : p[i] \in Range(p)
      /\ \A x \in Range(p) : \E i \in 1 .. m : p[i] = x
  BY <1>4, RangeFacts
<1>6. \A i, j \in 1 .. n : visitStack[i] = visitStack[j] => i = j
  <2> TAKE i, j \in 1 .. n
  <2>1. /\ i < j => visitedOrder[visitStack[i]] < visitedOrder[visitStack[j]]
        /\ j < i => visitedOrder[visitStack[j]] < visitedOrder[visitStack[i]]
    BY DEF StackOrder
  <2> QED
    BY <1>1, <2>1
<1>7. \A i \in 1 .. n : i < from <=> visitedOrder[visitStack[i]] < visitedOrder[f]
  <2> TAKE i \in 1 .. n
  <2>1. /\ i < from => visitedOrder[visitStack[i]] < visitedOrder[f]
        /\ from < i => visitedOrder[f] < visitedOrder[visitStack[i]]
    BY <1>2 DEF StackOrder
  <2> QED
    BY <1>1, <1>2, <2>1
<1>8. ASSUME NEW g
      PROVE  g \in Range(p) <=> g \in Functions /\ OnStack(g) /\ visitedOrder[f] <= visitedOrder[g]
  <2>1. ASSUME g \in Range(p)
        PROVE  g \in Functions /\ OnStack(g) /\ visitedOrder[f] <= visitedOrder[g]
    <3>1. PICK i \in 1 .. m : g = p[i]
      BY <1>5, <2>1
    <3>2. n - i + 1 \in 1 .. n /\ ~(n - i + 1 < from)
      BY <1>1, <1>3, <1>4
    <3>3. g = visitStack[n - i + 1] /\ OnStack(g) /\ g \in Functions
      BY <1>1, <1>4, <3>1, <3>2 DEF StackOrder
    <3>4. ~(visitedOrder[g] < visitedOrder[f])
      BY <1>7, <3>2, <3>3
    <3>5. visitedOrder[g] \in Nat /\ visitedOrder[f] \in Nat
      BY <1>1, <3>3
    <3> QED
      BY <3>3, <3>4, <3>5
  <2>2. ASSUME g \in Functions, OnStack(g), visitedOrder[f] <= visitedOrder[g]
        PROVE  g \in Range(p)
    <3>1. PICK i \in 1 .. n : visitStack[i] = g
      BY <2>2 DEF StackOrder
    <3>2. ~(i < from)
      BY <1>1, <1>7, <2>2, <3>1
    <3>3. n - i + 1 \in 1 .. m /\ n - (n - i + 1) + 1 = i
      BY <1>1, <1>3, <3>2
    <3> QED
      BY <1>4, <1>5, <3>1, <3>3
  <2> QED
    BY <2>1, <2>2
<1>9. \A i, j \in 1 .. m : p[i] = p[j] => i = j
  <2> TAKE i, j \in 1 .. m
  <2>1. n - i + 1 \in 1 .. n /\ n - j + 1 \in 1 .. n /\ (n - i + 1 = n - j + 1 => i = j)
    BY <1>1, <1>3
  <2> QED
    BY <1>4, <1>6, <2>1
<1>10. \A i \in 1 .. n : i <= n - m <=> visitedOrder[visitStack[i]] < visitedOrder[f]
  <2> TAKE i \in 1 .. n
  <2>1. i <= n - m <=> i < from
    BY <1>1, <1>3
  <2> QED
    BY <1>7, <2>1
<1> QED
  BY <1>3, <1>4, <1>8, <1>9, <1>10

\* The component is the functions above the current one on the stack.
LEMMA PopStep ==
  ASSUME DfsInv, LeaveDFS, visitedOrder[Current.node] = lowestOrder[Current.node]
  PROVE  DfsInv'
<1>1. /\ DfsTypes /\ Orders /\ StackOrder /\ DfsOrder /\ SeenVisited /\ Finished /\ LowReached
      /\ LowLeaves /\ LowBounds /\ GrayReaches /\ Listed /\ ComponentsAreCycles
  BY DEF DfsInv, SearchInv
<1> PICK n, f, new : n = Len(dfs) /\ f = Current.node /\ new = Len(sccNodes) + 1
  OBVIOUS
<1> DEFINE P(x) == OnStack(x) /\ visitedOrder[f] <= visitedOrder[x]
<1>2. UNCHANGED <<callees, visitIndex, visitedOrder>>
  BY DEF LeaveDFS
<1>3. /\ n \in Nat /\ n > 0 /\ n \in 1 .. n /\ dfs # <<>>
      /\ f = dfs[n].node /\ f \in Functions /\ OnStack(f)
      /\ \A k \in 1 .. n : dfs[k].node \in Functions /\ OnStack(dfs[k].node) /\ dfs[k].next >= 1
      /\ \A x \in Functions : visitedOrder[x] \in Nat /\ lowestOrder[x] \in Nat
                              /\ sccNode[x] \in 0 .. new - 1
      /\ new \in Nat /\ new > 0 /\ Len(sccNodes) = new - 1
  BY <1>1, DfsFacts, AdvancedFacts DEF LeaveDFS, Current, DfsOrder
<1>4. lowestOrder[f] = visitedOrder[f]
  OBVIOUS
<1> PICK p : p = Popped(f)
  OBVIOUS
<1>5. /\ p \in Seq(Functions) /\ Len(p) > 0
      /\ \A x : x \in Range(p) <=> x \in Functions /\ P(x)
      /\ \A i, j \in 1 .. Len(p) : p[i] = p[j] => i = j
      /\ Len(visitStack) - Len(p) \in Nat
      /\ \A i \in 1 .. Len(visitStack) :
           i <= Len(visitStack) - Len(p) <=> visitedOrder[visitStack[i]] < visitedOrder[f]
  BY <1>1, <1>3, PoppedFacts
<1>6. /\ sccNodes' = Append(sccNodes, p)
      /\ sccNode' = [x \in Functions |-> IF x \in Range(p) THEN new ELSE sccNode[x]]
      /\ visitStack' = SubSeq(visitStack, 1, Len(visitStack) - Len(p))
  BY DEF LeaveDFS
<1>7. /\ sccNode' \in [Functions -> 0 .. new]
      /\ \A x \in Functions : sccNode'[x] = IF P(x) THEN new ELSE sccNode[x]
  <2>1. ASSUME NEW x \in Functions
        PROVE  /\ (IF x \in Range(p) THEN new ELSE sccNode[x]) = IF P(x) THEN new ELSE sccNode[x]
               /\ (IF x \in Range(p) THEN new ELSE sccNode[x]) \in 0 .. new
    BY <1>3, <1>5
  <2> HIDE DEF P
  <2> QED
    BY <1>6, <2>1
<1>8. /\ sccNodes' \in Seq(Seq(Functions)) /\ Len(sccNodes') = new
      /\ \A s \in 1 .. new - 1 : sccNodes'[s] = sccNodes[s]
      /\ sccNodes'[new] = p
  <2> DEFINE A == Seq(Functions)
  <2>1. sccNodes \in Seq(A) /\ p \in A
    BY <1>1, <1>5 DEF DfsTypes
  <2> HIDE DEF A
  <2>2. /\ sccNodes' \in Seq(A) /\ Len(sccNodes') = Len(sccNodes) + 1
        /\ \A s \in 1 .. Len(sccNodes) : sccNodes'[s] = sccNodes[s]
        /\ sccNodes'[Len(sccNodes) + 1] = p
    BY <1>6, <2>1, AppendProperties
  <2> QED
    BY <1>3, <2>2 DEF A
<1>9. \A x \in Functions : /\ OnStack(x)' <=> OnStack(x) /\ visitedOrder[x] < visitedOrder[f]
                           /\ Visited(x)' <=> Visited(x)
                           /\ OnStack(x)' => ~P(x)
  BY <1>2, <1>3, <1>7 DEF OnStack, Visited
<1>10. lowestOrder' = lowestOrder
  <2>1. CASE n = 1
    BY <2>1 DEF LeaveDFS, HandUp
  <2>2. CASE n # 1
    <3>1. n - 1 \in 1 .. n
      BY <1>3, <2>2
    <3> PICK c : c = dfs[n - 1].node
      OBVIOUS
    <3>2. c \in Functions /\ visitedOrder[c] < visitedOrder[f] /\ OnStack(c)
      BY <1>1, <1>3, <3>1 DEF DfsOrder
    <3>3. lowestOrder[c] <= visitedOrder[c]
      BY <1>1, <3>2 DEF LowReached
    <3>4. ~(lowestOrder[f] < lowestOrder[c])
      BY <1>3, <1>4, <3>2, <3>3
    <3> QED
      BY <2>2, <3>4 DEF LeaveDFS, HandUp
  <2> QED
    BY <2>1, <2>2
<1>11. /\ dfs' \in Seq(Frames) /\ Len(dfs') = n - 1 /\ n - 1 \in Nat
       /\ \A k \in 1 .. n - 1 : dfs'[k] = dfs[k] /\ k \in 1 .. n
       /\ \A x \in Functions : Seen(x)' \subseteq Seen(x)
       /\ \A x \in Functions : Visited(x) /\ (\A k \in 1 .. n - 1 : dfs[k].node # x) =>
            Range(callees[x]) \subseteq Seen(x)
  <2>1. stage = "dfs" /\ ~AtCallee /\ dfs' = SubSeq(dfs, 1, Len(dfs) - 1)
    BY DEF LeaveDFS
  <2>2. /\ dfs' \in Seq(Frames) /\ Len(dfs') = n - 1
        /\ \A k \in 1 .. n - 1 : dfs'[k] = dfs[k]
        /\ \A x \in Functions : Seen(x)' \subseteq Seen(x)
        /\ \A x \in Functions : Visited(x) /\ (\A k \in 1 .. n - 1 : dfs[k].node # x) =>
             Range(callees[x]) \subseteq Seen(x)
    BY <1>1, <1>2, <1>3, <2>1, LeaveFacts
  <2>3. n - 1 \in Nat /\ \A k \in 1 .. n - 1 : k \in 1 .. n
    BY <1>3
  <2> QED
    BY <2>2, <2>3
<1>12. \A k \in 1 .. n - 1 : visitedOrder[dfs[k].node] < visitedOrder[f]
  BY <1>1, <1>3 DEF DfsOrder
\* The callees of the component are in it or in one before.
<1>13. ASSUME NEW x \in Functions, P(x), NEW g \in Range(callees[x])
       PROVE  g \in Functions /\ (P(g) \/ sccNode[g] # 0)
  <2>1. Visited(x)
    BY <1>13 DEF OnStack, Visited
  <2>2. \A k \in 1 .. n - 1 : dfs[k].node # x
    BY <1>3, <1>12, <1>13
  <2>3. g \in Seen(x)
    BY <1>11, <2>1, <2>2
  <2>4. g \in Functions /\ Visited(g)
    BY <1>1, <2>3, SeenFacts DEF SeenVisited
  <2>5. ASSUME OnStack(g) PROVE P(g)
    <3>1. n + 1 .. n = {}
      BY <1>3
    <3>2. Under(n, x)
      BY <1>3, <1>13, <3>1 DEF Under
    <3> QED
      BY <1>1, <1>3, <1>4, <2>3, <2>4, <2>5, <3>2 DEF LowBounds
  <2> QED
    BY <2>4, <2>5 DEF OnStack, Visited
\* So are those it reaches.
<1>14. ASSUME NEW x \in Functions, P(x) PROVE \A g \in From(callees, x) : P(g) \/ sccNode[g] # 0
  <2> DEFINE X == {g \in Functions : P(g) \/ sccNode[g] # 0}
  <2>1. \A y \in X \cap Functions : Range(callees[y]) \subseteq X
    <3>1. \A y \in Functions : Range(callees[y]) \subseteq Functions
      BY <1>1, FromOrder DEF DfsTypes
    <3> QED
      BY <1>1, <1>13, <3>1 DEF Finished
  <2>2. x \in X
    BY <1>14
  <2> HIDE DEF X
  <2>3. From(callees, x) \subseteq X
    BY <1>1, <2>1, <2>2, FromOrder DEF DfsTypes
  <2> QED
    BY <2>3 DEF X
\* Those of the components before reach only such ones.
<1>15. ASSUME NEW x \in Functions, sccNode[x] # 0 PROVE \A g \in From(callees, x) : sccNode[g] # 0
  <2> DEFINE X == {g \in Functions : sccNode[g] # 0}
  <2>1. \A y \in X \cap Functions : Range(callees[y]) \subseteq X
    <3>1. \A y \in Functions : Range(callees[y]) \subseteq Functions
      BY <1>1, FromOrder DEF DfsTypes
    <3> QED
      BY <1>1, <3>1 DEF Finished
  <2>2. x \in X
    BY <1>15
  <2> HIDE DEF X
  <2>3. From(callees, x) \subseteq X
    BY <1>1, <2>1, <2>2, FromOrder DEF DfsTypes
  <2> QED
    BY <2>3 DEF X
\* The current function reaches the component, which reaches it.
<1>16. ASSUME NEW x \in Functions, P(x) PROVE x \in From(callees, f)
  BY <1>1, <1>3, <1>16 DEF GrayReaches
<1>17. ASSUME NEW x \in Functions, P(x) PROVE f \in From(callees, x)
  <2> DEFINE B == {k \in Nat : \E y \in Functions : P(y) /\ visitedOrder[y] = k /\ f \notin From(callees, y)}
  <2> SUFFICES ASSUME B # {} PROVE FALSE
    BY <1>3, <1>17
  <2>1. PICK k \in B : \A j \in B : k <= j
    <3>1. B \subseteq Nat
      OBVIOUS
    <3> HIDE DEF B
    <3> QED
      BY <3>1, LeastNat
  <2>2. PICK y \in Functions : P(y) /\ visitedOrder[y] = k /\ f \notin From(callees, y)
    BY <2>1
  <2>3. y # f
    BY <1>1, <1>3, <2>2, FromOrder DEF DfsTypes
  <2>4. \A m \in 1 .. n : dfs[m].node # y
    <3>1. \A m \in 1 .. n : m = n \/ m \in 1 .. n - 1
      BY <1>3
    <3> QED
      BY <1>3, <1>12, <2>2, <2>3, <3>1
  <2>5. PICK h \in From(callees, y) :
          OnStack(h) /\ visitedOrder[h] = lowestOrder[y] /\ visitedOrder[h] <= visitedOrder[y]
    BY <1>1, <2>2 DEF LowReached
  <2>6. h \in Functions /\ visitedOrder[h] < visitedOrder[y]
    <3>1. h \in Functions
      BY <1>1, FromOrder DEF DfsTypes
    <3>2. lowestOrder[y] # visitedOrder[y]
      BY <1>1, <2>2, <2>4 DEF LowLeaves
    <3> QED
      BY <1>3, <2>5, <3>1, <3>2
  <2>7. P(h)
    <3>1. P(h) \/ sccNode[h] # 0
      BY <1>14, <2>2, <2>5
    <3> QED
      BY <2>5, <3>1 DEF OnStack
  <2>8. f \in From(callees, h)
    BY <1>3, <2>1, <2>2, <2>6, <2>7
  <2>9. From(callees, h) \subseteq From(callees, y)
    BY <1>1, <2>5, FromOrder DEF DfsTypes
  <2> QED
    BY <2>2, <2>8, <2>9
<1> HIDE DEF P
<1>18. DfsTypes'
  <2>1. visitStack' \in Seq(Functions)
    <3>1. visitStack \in Seq(Functions) /\ Len(visitStack) \in Nat /\ Len(p) \in Nat
      BY <1>1, <1>5, LenProperties DEF DfsTypes
    <3>2. 1 \in 1 .. Len(visitStack) + 1 /\ Len(visitStack) - Len(p) \in 1 - 1 .. Len(visitStack)
      BY <1>5, <3>1
    <3> QED
      BY <1>6, <3>1, <3>2, PartFacts
  <2> QED
    BY <1>1, <1>2, <1>7, <1>8, <1>10, <1>11, <2>1 DEF DfsTypes, CalleesOK
<1>19. Orders'
  BY <1>1, <1>2, <1>3, <1>7, <1>9 DEF Orders, Visited, OnStack, P
<1>20. StackOrder'
  <2> PICK m : m = Len(visitStack) - Len(p)
    OBVIOUS
  <2>1. /\ m \in Nat /\ Len(visitStack) \in Nat /\ m <= Len(visitStack)
        /\ \A i \in 1 .. Len(visitStack) : visitStack[i] \in Functions
    BY <1>1, <1>5, DfsFacts, LenProperties
  <2>2. /\ Len(visitStack') = m
        /\ \A i \in 1 .. m : visitStack'[i] = visitStack[i] /\ i \in 1 .. Len(visitStack)
    <3>1. visitStack \in Seq(Functions)
      BY <1>1 DEF DfsTypes
    <3>2. 1 \in 1 .. Len(visitStack) + 1 /\ m \in 1 - 1 .. Len(visitStack)
      BY <2>1
    <3>3. /\ Len(visitStack') = m - 1 + 1
          /\ \A i \in 1 .. m - 1 + 1 : visitStack'[i] = visitStack[1 + i - 1]
      <4>1. /\ Len(SubSeq(visitStack, 1, m)) = m - 1 + 1
            /\ \A i \in 1 .. m - 1 + 1 : SubSeq(visitStack, 1, m)[i] = visitStack[1 + i - 1]
        BY ONLY <3>1, <3>2, PartFacts
      <4> QED
        BY <1>6, <4>1
    <3> QED
      BY <2>1, <3>3
  <2>3. \A i \in 1 .. m : visitedOrder'[visitStack[i]] # 0 /\ sccNode'[visitStack[i]] = 0
    <3>1. \A i \in 1 .. m : OnStack(visitStack[i]) /\ visitedOrder[visitStack[i]] < visitedOrder[f]
      <4> TAKE i \in 1 .. m
      <4>1. i \in 1 .. Len(visitStack) /\ i <= m
        BY <2>1
      <4>2. visitedOrder[visitStack[i]] < visitedOrder[f]
        BY <1>5, <4>1
      <4> QED
        BY <1>1, <4>1, <4>2 DEF StackOrder
    <3> QED
      BY <1>9, <2>1, <2>2, <3>1 DEF OnStack
  <2>4. ASSUME NEW x \in Functions, OnStack(x)' PROVE \E i \in 1 .. m : visitStack[i] = x
    <3>1. OnStack(x) /\ visitedOrder[x] < visitedOrder[f]
      BY <1>9, <2>4
    <3>2. PICK i \in 1 .. Len(visitStack) : visitStack[i] = x
      BY <1>1, <3>1 DEF StackOrder
    <3>3. i <= m
      BY <1>5, <3>1, <3>2
    <3> QED
      BY <2>1, <3>2, <3>3
  <2>5. \A i, j \in 1 .. m : i < j => visitedOrder'[visitStack'[i]] < visitedOrder'[visitStack'[j]]
    BY <1>1, <1>2, <2>2 DEF StackOrder
  <2>6. \A i \in 1 .. m : OnStack(visitStack[i])'
    BY <2>2, <2>3 DEF OnStack
  <2> QED
    BY <2>2, <2>4, <2>5, <2>6 DEF StackOrder
<1>21. DfsOrder'
  <2>1. \A k \in 1 .. n - 1 : visitedOrder'[dfs[k].node] # 0 /\ sccNode'[dfs[k].node] = 0
    BY <1>3, <1>9, <1>11, <1>12 DEF OnStack
  <2>2. \A k \in 1 .. n - 1 : OnStack(dfs[k].node)' /\ dfs'[k].next >= 1
    BY <1>3, <1>11, <2>1 DEF OnStack
  <2>3. ASSUME NEW x \in Functions, OnStack(x)'
        PROVE  n - 1 > 0 /\ visitedOrder[dfs'[1].node] <= visitedOrder[x]
    <3>1. OnStack(x) /\ visitedOrder[x] < visitedOrder[f] /\ visitedOrder[dfs[1].node] <= visitedOrder[x]
      BY <1>1, <1>9, <2>3 DEF DfsOrder
    <3>2. n # 1
      BY <1>3, <3>1
    <3>3. 1 \in 1 .. n - 1
      BY <1>3, <3>2
    <3> QED
      BY <1>3, <1>11, <3>1, <3>2, <3>3
  <2> QED
    BY <1>1, <1>2, <1>11, <2>2, <2>3 DEF DfsOrder
<1>22. SeenVisited'
  BY <1>1, <1>9, <1>11, SeenFacts DEF SeenVisited
<1>23. Finished'
  <2> SUFFICES ASSUME NEW x \in Functions, sccNode'[x] # 0, NEW g \in Range(callees[x])
               PROVE  sccNode'[g] # 0 /\ sccNode'[g] <= sccNode'[x]
    BY <1>2 DEF Finished
  <2>1. g \in Functions /\ sccNode[g] \in 0 .. new - 1 /\ sccNode[x] \in 0 .. new - 1
    <3>1. Range(callees[x]) \subseteq Functions
      BY <1>1, FromOrder DEF DfsTypes
    <3> QED
      BY <1>3, <3>1
  <2>2. CASE P(x)
    <3>1. P(g) \/ sccNode[g] # 0
      BY <1>13, <2>2 DEF P
    <3> QED
      BY <1>3, <1>7, <2>1, <2>2, <3>1
  <2>3. CASE ~P(x)
    <3>1. sccNode[x] # 0 /\ sccNode'[x] = sccNode[x]
      BY <1>7, <2>3
    <3>2. sccNode[g] # 0 /\ sccNode[g] <= sccNode[x]
      BY <1>1, <3>1 DEF Finished
    <3>3. sccNode'[g] = sccNode[g]
      BY <1>7, <2>1, <3>2 DEF P, OnStack
    <3> QED
      BY <3>1, <3>2, <3>3
  <2> QED
    BY <2>2, <2>3
<1>24. LowReached'
  <2> SUFFICES ASSUME NEW x \in Functions, OnStack(x)'
               PROVE  \E h \in From(callees, x) :
                        /\ OnStack(h)' /\ visitedOrder[h] = lowestOrder[x]
                        /\ visitedOrder[h] <= visitedOrder[x]
    BY <1>2, <1>10 DEF LowReached
  <2>1. OnStack(x) /\ visitedOrder[x] < visitedOrder[f]
    BY <1>9
  <2>2. PICK h \in From(callees, x) :
          OnStack(h) /\ visitedOrder[h] = lowestOrder[x] /\ visitedOrder[h] <= visitedOrder[x]
    BY <1>1, <2>1 DEF LowReached
  <2>3. h \in Functions
    BY <1>1, FromOrder DEF DfsTypes
  <2>4. visitedOrder[h] < visitedOrder[f]
    BY <1>3, <2>1, <2>2, <2>3
  <2> QED
    BY <1>9, <2>2, <2>3, <2>4
<1>25. LowLeaves'
  <2> SUFFICES ASSUME NEW x \in Functions, OnStack(x)', lowestOrder[x] = visitedOrder[x]
               PROVE  \E k \in 1 .. n - 1 : dfs'[k].node = x
    BY <1>2, <1>10, <1>11 DEF LowLeaves
  <2>1. OnStack(x) /\ visitedOrder[x] < visitedOrder[f]
    BY <1>9
  <2>2. PICK k \in 1 .. n : dfs[k].node = x
    BY <1>1, <2>1 DEF LowLeaves
  <2>3. k # n
    BY <1>3, <2>1, <2>2
  <2>4. k \in 1 .. n - 1
    BY <1>3, <2>3
  <2> QED
    BY <1>11, <2>2, <2>4
<1>26. LowBounds'
  <2> SUFFICES ASSUME NEW k \in 1 .. n - 1, NEW x \in Functions, Under(k, x)',
                      NEW y \in Seen(x)', OnStack(y)'
               PROVE  lowestOrder[dfs[k].node] <= visitedOrder[y]
    BY <1>2, <1>10, <1>11 DEF LowBounds
  <2>1. y \in Seen(x) /\ y \in Functions /\ OnStack(y)
    BY <1>1, <1>9, <1>11, SeenFacts
  <2>2. k \in 1 .. n /\ dfs'[k] = dfs[k]
    BY <1>11
  <2>3. /\ OnStack(x) /\ visitedOrder[dfs[k].node] <= visitedOrder[x]
        /\ visitedOrder[x] < visitedOrder[f]
        /\ \A m \in k + 1 .. n - 1 : visitedOrder[x] < visitedOrder[dfs[m].node]
    <3>1. OnStack(x)' /\ visitedOrder'[dfs'[k].node] <= visitedOrder'[x]
      BY DEF Under
    <3>2. ASSUME NEW m \in k + 1 .. n - 1 PROVE visitedOrder[x] < visitedOrder[dfs[m].node]
      <4>1. m \in 1 .. n - 1 /\ m \in k + 1 .. Len(dfs')
        BY <1>3, <1>11
      <4>2. visitedOrder'[x] < visitedOrder'[dfs'[m].node]
        BY <4>1 DEF Under
      <4> QED
        BY <1>2, <1>11, <4>1, <4>2
    <3> QED
      BY <1>2, <1>9, <2>2, <3>1, <3>2
  <2>4. Under(k, x)
    <3>1. \A m \in k + 1 .. n : m = n \/ m \in k + 1 .. n - 1
      BY <1>3
    <3> QED
      BY <1>3, <2>3, <3>1 DEF Under
  <2> QED
    BY <1>1, <2>1, <2>2, <2>4 DEF LowBounds
<1>27. GrayReaches'
  <2> SUFFICES ASSUME NEW k \in 1 .. n - 1, NEW x \in Functions, OnStack(x)',
                      visitedOrder[dfs[k].node] <= visitedOrder[x]
               PROVE  x \in From(callees, dfs[k].node)
    BY <1>2, <1>11 DEF GrayReaches
  <2> QED
    BY <1>1, <1>9, <1>11 DEF GrayReaches
<1>28. Listed'
  <2> SUFFICES ASSUME NEW s \in 1 .. new
               PROVE  /\ \A i \in 1 .. Len(sccNodes'[s]) : sccNode'[sccNodes'[s][i]] = s
                      /\ \A i, j \in 1 .. Len(sccNodes'[s]) : sccNodes'[s][i] = sccNodes'[s][j] => i = j
                      /\ \A x \in Functions :
                           sccNode'[x] = s => \E i \in 1 .. Len(sccNodes'[s]) : sccNodes'[s][i] = x
                      /\ Len(sccNodes'[s]) > 0
    BY <1>8 DEF Listed
  <2>1. CASE s = new
    <3>1. \A i \in 1 .. Len(p) : p[i] \in Range(p)
      BY <1>5, RangeFacts
    <3>2. \A x \in Range(p) : \E i \in 1 .. Len(p) : p[i] = x
      BY <1>5, RangeFacts
    <3>3. \A i \in 1 .. Len(p) : sccNode'[p[i]] = new
      BY <1>5, <1>7, <3>1
    <3>4. \A x \in Functions : sccNode'[x] = new => x \in Range(p)
      <4>1. \A x \in Functions : sccNode[x] # new
        BY <1>3
      <4> QED
        BY <1>5, <1>7, <4>1
    <3> QED
      BY <1>5, <1>8, <2>1, <3>2, <3>3, <3>4
  <2>2. CASE s # new
    <3>1. s \in 1 .. new - 1 /\ sccNodes'[s] = sccNodes[s] /\ sccNodes[s] \in Seq(Functions)
      BY <1>1, <1>3, <1>8, <2>2, DfsFacts
    <3>2. \A i \in 1 .. Len(sccNodes[s]) : sccNodes[s][i] \in Functions
      BY <3>1, RangeFacts
    <3>3. \A x \in Functions : sccNode'[x] = s <=> sccNode[x] = s
      BY <1>3, <1>7, <2>2, <3>1 DEF P, OnStack
    <3> QED
      BY <1>1, <1>3, <3>1, <3>2, <3>3 DEF Listed
  <2> QED
    BY <2>1, <2>2
<1>29. ComponentsAreCycles'
  <2> SUFFICES ASSUME NEW x \in Functions, NEW y \in Functions, sccNode'[x] # 0, sccNode'[y] # 0
               PROVE  sccNode'[x] = sccNode'[y] <=> y \in From(callees, x) /\ x \in From(callees, y)
    <3>1. \A x, y : Reaches(x, y)' <=> y \in From(callees, x)
      BY <1>2, SameReaches, ReachesIs
    <3> QED
      BY <3>1 DEF ComponentsAreCycles
  <2>1. CASE P(x) /\ P(y)
    <3>1. From(callees, f) \subseteq From(callees, x) /\ From(callees, f) \subseteq From(callees, y)
      BY <1>1, <1>17, <2>1, FromOrder DEF DfsTypes, P
    <3>2. x \in From(callees, f) /\ y \in From(callees, f)
      BY <1>16, <2>1 DEF P
    <3> QED
      BY <1>7, <2>1, <3>1, <3>2
  <2>2. CASE ~P(x) /\ ~P(y)
    <3>1. sccNode[x] # 0 /\ sccNode[y] # 0 /\ sccNode'[x] = sccNode[x] /\ sccNode'[y] = sccNode[y]
      BY <1>7, <2>2
    <3> QED
      BY <1>1, <3>1, ReachesIs DEF ComponentsAreCycles
  <2>3. CASE P(x) /\ ~P(y)
    <3>1. sccNode[y] # 0 /\ sccNode'[y] = sccNode[y] /\ sccNode'[x] = new /\ sccNode[x] = 0
      BY <1>7, <2>3 DEF P, OnStack
    <3>2. x \notin From(callees, y)
      BY <1>15, <3>1
    <3> QED
      BY <1>3, <3>1, <3>2
  <2>4. CASE ~P(x) /\ P(y)
    <3>1. sccNode[x] # 0 /\ sccNode'[x] = sccNode[x] /\ sccNode'[y] = new /\ sccNode[y] = 0
      BY <1>7, <2>4 DEF P, OnStack
    <3>2. y \notin From(callees, x)
      BY <1>15, <3>1
    <3> QED
      BY <1>3, <3>1, <3>2
  <2> QED
    BY <2>1, <2>2, <2>3, <2>4
<1> QED
  BY <1>18, <1>19, <1>20, <1>21, <1>22, <1>23, <1>24, <1>25, <1>26, <1>27, <1>28, <1>29
     DEF DfsInv, SearchInv

\* The search keeps its invariant.
LEMMA StartStep ==
  ASSUME DfsInv, StartDFS
  PROVE  DfsInv'
<1> PICK g : g = NextStart
  OBVIOUS
<1>1. /\ DfsTypes /\ Orders /\ DfsOrder
  BY DEF DfsInv, SearchInv
<1>2. Len(dfs) = 0 /\ Waiting # {} /\ UNCHANGED <<callees, sccNode, sccNodes>>
  BY EmptySeq DEF StartDFS
<1>3. g \in Waiting /\ g \in Functions
  <2>1. Starts # {} /\ Starts \subseteq Waiting /\ Waiting \subseteq Functions
    BY <1>2 DEF Starts, Waiting
  <2>2. \E k \in Starts : \A j \in Starts : k <= j
    <3>1. Starts \subseteq Nat
      <4>1. Functions \subseteq Nat
        BY FunctionsAssumption, FS_CardinalityType
      <4> QED
        BY <2>1, <4>1
    <3> QED
      BY <2>1, <3>1, LeastNat
  <2>3. g \in Starts
    BY <2>2 DEF NextStart
  <2> QED
    BY <2>1, <2>3
<1>4. sccNode[g] = 0 /\ ~OnStack(g)
  BY <1>1, <1>2, <1>3 DEF Waiting, DfsOrder
<1>5. ~Visited(g)
  BY <1>4 DEF Visited, OnStack
<1>6. /\ Enter(g, <<>>) /\ lowestOrder' = [lowestOrder EXCEPT ![g] = visitIndex]
      /\ <<>> \in Seq(Frames) /\ Len(<<>>) = Len(dfs)
  BY <1>2 DEF StartDFS
<1>7. \A f \in Functions : Seen(f)' \subseteq Seen(f) \cup {g}
  <2> SUFFICES ASSUME NEW f \in Functions, NEW h \in Seen(f)', h # g PROVE h \in Seen(f)
    OBVIOUS
  <2>1. dfs' = Append(<<>>, [node |-> g, next |-> 1])
    BY <1>6 DEF Enter
  <2>2. [node |-> g, next |-> 1] \in Frames
    BY <1>3 DEF Frames
  <2>3. Len(dfs') = 1 /\ dfs'[1] = [node |-> g, next |-> 1]
    BY <2>1
  <2>4. PICK i \in 1 .. Len(callees[f]) :
          /\ h = callees[f][i] /\ Visited(f)'
          /\ \A k \in 1 .. 1 : dfs'[k].node = f => i < dfs'[k].next
    BY <1>2, <2>3 DEF Seen
  <2>5. f # g
    <3>1. dfs'[1].node = g /\ dfs'[1].next = 1
      BY <2>3
    <3> QED
      BY <2>4, <3>1
  <2>6. Visited(f)
    BY <1>1, <1>6, <2>4, <2>5 DEF Visited, Enter, DfsTypes
  <2> QED
    BY <1>2, <2>4, <2>6 DEF Seen
<1>8. 1 .. Len(dfs) = {}
  BY <1>2
<1> QED
  BY <1>2, <1>3, <1>5, <1>6, <1>7, <1>8, EnterStep

\* So does the visit of a callee for the first time.
LEMMA VisitStep ==
  ASSUME DfsInv, VisitCallee, visitedOrder[Callee] = 0
  PROVE  DfsInv'
<1> PICK n, f, g : n = Len(dfs) /\ f = Current.node /\ g = Callee
  OBVIOUS
<1>1. /\ DfsTypes /\ Orders /\ DfsOrder /\ GrayReaches
  BY DEF DfsInv, SearchInv
<1>2. /\ n \in Nat /\ n > 0 /\ n \in 1 .. n /\ dfs # <<>> /\ f = dfs[n].node
      /\ \A k \in 1 .. n : dfs[k].node \in Functions /\ OnStack(dfs[k].node)
      /\ \A k \in 1 .. n : dfs[k].next >= 1 /\ dfs[k].next \in Nat
      /\ \A x \in Functions : visitedOrder[x] \in Nat
  BY <1>1, DfsFacts, AdvancedFacts DEF VisitCallee, AtCallee, Current, DfsOrder
<1>3. g \in Functions /\ g \in Range(callees[f]) /\ ~Visited(g)
  <2>1. g = callees[f][dfs[n].next] /\ dfs[n].next \in 1 .. Len(callees[f])
    BY <1>1, <1>2, DfsFacts DEF VisitCallee, AtCallee, Current, Callee
  <2>2. callees[f] \in Seq(Functions)
    BY <1>1, <1>2, DfsFacts
  <2> QED
    BY <2>1, <2>2, RangeFacts DEF Visited
<1>4. /\ Enter(g, Advanced) /\ lowestOrder' = [lowestOrder EXCEPT ![g] = visitIndex]
      /\ UNCHANGED <<callees, sccNode, sccNodes>>
  BY DEF VisitCallee
<1>5. /\ Advanced \in Seq(Frames) /\ Len(Advanced) = n
      /\ \A k \in 1 .. n : Advanced[k].node = dfs[k].node /\ Advanced[k].next >= 1
  BY <1>1, <1>2, AdvancedFacts
<1>6. ASSUME NEW k \in 1 .. n PROVE g \in From(callees, dfs[k].node)
  <2>1. visitedOrder[dfs[k].node] <= visitedOrder[f]
    BY <1>1, <1>2 DEF DfsOrder
  <2>2. f \in From(callees, dfs[k].node)
    BY <1>1, <1>2, <2>1 DEF GrayReaches
  <2>3. From(callees, f) \subseteq From(callees, dfs[k].node) /\ g \in From(callees, f)
    BY <1>1, <1>2, <1>3, <2>2, FromOrder DEF DfsTypes
  <2> QED
    BY <2>3
<1>7. \A x \in Functions : Seen(x)' \subseteq Seen(x) \cup {g}
  <2> SUFFICES ASSUME NEW x \in Functions, NEW h \in Seen(x)', h # g PROVE h \in Seen(x)
    OBVIOUS
  <2>1. dfs' = Append(Advanced, [node |-> g, next |-> 1])
    BY <1>4 DEF Enter
  <2>2. [node |-> g, next |-> 1] \in Frames
    BY <1>3 DEF Frames
  <2>3. Len(dfs') = n + 1 /\ \A k \in 1 .. n : dfs'[k] = Advanced[k]
        /\ dfs'[n + 1] = [node |-> g, next |-> 1]
    BY <1>5, <2>1, <2>2, AppendProperties
  <2>4. x # g
    <3>1. dfs'[n + 1].node = g /\ dfs'[n + 1].next = 1 /\ n + 1 \in 1 .. Len(dfs')
      BY <1>2, <2>3
    <3>2. PICK i \in 1 .. Len(callees'[x]) :
            \A k \in 1 .. Len(dfs') : dfs'[k].node = x => i < dfs'[k].next
      BY DEF Seen
    <3> QED
      BY <3>1, <3>2
  <2>5. Visited(x)' => Visited(x)
    BY <1>1, <1>4, <2>4 DEF Visited, Enter, DfsTypes
  <2> QED
    BY <1>1, <1>2, <1>4, <2>3, <2>5, SeenAdvances
<1> QED
  BY <1>2, <1>3, <1>4, <1>5, <1>6, <1>7, EnterStep

-----------------------------------------------------------------------------
(* Sequences without repetition. *)

\* U[i] is the first i of the n sequences q, one behind the other.
Flattens(n, q, U) ==
  U[1] = q[1] /\ \A i \in 1 .. n : i # 1 => U[i] = U[i-1] \o q[i]

\* FlattenSeq, step by step.
LEMMA FlatSteps ==
  ASSUME NEW A, NEW n \in Nat, n # 0, NEW q, q \in [1 .. n -> Seq(A)]
  PROVE  \E U : FlattenSeq(q) = U[n] /\ Flattens(n, q, U)
<1>1. q \in Seq(Seq(A)) /\ Len(q) = n
  BY FunctionSeq
<1> DEFINE T == Seq(A)
           g == [i \in 1 .. n |-> [t \in T |-> t \o q[i]]]
           Eq(F) == F = [i \in 1 .. n |-> IF i = 1 THEN q[i] ELSE F[i-1] \o q[i]]
           U == CHOOSE F : Eq(F)
<1>2. <<>> \in T
  BY EmptyFacts
<1>3. ASSUME NEW i \in 1 .. n, NEW t \in T PROVE g[i][t] \in T /\ g[i][t] = t \o q[i]
  BY ConcatProperties
<1>4. PICK R \in [0 .. n -> T] : Iterates(n, <<>>, g, R)
  <2> HIDE DEF T, g
  <2> QED
    BY <1>2, <1>3, Iteration
<1>5. R[0] = <<>> /\ \A i \in 1 .. n : R[i] = R[i-1] \o q[i]
  <2>1. R[0] = <<>>
    BY <1>4 DEF Iterates
  <2>2. ASSUME NEW i \in 1 .. n PROVE R[i] = R[i-1] \o q[i]
    <3>1. i \in 0 .. n /\ i - 1 \in 0 .. n /\ i # 0
      OBVIOUS
    <3>2. R[i-1] \in T
      BY <1>4, <3>1
    <3>3. R[i] = g[i][R[i-1]]
      <4> HIDE DEF T, g
      <4> QED
        BY <1>4, <3>1 DEF Iterates
    <3> HIDE DEF T, g
    <3> QED
      BY <1>3, <3>2, <3>3
  <2> QED
    BY <2>1, <2>2
<1> HIDE DEF g
<1> DEFINE F0 == [i \in 1 .. n |-> R[i]]
<1>6. Eq(F0)
  <2>1. ASSUME NEW i \in 1 .. n PROVE R[i] = IF i = 1 THEN q[i] ELSE F0[i-1] \o q[i]
    <3>1. CASE i = 1
      <4>1. q[1] \in Seq(A) /\ R[1] = R[0] \o q[1]
        <5>1. 1 - 1 = 0
          OBVIOUS
        <5> QED
          BY <1>5, <3>1, <5>1
      <4>2. <<>> \o q[1] = q[1]
        BY <4>1, ConcatEmptySeq
      <4> QED
        BY <1>5, <3>1, <4>1, <4>2
    <3>2. CASE i # 1
      <4>1. i - 1 \in 1 .. n
        BY <3>2
      <4>2. F0[i-1] = R[i-1]
        BY <4>1
      <4> QED
        BY <1>5, <3>2, <4>2
    <3> QED
      BY <3>1, <3>2
  <2> QED
    BY <2>1
<1>7. Eq(U)
  <2> HIDE DEF Eq, F0
  <2> QED
    BY <1>6
<1>8. FlattenSeq(q) = U[n]
  BY <1>1 DEF FlattenSeq
<1>9. U[1] = q[1] /\ \A i \in 1 .. n : i # 1 => U[i] = U[i-1] \o q[i]
  <2>1. 1 \in 1 .. n
    OBVIOUS
  <2> HIDE DEF U
  <2> QED
    BY <1>7, <2>1
<1> HIDE DEF U
<1> QED
  BY <1>8, <1>9 DEF Flattens

\* Sequences one behind the other have what is in each of them.
LEMMA FlatRange ==
  ASSUME NEW A, NEW n \in Nat, NEW q, q \in [1 .. n -> Seq(A)]
  PROVE  /\ FlattenSeq(q) \in Seq(A)
         /\ \A x : x \in Range(FlattenSeq(q)) <=> \E i \in 1 .. n : x \in Range(q[i])
<1>0. n \in Nat /\ q \in [1 .. n -> Seq(A)]
  OBVIOUS
<1> PICK p : p = FlattenSeq(q)
  OBVIOUS
<1>1. q \in Seq(Seq(A)) /\ Len(q) = n
  BY FunctionSeq
<1>2. CASE n = 0
  <2>1. p = <<>>
    BY <1>1, <1>2, EmptySeq DEF FlattenSeq
  <2> QED
    BY <1>2, <2>1, EmptyFacts
<1>3. CASE n # 0
  <2>1. PICK U : /\ p = U[n] /\ U[1] = q[1]
                 /\ \A i \in 1 .. n : i # 1 => U[i] = U[i-1] \o q[i]
    <3>1. \E U : FlattenSeq(q) = U[n] /\ Flattens(n, q, U)
      BY ONLY <1>0, <1>3, FlatSteps
    <3> QED
      BY <3>1 DEF Flattens
  <2> DEFINE Flat(k, u) == u \in Seq(A) /\ \A x : x \in Range(u) <=> \E i \in 1 .. k : x \in Range(q[i])
             V == {k \in 0 .. n : k = 0 \/ Flat(k, U[k])}
  <2>2. 0 \in V
    OBVIOUS
  <2>3. ASSUME NEW k \in 1 .. n, k - 1 \in V PROVE k \in V
    <3> PICK u, w, z : u = U[k - 1] /\ w = U[k] /\ z = q[k]
      OBVIOUS
    <3>1. z \in Seq(A)
      OBVIOUS
    <3>2. CASE k = 1
      <4>1. w = z
        BY <2>1, <3>2
      <4>2. Flat(k, w)
        BY <3>1, <3>2, <4>1
      <4> QED
        BY <4>2
    <3>3. CASE k # 1
      <4>1. w = u \o z
        BY <2>1, <3>3
      <4>2. k - 1 # 0 /\ Flat(k - 1, u)
        BY <2>3, <3>3
      <4>3. w \in Seq(A) /\ \A x : x \in Range(w) <=> x \in Range(u) \/ x \in Range(z)
        BY <3>1, <4>1, <4>2, JoinedFacts
      <4>4. \A i : i \in 1 .. k <=> i \in 1 .. k - 1 \/ i = k
        OBVIOUS
      <4>5. Flat(k, w)
        BY <4>2, <4>3, <4>4
      <4> QED
        BY <4>5
    <3> QED
      BY <3>2, <3>3
  <2> HIDE DEF V, Flat
  <2>4. n \in V
    <3>1. \A k \in 1 .. n : k - 1 \in V => k \in V
      BY <2>3
    <3>2. 0 .. n \subseteq V
      BY ONLY n \in Nat, <2>2, <3>1, UpToInduction
    <3> QED
      BY <3>2
  <2>5. Flat(n, p)
    BY <1>3, <2>1, <2>4 DEF V
  <2> QED
    BY <2>5 DEF Flat
<1> QED
  BY <1>2, <1>3

\* Sequences one behind the other, in this order.
LEMMA FlatFacts ==
  ASSUME NEW A, NEW n \in Nat, NEW q, q \in [1 .. n -> Seq(A)],
         \A i \in 1 .. n : Distinct(q[i]),
         \A i, j \in 1 .. n : i # j => Range(q[i]) \cap Range(q[j]) = {}
  PROVE  LET p == FlattenSeq(q)
         IN  /\ p \in Seq(A) /\ Distinct(p)
             /\ \A x : x \in Range(p) <=> \E i \in 1 .. n : x \in Range(q[i])
             /\ \A a, b \in 1 .. Len(p) : \A i, j \in 1 .. n :
                  a < b /\ p[a] \in Range(q[i]) /\ p[b] \in Range(q[j]) => i <= j
<1>0. n \in Nat /\ q \in [1 .. n -> Seq(A)]
  OBVIOUS
<1> PICK p : p = FlattenSeq(q)
  OBVIOUS
<1>1. q \in Seq(Seq(A)) /\ Len(q) = n
  BY FunctionSeq
<1>12. CASE n = 0
  <2>1. p = <<>>
    BY <1>1, <1>12, EmptySeq DEF FlattenSeq
  <2>2. 1 .. 0 = {} /\ Len(p) = 0
    BY <2>1, EmptySeq
  <2> QED
    BY <1>12, <2>1, <2>2, EmptyFacts
<1>7. CASE n # 0
  <2>7. PICK U : /\ p = U[n] /\ U[1] = q[1]
                 /\ \A i \in 1 .. n : i # 1 => U[i] = U[i-1] \o q[i]
    <3>1. \E U : FlattenSeq(q) = U[n] /\ Flattens(n, q, U)
      BY ONLY <1>0, <1>7, FlatSteps
    <3> QED
      BY <3>1 DEF Flattens
  <2> DEFINE Flat(k, u) ==
               /\ u \in Seq(A) /\ Distinct(u)
               /\ \A x : x \in Range(u) <=> \E i \in 1 .. k : x \in Range(q[i])
               /\ \A a, b \in 1 .. Len(u) : \A i, j \in 1 .. n :
                    a < b /\ u[a] \in Range(q[i]) /\ u[b] \in Range(q[j]) => i <= j
             V == {k \in 0 .. n : k = 0 \/ Flat(k, U[k])}
  <2>9. 0 \in V
    OBVIOUS
  <2>10. ASSUME NEW k \in 1 .. n, k - 1 \in V PROVE k \in V
    <3>1. q[k] \in Seq(A) /\ Distinct(q[k])
      OBVIOUS
    <3>2. CASE k = 1
      <4>1. U[1] = q[1]
        <5>1. 1 \in 1 .. n
          BY <3>2
        <5> QED
          BY <2>7, <5>1
      <4>2. \A i \in 1 .. 1 : i = 1
        OBVIOUS
      <4>3. ASSUME NEW a \in 1 .. Len(q[1]), NEW b \in 1 .. Len(q[1]), NEW i \in 1 .. n, NEW j \in 1 .. n,
                   q[1][a] \in Range(q[i]), q[1][b] \in Range(q[j])
            PROVE  i <= j
        <5>1. q[1][a] \in Range(q[1]) /\ q[1][b] \in Range(q[1])
          BY <3>1, <3>2, RangeFacts
        <5>2. i = 1 /\ j = 1
          BY <3>2, <4>3, <5>1
        <5> QED
          BY <5>2
      <4>4. Flat(1, q[1])
        BY <3>1, <3>2, <4>2, <4>3
      <4> QED
        BY <3>2, <4>1, <4>4
    <3>3. CASE k # 1
      <4> PICK u, w, z : u = U[k - 1] /\ w = U[k] /\ z = q[k]
        OBVIOUS
      <4>0. k - 1 \in 1 .. n /\ k - 1 # 0
        BY <3>3
      <4>1. Flat(k - 1, u)
        BY <4>0, <2>10
      <4>2. w = u \o z /\ z \in Seq(A) /\ Distinct(z)
        BY <2>7, <3>1, <3>3
      <4>3. /\ w \in Seq(A)
            /\ Len(w) = Len(u) + Len(z)
            /\ \A i \in 1 .. Len(u) : w[i] = u[i]
            /\ \A i \in Len(u) + 1 .. Len(u) + Len(z) :
                 i - Len(u) \in 1 .. Len(z) /\ w[i] = z[i - Len(u)]
            /\ \A x : x \in Range(w) <=> x \in Range(u) \/ x \in Range(z)
            /\ Distinct(u) /\ Distinct(z) /\ Range(u) \cap Range(z) = {} => Distinct(w)
        BY <4>1, <4>2, JoinedFacts
      <4>4. \A i \in 1 .. k - 1 : i \in 1 .. n /\ i # k
        BY <4>0
      <4>5. Range(u) \cap Range(z) = {}
        BY <4>1, <4>4
      <4>6. \A x : x \in Range(w) <=> \E i \in 1 .. k : x \in Range(q[i])
        <5>1. \A i : i \in 1 .. k <=> i \in 1 .. k - 1 \/ i = k
          OBVIOUS
        <5> QED
          BY <4>1, <4>3, <5>1
      <4>7. ASSUME NEW a \in 1 .. Len(w), NEW b \in 1 .. Len(w), NEW i \in 1 .. n, NEW j \in 1 .. n,
                   a < b, w[a] \in Range(q[i]), w[b] \in Range(q[j])
            PROVE  i <= j
        <5>1. Len(u) \in Nat /\ Len(z) \in Nat
          BY <4>1, <4>2, LenProperties
        <5>2. CASE b \in 1 .. Len(u)
          <6>1. a \in 1 .. Len(u)
            BY <4>7, <5>1, <5>2
          <6> QED
            BY <4>1, <4>3, <4>7, <5>2, <6>1
        <5>3. CASE b \notin 1 .. Len(u)
          <6>1. b \in Len(u) + 1 .. Len(u) + Len(z)
            BY <4>3, <5>1, <5>3
          <6>2. w[b] \in Range(z)
            <7>1. \A h \in 1 .. Len(z) : z[h] \in Range(z)
              BY <4>2, RangeFacts
            <7> QED
              BY <4>3, <6>1, <7>1
          <6>3. j = k
            BY <4>7, <6>2
          <6>4. w[a] \in Range(w)
            BY <4>3, RangeFacts
          <6>5. PICK h \in 1 .. k : w[a] \in Range(q[h])
            BY <4>6, <6>4
          <6>6. h \in 1 .. n /\ h <= k
            OBVIOUS
          <6>7. i = h
            BY <4>7, <6>5, <6>6
          <6> QED
            BY <6>3, <6>6, <6>7
        <5> QED
          BY <5>2, <5>3
      <4>8. Flat(k, w)
        BY <4>1, <4>2, <4>3, <4>5, <4>6, <4>7
      <4> QED
        BY <4>8
    <3> QED
      BY <3>2, <3>3
  <2> HIDE DEF V, Flat
  <2>11. n \in V
    <3>1. \A i \in 1 .. n : i - 1 \in V => i \in V
      BY <2>10
    <3>2. 0 .. n \subseteq V
      BY ONLY n \in Nat, <2>9, <3>1, UpToInduction
    <3> QED
      BY <3>2
  <2>12. Flat(n, p)
    BY <1>7, <2>7, <2>11 DEF V
  <2> QED
    BY <2>12 DEF Flat
<1> QED
  BY <1>7, <1>12

-----------------------------------------------------------------------------
(* Sequences made by recursion. *)

\* The numbers of S up to n, each once.
LEMMA InOrderFacts ==
  ASSUME NEW S1, NEW n \in Nat
  PROVE  /\ InOrder(S1, n) \in Seq(1 .. n) /\ Distinct(InOrder(S1, n))
         /\ \A x : x \in Range(InOrder(S1, n)) <=> x \in 1 .. n /\ x \in S1
<1>1. InOrder(S1, n) = Numbers(S1, n)
  BY DEF InOrder, Numbers
<1> QED
  BY <1>1, NumbersFacts

\* p is list with callees of the component s up to t behind it, after their callers.
Pushed(list, s, t, p) ==
  /\ p \in Seq(1 .. Len(sccNodes))
  /\ Len(list) <= Len(p)
  /\ \A i \in 1 .. Len(list) : p[i] = list[i]
  /\ Distinct(list) => Distinct(p)
  /\ \A i \in 1 .. Len(p) :
       i <= Len(list) \/ \A c \in CallerScc(p[i]) : \E j \in 1 .. Len(p) : j < i /\ p[j] = c
  /\ \A u \in 1 .. t : u \in CalleeScc(s) /\ CallerScc(u) \subseteq Range(list) => u \in Range(p)

\* PushCallees does that for all.
LEMMA PushFacts ==
  ASSUME Len(sccNodes) \in Nat, NEW list \in Seq(1 .. Len(sccNodes)), NEW s
  PROVE  Pushed(list, s, Len(sccNodes), PushCallees(list, s))
<1> PICK n : n = Len(sccNodes)
  OBVIOUS
<1>1. n \in Nat /\ list \in Seq(1 .. n)
  OBVIOUS
<1> DEFINE C(t, l) == t \in CalleeScc(s) /\ t \notin Range(l) /\ CallerScc(t) \subseteq Range(l)
           Eq(P) == P = [t \in 0 .. n |-> IF t = 0 THEN list
                                          ELSE IF C(t, P[t-1]) THEN Append(P[t-1], t) ELSE P[t-1]]
           T == Seq(1 .. n)
           g == [t \in 1 .. n |-> [l \in T |-> IF C(t, l) THEN Append(l, t) ELSE l]]
           U == CHOOSE P : Eq(P)
<1>2. ASSUME NEW t \in 1 .. n, NEW l \in T PROVE g[t][l] \in T
  BY AppendProperties
<1>3. \E R \in [0 .. n -> T] : Iterates(n, list, g, R)
  <2>1. list \in T
    BY <1>1
  <2> HIDE DEF T, g
  <2> QED
    BY <1>1, <1>2, <2>1, Iteration
<1>4. PICK R \in [0 .. n -> T] : Iterates(n, list, g, R)
  BY <1>3
<1>5. ASSUME NEW t \in 0 .. n
      PROVE  (IF t = 0 THEN list ELSE g[t][R[t - 1]])
             = IF t = 0 THEN list ELSE IF C(t, R[t-1]) THEN Append(R[t-1], t) ELSE R[t-1]
  <2>1. t # 0 => t \in 1 .. n /\ t - 1 \in 0 .. n
    BY <1>1
  <2>2. t # 0 => R[t - 1] \in T
    BY <1>4, <2>1
  <2> HIDE DEF T, C
  <2> QED
    BY <2>1, <2>2
<1>6. Eq(R)
  <2> HIDE DEF g, T, C
  <2> QED
    BY <1>4, <1>5 DEF Iterates
<1>7. Eq(U)
  <2> HIDE DEF Eq
  <2> QED
    BY <1>6
<1>8. PushCallees(list, s) = U[n]
  BY DEF PushCallees
<1> HIDE DEF U, C
<1> DEFINE V == {t \in 0 .. n : Pushed(list, s, t, U[t])}
<1>9. 0 \in V
  <2>1. U[0] = list /\ 0 \in 0 .. n
    BY <1>1, <1>7
  <2>2. Pushed(list, s, 0, list)
    <3>1. 1 .. 0 = {}
      OBVIOUS
    <3>2. Len(list) \in Nat
      BY LenProperties
    <3> QED
      BY <3>1, <3>2 DEF Pushed
  <2> QED
    BY <2>1, <2>2
<1>10. ASSUME NEW t \in 1 .. n, t - 1 \in V PROVE t \in V
  <2> PICK l : l = U[t - 1]
    OBVIOUS
  <2>1. U[t] = IF C(t, l) THEN Append(l, t) ELSE l
    <3>1. t \in 0 .. n /\ t # 0
      BY <1>1
    <3> QED
      BY <1>7, <3>1
  <2>2. Pushed(list, s, t - 1, l)
    BY <1>10
  <2>3. t \in 0 .. n /\ \A u : u \in 1 .. t => u \in 1 .. t - 1 \/ u = t
    BY <1>1
  <2>4. l \in Seq(1 .. n) /\ Len(l) \in Nat /\ Len(list) \in Nat /\ Len(list) <= Len(l)
    BY <2>2, LenProperties DEF Pushed
  <2>5. Range(list) \subseteq Range(l)
    <3>1. \A x \in Range(list) : \E i \in 1 .. Len(list) : list[i] = x
      BY RangeFacts
    <3>2. \A i \in 1 .. Len(l) : l[i] \in Range(l)
      BY <2>4, RangeFacts
    <3>3. \A i \in 1 .. Len(list) : i \in 1 .. Len(l) /\ l[i] = list[i]
      BY <2>2, <2>4 DEF Pushed
    <3> QED
      BY <3>1, <3>2, <3>3
  <2>6. Pushed(list, s, t, U[t])
    <3>1. CASE C(t, l)
      <4> PICK p : p = Append(l, t)
        OBVIOUS
      <4>1. /\ p \in Seq(1 .. n)
            /\ \A x : x \in Range(p) <=> x \in Range(l) \/ x = t
            /\ Distinct(l) /\ t \notin Range(l) => Distinct(p)
            /\ Len(p) = Len(l) + 1
            /\ \A i \in 1 .. Len(l) : p[i] = l[i]
            /\ p[Len(l) + 1] = t
        BY <2>4, AppendedFacts
      <4>2. Len(list) <= Len(p) /\ \A i \in 1 .. Len(list) : p[i] = list[i]
        BY <2>2, <2>4, <4>1 DEF Pushed
      <4>3. Distinct(list) => Distinct(p)
        BY <2>2, <3>1, <4>1 DEF Pushed, C
      <4>4. ASSUME NEW i \in 1 .. Len(p), ~(i <= Len(list)), NEW c \in CallerScc(p[i])
            PROVE  \E j \in 1 .. Len(p) : j < i /\ p[j] = c
        <5>1. CASE i \in 1 .. Len(l)
          <6>1. c \in CallerScc(l[i])
            BY <4>1, <4>4, <5>1
          <6>2. PICK j \in 1 .. Len(l) : j < i /\ l[j] = c
            BY <2>2, <4>4, <5>1, <6>1 DEF Pushed
          <6> QED
            BY <2>4, <4>1, <6>2
        <5>2. CASE i = Len(l) + 1
          <6>1. c \in Range(l)
            BY <3>1, <4>1, <4>4, <5>2 DEF C
          <6>2. PICK j \in 1 .. Len(l) : l[j] = c
            BY <2>4, <6>1, RangeFacts
          <6> QED
            BY <2>4, <4>1, <5>2, <6>2
        <5> QED
          BY <2>4, <4>1, <5>1, <5>2
      <4>5. \A u \in 1 .. t : u \in CalleeScc(s) /\ CallerScc(u) \subseteq Range(list) => u \in Range(p)
        BY <2>2, <2>3, <4>1 DEF Pushed
      <4>6. \A i \in 1 .. Len(p) :
              i <= Len(list) \/ \A c \in CallerScc(p[i]) : \E j \in 1 .. Len(p) : j < i /\ p[j] = c
        BY <4>4
      <4>7. Pushed(list, s, t, p)
        BY <4>1, <4>2, <4>3, <4>5, <4>6 DEF Pushed
      <4>8. U[t] = p
        BY <2>1, <3>1, <4>1
      <4> QED
        BY <4>7, <4>8
    <3>2. CASE ~C(t, l)
      <4>1. \A u \in 1 .. t : u \in CalleeScc(s) /\ CallerScc(u) \subseteq Range(list) => u \in Range(l)
        BY <2>2, <2>3, <2>5, <3>2 DEF Pushed, C
      <4>2. Pushed(list, s, t, l)
        BY <2>2, <4>1 DEF Pushed
      <4>3. U[t] = l
        BY <2>1, <3>2
      <4> QED
        BY <4>2, <4>3
    <3> QED
      BY <3>1, <3>2
  <2> QED
    BY <2>3, <2>6
<1> HIDE DEF V
<1>11. n \in V
  <2>1. \A t \in 1 .. n : t - 1 \in V => t \in V
    BY <1>10
  <2>2. 0 .. n \subseteq V
    BY ONLY <1>1, <1>9, <2>1, UpToInduction
  <2> QED
    BY <1>1, <2>2
<1> QED
  BY <1>8, <1>11 DEF V

-----------------------------------------------------------------------------
(* The topological sort. *)

\* The callers of a component in the order come before it; a component whose
\* callers were all expanded is in the order.
SortInv ==
  /\ sccTopologicalVec \in Seq(1 .. Len(sccNodes))
  /\ Distinct(sccTopologicalVec)
  /\ sorted \in 0 .. Len(sccTopologicalVec)
  /\ \A j \in 1 .. Len(sccTopologicalVec) : \A c \in CallerScc(sccTopologicalVec[j]) :
       \E i \in 1 .. Len(sccTopologicalVec) : i < j /\ sccTopologicalVec[i] = c
  /\ \A t \in 1 .. Len(sccNodes) :
       (\A c \in CallerScc(t) : \E i \in 1 .. sorted : sccTopologicalVec[i] = c) =>
         t \in Range(sccTopologicalVec)

\* Components are told by the functions in them.
LEMMA SameComponents ==
  ASSUME callees' = callees, sccNode' = sccNode, DOMAIN sccNodes' = DOMAIN sccNodes,
         \A s \in DOMAIN sccNodes : Range(sccNodes'[s]) = Range(sccNodes[s])
  PROVE  /\ \A s \in DOMAIN sccNodes : CalleeScc(s)' = CalleeScc(s)
         /\ \A s : CallerScc(s)' = CallerScc(s)
<1>1. ASSUME NEW s \in DOMAIN sccNodes PROVE CalleeScc(s)' = CalleeScc(s)
  <2>1. Range(sccNodes'[s]) = Range(sccNodes[s])
    OBVIOUS
  <2> QED
    BY <2>1 DEF CalleeScc
<1>2. ASSUME NEW s PROVE CallerScc(s)' = CallerScc(s)
  BY <1>1 DEF CallerScc
<1> QED
  BY <1>1, <1>2

\* A component calls older ones.
LEMMA CalleesAreOlder ==
  ASSUME DfsTypes, Finished, Listed, NEW s \in 1 .. Len(sccNodes), NEW t \in CalleeScc(s)
  PROVE  t \in 1 .. Len(sccNodes) /\ t < s
<1>1. PICK f \in Range(sccNodes[s]) : \E g \in Range(callees[f]) : t = sccNode[g] /\ t # s
  BY DEF CalleeScc
<1>0. PICK g \in Range(callees[f]) : t = sccNode[g] /\ t # s
  BY <1>1
<1>2. sccNodes[s] \in Seq(Functions) /\ Len(sccNodes) \in Nat
  BY DfsFacts
<1>3. PICK i \in 1 .. Len(sccNodes[s]) : sccNodes[s][i] = f
  BY <1>1, <1>2, RangeFacts
<1>4. f \in Functions /\ sccNode[f] = s
  BY <1>2, <1>3, RangeFacts DEF Listed
<1>5. g \in Functions
  <2>1. callees[f] \in Seq(Functions)
    BY <1>4, DfsFacts
  <2> QED
    BY <1>0, <2>1, RangeFacts
<1>6. sccNode[g] # 0 /\ sccNode[g] <= s
  BY <1>0, <1>2, <1>4 DEF Finished
<1>7. sccNode[g] \in 0 .. Len(sccNodes)
  BY <1>5 DEF DfsTypes
<1> QED
  BY <1>0, <1>2, <1>6, <1>7

\* The sort starts with the components that are not called.
LEMMA SortStarts ==
  ASSUME DfsTypes, SortRoots
  PROVE  SortInv'
<1> PICK n, v : n = Len(sccNodes) /\ v = sccTopologicalVec'
  OBVIOUS
<1> DEFINE S1 == {s \in DOMAIN sccNodes : CallerScc(s) = {}}
<1>1. n \in Nat /\ DOMAIN sccNodes = 1 .. n
  BY LenProperties DEF DfsTypes
<1>2. v = InOrder(S1, n) /\ sorted' = 0 /\ callees' = callees /\ sccNode' = sccNode
      /\ sccNodes' = sccNodes
  BY DEF SortRoots, dfsVars
<1> HIDE DEF S1
<1>3. v \in Seq(1 .. n) /\ Distinct(v) /\ \A x : x \in Range(v) <=> x \in 1 .. n /\ x \in S1
  <2>1. /\ InOrder(S1, n) \in Seq(1 .. n) /\ Distinct(InOrder(S1, n))
        /\ \A x : x \in Range(InOrder(S1, n)) <=> x \in 1 .. n /\ x \in S1
    BY ONLY <1>1, InOrderFacts
  <2> QED
    BY <1>2, <2>1
<1>4. \A s : CallerScc(s)' = CallerScc(s)
  BY <1>2, SameComponents
<1>5. \A j \in 1 .. Len(v) : CallerScc(v[j]) = {}
  <2>1. \A j \in 1 .. Len(v) : v[j] \in Range(v)
    BY <1>3, RangeFacts
  <2> QED
    BY <1>1, <1>3, <2>1 DEF S1
<1>6. \A t \in 1 .. n : CallerScc(t) = {} => t \in Range(v)
  BY <1>1, <1>3 DEF S1
<1>7. 1 .. 0 = {} /\ Len(v) \in Nat /\ 0 \in 0 .. Len(v)
  BY <1>3, LenProperties
<1>8. \A t \in 1 .. n : (\A c \in CallerScc(t) : \E i \in 1 .. 0 : v[i] = c) => t \in Range(v)
  BY <1>6, <1>7
<1> QED
  BY <1>2, <1>3, <1>4, <1>5, <1>7, <1>8 DEF SortInv

\* It goes on with those whose callers are in the order.
LEMMA SortGoesOn ==
  ASSUME DfsTypes, SortInv, SCCTopologicalSort
  PROVE  SortInv'
<1> PICK n, v, k, p : n = Len(sccNodes) /\ v = sccTopologicalVec /\ k = sorted + 1
                      /\ p = sccTopologicalVec'
  OBVIOUS
<1> PICK s : s = v[k]
  OBVIOUS
<1>1. n \in Nat /\ DOMAIN sccNodes = 1 .. n
  BY LenProperties DEF DfsTypes
<1>2. v \in Seq(1 .. n) /\ Len(v) \in Nat /\ sorted \in 0 .. Len(v) /\ sorted < Len(v)
  BY LenProperties DEF SortInv, SCCTopologicalSort
<1>3. k \in 1 .. Len(v) /\ s \in 1 .. n
  <2>1. k \in 1 .. Len(v)
    BY <1>2
  <2> QED
    BY <1>2, <2>1, RangeFacts
<1>4. p = PushCallees(v, s) /\ sorted' = k /\ callees' = callees /\ sccNode' = sccNode
      /\ sccNodes' = sccNodes
  BY DEF SCCTopologicalSort, dfsVars
<1>5. Pushed(v, s, n, p)
  BY <1>1, <1>2, <1>4, PushFacts
<1>6. \A t : CallerScc(t)' = CallerScc(t)
  BY <1>4, SameComponents
<1>7. /\ p \in Seq(1 .. n) /\ Len(p) \in Nat /\ Len(v) <= Len(p) /\ Distinct(p)
      /\ \A i \in 1 .. Len(v) : p[i] = v[i] /\ i \in 1 .. Len(p)
  <2>1. p \in Seq(1 .. n) /\ Len(v) <= Len(p) /\ \A i \in 1 .. Len(v) : p[i] = v[i]
    BY <1>5 DEF Pushed
  <2>2. Distinct(p)
    BY <1>5 DEF Pushed, SortInv
  <2>3. Len(p) \in Nat
    BY <2>1, LenProperties
  <2> QED
    BY <1>2, <2>1, <2>2, <2>3
<1>8. Range(v) \subseteq Range(p)
  <2>1. \A x \in Range(v) : \E i \in 1 .. Len(v) : v[i] = x
    BY <1>2, RangeFacts
  <2>2. \A i \in 1 .. Len(p) : p[i] \in Range(p)
    BY <1>7, RangeFacts
  <2> QED
    BY <1>7, <2>1, <2>2
<1>9. ASSUME NEW j \in 1 .. Len(p), NEW c \in CallerScc(p[j])
      PROVE  \E i \in 1 .. Len(p) : i < j /\ p[i] = c
  <2>1. CASE j <= Len(v)
    <3>1. j \in 1 .. Len(v) /\ c \in CallerScc(v[j])
      BY <1>2, <1>7, <1>9, <2>1
    <3>2. PICK i \in 1 .. Len(v) : i < j /\ v[i] = c
      BY <3>1 DEF SortInv
    <3> QED
      BY <1>7, <3>2
  <2>2. CASE ~(j <= Len(v))
    BY <1>5, <1>9, <2>2 DEF Pushed
  <2> QED
    BY <2>1, <2>2
<1>10. ASSUME NEW t \in 1 .. n, \A c \in CallerScc(t) : \E i \in 1 .. k : p[i] = c
       PROVE  t \in Range(p)
  <2>1. \A c \in CallerScc(t) : \E i \in 1 .. k : v[i] = c
    <3>1. \A i \in 1 .. k : i \in 1 .. Len(v)
      BY <1>2, <1>3
    <3> QED
      BY <1>7, <1>10, <3>1
  <2>2. CASE s \in CallerScc(t)
    <3>1. t \in CalleeScc(s)
      BY <2>2 DEF CallerScc
    <3>2. CallerScc(t) \subseteq Range(v)
      <4>1. \A i \in 1 .. k : i \in 1 .. Len(v)
        BY <1>2, <1>3
      <4>2. \A i \in 1 .. Len(v) : v[i] \in Range(v)
        BY <1>2, RangeFacts
      <4> QED
        BY <2>1, <4>1, <4>2
    <3> QED
      BY <1>5, <3>1, <3>2 DEF Pushed
  <2>3. CASE s \notin CallerScc(t)
    <3>1. \A i \in 1 .. k : i \in 1 .. sorted \/ i = k
      BY <1>2
    <3>2. \A c \in CallerScc(t) : \E i \in 1 .. sorted : v[i] = c
      BY <2>1, <2>3, <3>1
    <3> QED
      BY <1>8, <3>2 DEF SortInv
  <2> QED
    BY <2>2, <2>3
<1>11. k \in 0 .. Len(p)
  BY <1>2, <1>3, <1>7
<1>12. (\A j \in 1 .. Len(sccTopologicalVec) : \A c \in CallerScc(sccTopologicalVec[j]) :
           \E i \in 1 .. Len(sccTopologicalVec) : i < j /\ sccTopologicalVec[i] = c)'
  <2>1. \A j : CallerScc(sccTopologicalVec[j])' = CallerScc(p[j])
    BY <1>6
  <2> QED
    BY <1>9, <2>1
<1>13. (\A t \in 1 .. Len(sccNodes) :
           (\A c \in CallerScc(t) : \E i \in 1 .. sorted : sccTopologicalVec[i] = c) =>
             t \in Range(sccTopologicalVec))'
  BY <1>4, <1>6, <1>10
<1>14. (sccTopologicalVec \in Seq(1 .. Len(sccNodes)) /\ Distinct(sccTopologicalVec)
        /\ sorted \in 0 .. Len(sccTopologicalVec))'
  BY <1>4, <1>7, <1>11
<1> QED
  BY <1>12, <1>13, <1>14 DEF SortInv

\* At the end every component is in the order.
LEMMA SortIsComplete ==
  ASSUME DfsTypes, Finished, Listed, SortInv, sorted = Len(sccTopologicalVec)
  PROVE  Range(sccTopologicalVec) = 1 .. Len(sccNodes)
<1> PICK n, v : n = Len(sccNodes) /\ v = sccTopologicalVec
  OBVIOUS
<1>1. n \in Nat /\ DOMAIN sccNodes = 1 .. n /\ v \in Seq(1 .. n)
  BY LenProperties DEF DfsTypes, SortInv
<1>2. /\ Range(v) \subseteq 1 .. n
      /\ \A x \in Range(v) : \E i \in 1 .. Len(v) : v[i] = x
  BY <1>1, RangeFacts
<1>3. ASSUME 1 .. n \ Range(v) # {} PROVE FALSE
  <2>1. 1 .. n \ Range(v) \subseteq 0 .. n
    BY <1>1
  <2>2. PICK t \in 1 .. n \ Range(v) : \A u \in 1 .. n \ Range(v) : u <= t
    <3> PICK T : T = 1 .. n \ Range(v)
      OBVIOUS
    <3>1. \E m \in T : \A u \in T : u <= m
      BY ONLY <1>1, <1>3, <2>1, T = 1 .. n \ Range(v), GreatestNat
    <3> QED
      BY <3>1
  <2>3. ASSUME NEW c \in CallerScc(t) PROVE c \in Range(v)
    <3>1. c \in 1 .. n /\ t \in CalleeScc(c)
      BY <1>1 DEF CallerScc
    <3>2. t < c
      BY <3>1, CalleesAreOlder
    <3> QED
      BY <2>2, <3>1, <3>2
  <2>4. \A c \in CallerScc(t) : \E i \in 1 .. sorted : v[i] = c
    BY <1>2, <2>3
  <2> QED
    BY <2>2, <2>4 DEF SortInv
<1> QED
  BY <1>2, <1>3

\* The order, and the components in it, meet the comment of the sort.
LEMMA SortedFacts ==
  ASSUME DfsTypes, Finished, Listed, SortInv, sorted = Len(sccTopologicalVec)
  PROVE  /\ Range(sccTopologicalVec) = DOMAIN sccNodes
         /\ \A i, j \in DOMAIN sccTopologicalVec :
              sccTopologicalVec[j] \in CalleeScc(sccTopologicalVec[i]) => i < j
<1> PICK n, v : n = Len(sccNodes) /\ v = sccTopologicalVec
  OBVIOUS
<1>1. n \in Nat /\ DOMAIN sccNodes = 1 .. n /\ v \in Seq(1 .. n) /\ DOMAIN v = 1 .. Len(v)
      /\ Len(v) \in Nat
  BY LenProperties DEF DfsTypes, SortInv
<1>2. ASSUME NEW i \in 1 .. Len(v), NEW j \in 1 .. Len(v), v[j] \in CalleeScc(v[i]) PROVE i < j
  <2>1. v[i] \in CallerScc(v[j])
    BY <1>1, <1>2, RangeFacts DEF CallerScc
  <2>2. PICK h \in 1 .. Len(v) : h < j /\ v[h] = v[i]
    BY <2>1 DEF SortInv
  <2>3. h = i
    BY <2>2 DEF SortInv, Distinct
  <2> QED
    BY <2>2, <2>3
<1> QED
  BY <1>1, <1>2, SortIsComplete

-----------------------------------------------------------------------------
(* The compilation list. *)

\* One more function, wherever it goes.
LEMMA InsertedFacts ==
  ASSUME NEW list \in Seq(Functions), NEW f \in Functions, NEW l, l = Inserted(list, f)
  PROVE  /\ l \in Seq(Functions)
         /\ \A x : x \in Range(l) <=> x \in Range(list) \/ x = f
         /\ Distinct(list) /\ f \notin Range(list) => Distinct(l)
<1> PICK e : e = <<f>>
  OBVIOUS
<1>1. e \in Seq(Functions) /\ Distinct(e) /\ \A x : x \in Range(e) <=> x = f
  BY SingleFacts
<1>2. CASE list = <<>> \/ Before(f, list[1])
  <2>1. l = e \o list
    BY <1>2 DEF Inserted
  <2>2. /\ e \o list \in Seq(Functions)
        /\ \A x : x \in Range(e \o list) <=> x \in Range(e) \/ x \in Range(list)
        /\ Distinct(e) /\ Distinct(list) /\ Range(e) \cap Range(list) = {} => Distinct(e \o list)
    BY <1>1, JoinedFacts
  <2> QED
    BY <1>1, <2>1, <2>2
<1>3. CASE ~(list = <<>> \/ Before(f, list[1]))
  <2> DEFINE P(i) == ~Before(f, list[i]) /\ \A j \in i + 1 .. Len(list) : Before(f, list[j])
  <2>1. Len(list) \in Nat /\ DOMAIN list = 1 .. Len(list) /\ 1 \in 1 .. Len(list)
    <3>1. Len(list) \in Nat /\ DOMAIN list = 1 .. Len(list)
      BY LenProperties
    <3>2. Len(list) # 0
      BY <1>3, EmptySeq
    <3> QED
      BY <3>1, <3>2
  <2>2. \E i \in 1 .. Len(list) : P(i)
    <3> PICK n, T : n = Len(list) /\ T = {i \in 1 .. Len(list) : ~Before(f, list[i])}
      OBVIOUS
    <3>1. n \in Nat /\ T \subseteq 0 .. n /\ T # {}
      BY <1>3, <2>1
    <3>2. PICK m \in T : \A k \in T : k <= m
      BY ONLY <3>1, GreatestNat
    <3>3. m \in 1 .. Len(list) /\ ~Before(f, list[m])
      OBVIOUS
    <3>4. ASSUME NEW j \in m + 1 .. Len(list) PROVE Before(f, list[j])
      <4>1. j \in 1 .. Len(list) /\ ~(j <= m)
        BY <2>1, <3>3
      <4> QED
        BY <3>2, <4>1
    <3> QED
      BY <3>3, <3>4
  <2>3. PICK k \in 1 .. Len(list) :
          l = SubSeq(list, 1, k) \o <<f>> \o SubSeq(list, k + 1, Len(list))
    <3> DEFINE c == CHOOSE i \in 1 .. Len(list) : P(i)
    <3>1. c \in 1 .. Len(list)
      <4> HIDE DEF P
      <4> QED
        BY <2>2
    <3>2. l = SubSeq(list, 1, c) \o <<f>> \o SubSeq(list, c + 1, Len(list))
      BY <1>3, <2>1 DEF Inserted
    <3> QED
      BY <3>1, <3>2
  <2> PICK a, b, c : a = SubSeq(list, 1, k) /\ b = SubSeq(list, k + 1, Len(list)) /\ c = a \o e
    OBVIOUS
  <2>4. /\ a \in Seq(Functions) /\ b \in Seq(Functions)
        /\ \A x : x \in Range(list) <=> x \in Range(a) \/ x \in Range(b)
        /\ Distinct(list) => Distinct(a) /\ Distinct(b) /\ Range(a) \cap Range(b) = {}
    <3>1. k \in 0 .. Len(list)
      BY <2>1
    <3> DEFINE a1 == SubSeq(list, 1, k)
               b1 == SubSeq(list, k + 1, Len(list))
    <3>2. /\ a1 \in Seq(Functions) /\ b1 \in Seq(Functions)
          /\ \A x : x \in Range(list) <=> x \in Range(a1) \/ x \in Range(b1)
          /\ Distinct(list) => Distinct(a1) /\ Distinct(b1) /\ Range(a1) \cap Range(b1) = {}
      BY <3>1, CutFacts
    <3> QED
      BY <3>2
  <2>5. /\ c \in Seq(Functions)
        /\ \A x : x \in Range(c) <=> x \in Range(a) \/ x = f
        /\ Distinct(a) /\ f \notin Range(a) => Distinct(c)
    <3>1. /\ a \o e \in Seq(Functions)
          /\ \A x : x \in Range(a \o e) <=> x \in Range(a) \/ x \in Range(e)
          /\ Distinct(a) /\ Distinct(e) /\ Range(a) \cap Range(e) = {} => Distinct(a \o e)
      BY <1>1, <2>4, JoinedFacts
    <3> QED
      BY <1>1, <3>1
  <2>6. l = c \o b
    BY <2>3
  <2>7. /\ l \in Seq(Functions)
        /\ \A x : x \in Range(l) <=> x \in Range(c) \/ x \in Range(b)
        /\ Distinct(c) /\ Distinct(b) /\ Range(c) \cap Range(b) = {} => Distinct(l)
    <3>1. /\ c \o b \in Seq(Functions)
          /\ \A x : x \in Range(c \o b) <=> x \in Range(c) \/ x \in Range(b)
          /\ Distinct(c) /\ Distinct(b) /\ Range(c) \cap Range(b) = {} => Distinct(c \o b)
      BY ONLY <2>4, <2>5, JoinedFacts
    <3> QED
      BY <2>6, <3>1
  <2>8. ASSUME Distinct(list), f \notin Range(list) PROVE Distinct(l)
    <3>1. Distinct(c) /\ Distinct(b)
      BY <2>4, <2>5, <2>8
    <3>2. Range(c) \cap Range(b) = {}
      BY <2>4, <2>5, <2>8
    <3> QED
      BY <2>7, <3>1, <3>2
  <2> QED
    BY <2>4, <2>5, <2>7, <2>8
<1> QED
  BY <1>2, <1>3

\* A component is sorted in place.
LEMMA SortedSccFacts ==
  ASSUME NEW s, NEW q, q = sccNodes[s], q \in Seq(Functions), Distinct(q), NEW l, l = SortedScc(s)
  PROVE  l \in Seq(Functions) /\ Distinct(l) /\ \A x : x \in Range(l) <=> x \in Range(q)
<1> PICK n : n = Len(q)
  OBVIOUS
<1>1. n \in Nat /\ \A i \in 1 .. n : q[i] \in Functions
  BY LenProperties, RangeFacts
<1>2. /\ \A i \in 1 .. n : q[i] \in Range(q)
      /\ \A x \in Range(q) : \E i \in 1 .. n : q[i] = x
  BY RangeFacts
<1> DEFINE T == Seq(Functions)
           g == [i \in 1 .. n |-> [t \in T |-> Inserted(t, q[i])]]
           Eq(F) == F = [i \in 0 .. n |-> IF i = 0 THEN <<>> ELSE Inserted(F[i-1], q[i])]
           U == CHOOSE F : Eq(F)
<1>3. <<>> \in T
  BY EmptyFacts
<1>4. ASSUME NEW i \in 1 .. n, NEW t \in T PROVE g[i][t] \in T /\ g[i][t] = Inserted(t, q[i])
  BY <1>1, InsertedFacts
<1>5. PICK R \in [0 .. n -> T] : Iterates(n, <<>>, g, R)
  <2> HIDE DEF T, g
  <2> QED
    BY <1>1, <1>3, <1>4, Iteration
<1>6. ASSUME NEW i \in 0 .. n
      PROVE  (IF i = 0 THEN <<>> ELSE g[i][R[i - 1]]) = IF i = 0 THEN <<>> ELSE Inserted(R[i-1], q[i])
  <2>1. i # 0 => i \in 1 .. n /\ i - 1 \in 0 .. n
    BY <1>1
  <2>2. i # 0 => R[i - 1] \in T
    BY <1>5, <2>1
  <2> HIDE DEF T, g
  <2> QED
    BY <1>4, <2>1, <2>2
<1>7. Eq(R)
  <2> HIDE DEF g, T
  <2> QED
    BY <1>5, <1>6 DEF Iterates
<1>8. Eq(U)
  <2> HIDE DEF Eq
  <2> QED
    BY <1>7
<1>9. l = U[n]
  BY DEF SortedScc
<1> HIDE DEF U, g
<1> DEFINE V == {i \in 0 .. n : /\ U[i] \in T /\ Distinct(U[i])
                                /\ \A x : x \in Range(U[i]) <=> \E k \in 1 .. i : q[k] = x}
<1>10. 0 \in V
  <2> PICK e : e = U[0]
    OBVIOUS
  <2>1. e = <<>> /\ 0 \in 0 .. n
    BY <1>1, <1>8
  <2>2. Range(e) = {} /\ Distinct(e) /\ e \in T
    BY <2>1, EmptyFacts
  <2>3. \A x : x \in Range(e) <=> \E k \in 1 .. 0 : q[k] = x
    BY <2>2
  <2> HIDE DEF T
  <2> QED
    BY <2>1, <2>2, <2>3
<1>11. ASSUME NEW i \in 1 .. n, i - 1 \in V PROVE i \in V
  <2> PICK t, u : t = U[i - 1] /\ u = U[i]
    OBVIOUS
  <2>1. u = Inserted(t, q[i]) /\ i \in 0 .. n
    <3>1. i \in 0 .. n /\ i # 0
      BY <1>1
    <3> QED
      BY <1>8, <3>1
  <2>2. t \in Seq(Functions) /\ Distinct(t) /\ \A x : x \in Range(t) <=> \E k \in 1 .. i - 1 : q[k] = x
    BY <1>11
  <2>3. \A k : k \in 1 .. i <=> k \in 1 .. i - 1 \/ k = i
    BY <1>1
  <2>4. q[i] \notin Range(t)
    <3>1. \A k \in 1 .. i - 1 : k \in 1 .. n /\ k # i
      BY <1>1
    <3>2. \A k \in 1 .. i - 1 : q[k] # q[i]
      BY <3>1 DEF Distinct
    <3> QED
      BY <2>2, <3>2
  <2>5. /\ u \in Seq(Functions)
        /\ \A x : x \in Range(u) <=> x \in Range(t) \/ x = q[i]
        /\ Distinct(u)
    BY <1>1, <2>1, <2>2, <2>4, InsertedFacts
  <2>6. \A x : x \in Range(u) <=> \E k \in 1 .. i : q[k] = x
    BY <2>2, <2>3, <2>5
  <2> QED
    BY <2>1, <2>5, <2>6
<1> HIDE DEF V
<1>12. n \in V
  <2>1. \A i \in 1 .. n : i - 1 \in V => i \in V
    BY <1>11
  <2>2. 0 .. n \subseteq V
    BY ONLY <1>1, <1>10, <2>1, UpToInduction
  <2> QED
    BY <1>1, <2>2
<1>13. /\ U[n] \in T /\ Distinct(U[n])
       /\ \A x : x \in Range(U[n]) <=> \E k \in 1 .. n : q[k] = x
  BY <1>12 DEF V
<1>14. \A x : x \in Range(q) <=> \E k \in 1 .. n : q[k] = x
  BY <1>2
<1> QED
  BY <1>9, <1>13, <1>14

\* The functions of a component.
LEMMA ComponentFacts ==
  ASSUME DfsTypes, Listed, NEW s \in 1 .. Len(sccNodes)
  PROVE  /\ sccNodes[s] \in Seq(Functions) /\ Distinct(sccNodes[s])
         /\ \A f : f \in Range(sccNodes[s]) <=> f \in Functions /\ sccNode[f] = s
<1>1. sccNodes[s] \in Seq(Functions)
  BY DfsFacts
<1>2. /\ Range(sccNodes[s]) \subseteq Functions
      /\ \A i \in 1 .. Len(sccNodes[s]) : sccNodes[s][i] \in Range(sccNodes[s])
      /\ \A x \in Range(sccNodes[s]) : \E i \in 1 .. Len(sccNodes[s]) : sccNodes[s][i] = x
  BY <1>1, RangeFacts
<1>3. /\ \A i \in 1 .. Len(sccNodes[s]) : sccNode[sccNodes[s][i]] = s
      /\ \A f \in Functions : sccNode[f] = s => \E i \in 1 .. Len(sccNodes[s]) : sccNodes[s][i] = f
      /\ Distinct(sccNodes[s])
  BY DEF Listed, Distinct
<1>4. ASSUME NEW f PROVE f \in Range(sccNodes[s]) <=> f \in Functions /\ sccNode[f] = s
  <2>1. f \in Range(sccNodes[s]) => f \in Functions /\ sccNode[f] = s
    BY ONLY <1>2, <1>3
  <2>2. f \in Functions /\ sccNode[f] = s => f \in Range(sccNodes[s])
    BY ONLY <1>2, <1>3
  <2> QED
    BY <2>1, <2>2
<1> QED
  BY <1>1, <1>3, <1>4

\* A list of all functions, those of a component before those of the earlier ones
\* in the topological order.
BottomFirst(l) ==
  /\ l \in Seq(Functions) /\ Distinct(l)
  /\ \A f \in Functions : f \in Range(l)
  /\ \A i, j \in 1 .. Len(l) : \A a, b \in 1 .. Len(sccTopologicalVec) :
       /\ i < j
       /\ sccTopologicalVec[a] = sccNode[l[i]]
       /\ sccTopologicalVec[b] = sccNode[l[j]]
       => b <= a

\* The components from the last to the first, in whatever order within.
LEMMA FromBottomFacts ==
  ASSUME DfsTypes, SortInv, \A f \in Functions : sccNode[f] # 0,
         Range(sccTopologicalVec) = 1 .. Len(sccNodes),
         NEW q, q \in [1 .. Len(sccNodes) -> Seq(Functions)],
         \A s \in 1 .. Len(sccNodes) :
           Distinct(q[s]) /\ \A f : f \in Range(q[s]) <=> f \in Functions /\ sccNode[f] = s
  PROVE  BottomFirst(FlattenSeq([i \in DOMAIN sccTopologicalVec |-> q[FromBottom(i)]]))
<1> PICK N, v, n : N = Len(sccNodes) /\ v = sccTopologicalVec /\ n = Len(v)
  OBVIOUS
<1>1. N \in Nat /\ n \in Nat /\ v \in Seq(1 .. N) /\ DOMAIN v = 1 .. n /\ Distinct(v)
  BY LenProperties, DfsFacts DEF SortInv
<1>2. /\ \A i \in 1 .. n : v[i] \in 1 .. N
      /\ \A s \in 1 .. N : \E i \in 1 .. n : v[i] = s
  <2>1. v \in Seq(1 .. N)
    BY <1>1
  <2>2. /\ \A i \in 1 .. Len(v) : v[i] \in 1 .. N
        /\ \A x \in Range(v) : \E i \in 1 .. Len(v) : v[i] = x
    BY ONLY <2>1, RangeFacts
  <2> QED
    BY <2>2
<1>3. \A i, j \in 1 .. n : v[i] = v[j] => i = j
  BY <1>1 DEF Distinct
<1>4. \A i \in 1 .. n : n + 1 - i \in 1 .. n /\ n + 1 - (n + 1 - i) = i
  BY <1>1
<1>w. PICK w : w = [i \in 1 .. n |-> q[v[n + 1 - i]]]
  OBVIOUS
<1>p. PICK p : p = FlattenSeq(w)
  OBVIOUS
<1>5. [i \in DOMAIN sccTopologicalVec |-> q[FromBottom(i)]] = w
  BY <1>1, <1>w DEF FromBottom
<1>6. w \in [1 .. n -> Seq(Functions)] /\ \A i \in 1 .. n : Distinct(w[i])
  BY <1>2, <1>4, <1>w
<1>7. \A i \in 1 .. n : \A f : f \in Range(w[i]) <=> f \in Functions /\ sccNode[f] = v[n + 1 - i]
  <2> SUFFICES ASSUME NEW i \in 1 .. n
               PROVE  \A f : f \in Range(w[i]) <=> f \in Functions /\ sccNode[f] = v[n + 1 - i]
    OBVIOUS
  <2>1. v[n + 1 - i] \in 1 .. N /\ w[i] = q[v[n + 1 - i]]
    BY <1>2, <1>4, <1>w
  <2> QED
    BY <2>1
<1>8. ASSUME NEW i \in 1 .. n, NEW j \in 1 .. n, i # j PROVE Range(w[i]) \cap Range(w[j]) = {}
  <2>1. n + 1 - i # n + 1 - j
    BY <1>1, <1>8
  <2>2. v[n + 1 - i] # v[n + 1 - j]
    BY <1>3, <1>4, <2>1
  <2> QED
    BY ONLY <1>7, <2>2
<1>9. /\ p \in Seq(Functions) /\ Distinct(p)
      /\ \A x : x \in Range(p) <=> \E i \in 1 .. n : x \in Range(w[i])
      /\ \A a, b \in 1 .. Len(p) : \A i, j \in 1 .. n :
           a < b /\ p[a] \in Range(w[i]) /\ p[b] \in Range(w[j]) => i <= j
  <2>1. \A i, j \in 1 .. n : i # j => Range(w[i]) \cap Range(w[j]) = {}
    BY <1>8
  <2> DEFINE r == FlattenSeq(w)
  <2>2. /\ r \in Seq(Functions) /\ Distinct(r)
        /\ \A x : x \in Range(r) <=> \E i \in 1 .. n : x \in Range(w[i])
        /\ \A a, b \in 1 .. Len(r) : \A i, j \in 1 .. n :
             a < b /\ r[a] \in Range(w[i]) /\ r[b] \in Range(w[j]) => i <= j
    BY ONLY <1>1, <1>6, <2>1, FlatFacts
  <2> QED
    BY ONLY <1>p, <2>2
<1>10. ASSUME NEW f \in Functions PROVE f \in Range(p)
  <2>1. sccNode[f] \in 1 .. N
    BY DfsFacts
  <2>2. PICK i \in 1 .. n : v[i] = sccNode[f]
    BY <1>2, <2>1
  <2>3. f \in Range(w[n + 1 - i])
    BY <1>4, <1>7, <2>2
  <2> QED
    BY <1>4, <1>9, <2>3
<1>11. ASSUME NEW i \in 1 .. Len(p), NEW j \in 1 .. Len(p), NEW a \in 1 .. n, NEW b \in 1 .. n,
              i < j, v[a] = sccNode[p[i]], v[b] = sccNode[p[j]]
       PROVE  b <= a
  <2>1. p[i] \in Functions /\ p[j] \in Functions
    BY <1>9, RangeFacts
  <2>2. PICK c \in 1 .. n, d \in 1 .. n : c = n + 1 - a /\ d = n + 1 - b
    BY <1>4
  <2>3. p[i] \in Range(w[c]) /\ p[j] \in Range(w[d])
    <3>1. \A f : f \in Range(w[c]) <=> f \in Functions /\ sccNode[f] = v[n + 1 - c]
      BY ONLY <1>7, c \in 1 .. n
    <3>2. \A f : f \in Range(w[d]) <=> f \in Functions /\ sccNode[f] = v[n + 1 - d]
      BY ONLY <1>7, d \in 1 .. n
    <3>3. n + 1 - c = a /\ n + 1 - d = b
      BY <1>1, <2>2
    <3> QED
      BY ONLY <1>11, <2>1, <3>1, <3>2, <3>3
  <2>4. c <= d
    BY <1>9, <1>11, <2>3
  <2> QED
    BY <1>1, <2>2, <2>4
<1>12. BottomFirst(p)
  <2>1. \A i, j \in 1 .. Len(p) : \A a, b \in 1 .. Len(sccTopologicalVec) :
          /\ i < j
          /\ sccTopologicalVec[a] = sccNode[p[i]]
          /\ sccTopologicalVec[b] = sccNode[p[j]]
          => b <= a
    <3>1. \A i, j \in 1 .. Len(p) : \A a, b \in 1 .. n :
            i < j /\ v[a] = sccNode[p[i]] /\ v[b] = sccNode[p[j]] => b <= a
      BY ONLY <1>11
    <3> QED
      BY <3>1
  <2>2. \A f \in Functions : f \in Range(p)
    BY <1>10
  <2> QED
    BY <1>9, <2>1, <2>2 DEF BottomFirst
<1> QED
  BY <1>5, <1>12, <1>p

\* Such a list compiles callees first.
LEMMA ListFacts ==
  ASSUME DfsTypes, SearchInv, SortInv, sorted = Len(sccTopologicalVec),
         \A f \in Functions : sccNode[f] # 0, BottomFirst(compilationList)
  PROVE  CalleesAreCompiledFirst
<1> PICK l, v : l = compilationList /\ v = sccTopologicalVec
  OBVIOUS
<1>1. EveryComponentIsSorted
  BY SortedFacts DEF EveryComponentIsSorted, SearchInv
<1>2. l \in Seq(Functions) /\ Distinct(l) /\ DOMAIN l = 1 .. Len(l)
  BY LenProperties DEF BottomFirst
<1>3. Len(l) = Cardinality(Functions)
  BY <1>2, DistinctLength, FunctionsAssumption DEF BottomFirst
<1>4. ASSUME NEW i \in 1 .. Len(l), NEW j \in 1 .. Len(l), IsCalleeOf(l[i], l[j]), i > j
      PROVE  Reaches(l[i], l[j])
  <2> PICK f, g : f = l[j] /\ g = l[i]
    OBVIOUS
  <2>1. f \in Functions /\ g \in Functions /\ g \in Range(callees[f])
    BY <1>2, <1>4, RangeFacts DEF IsCalleeOf
  <2>2. DOMAIN sccNodes = 1 .. Len(sccNodes) /\ sccNode[f] \in 1 .. Len(sccNodes)
        /\ sccNode[g] \in 1 .. Len(sccNodes)
    <3>1. sccNodes \in Seq(Seq(Functions))
      BY DEF DfsTypes
    <3>2. /\ sccNode[f] \in 0 .. Len(sccNodes) /\ sccNode[g] \in 0 .. Len(sccNodes)
          /\ Len(sccNodes) \in Nat
      BY <2>1, DfsFacts
    <3> QED
      BY <2>1, <3>1, <3>2, LenProperties
  <2>3. v \in Seq(1 .. Len(sccNodes)) /\ Range(v) = 1 .. Len(sccNodes) /\ DOMAIN v = 1 .. Len(v)
    BY <2>2, SortedFacts, LenProperties DEF SearchInv, SortInv
  <2>4. PICK a \in 1 .. Len(v), b \in 1 .. Len(v) : v[a] = sccNode[f] /\ v[b] = sccNode[g]
    <3>1. \A x \in Range(v) : \E i1 \in 1 .. Len(v) : v[i1] = x
      <4>1. v \in Seq(1 .. Len(sccNodes))
        BY <2>3
      <4> QED
        BY ONLY <4>1, RangeFacts
    <3>2. PICK a \in 1 .. Len(v) : v[a] = sccNode[f]
      BY ONLY <2>2, <2>3, <3>1
    <3>3. PICK b \in 1 .. Len(v) : v[b] = sccNode[g]
      BY ONLY <2>2, <2>3, <3>1
    <3> QED
      BY ONLY <3>2, <3>3
  <2>5. b <= a
    BY <1>4, <2>4 DEF BottomFirst
  <2>6. ASSUME sccNode[f] # sccNode[g] PROVE FALSE
    <3>1. f \in Range(sccNodes[sccNode[f]])
      BY <2>1, <2>2, ComponentFacts DEF SearchInv
    <3>2. sccNode[g] \in CalleeScc(sccNode[f])
      BY <2>1, <2>6, <3>1 DEF CalleeScc
    <3>3. a < b
      BY <2>3, <2>4, <3>2, SortedFacts DEF SearchInv
    <3> QED
      BY <2>5, <3>3
  <2> QED
    BY <2>1, <2>6 DEF SearchInv, ComponentsAreCycles
<1> QED
  BY <1>1, <1>2, <1>3, <1>4 DEF CalleesAreCompiledFirst

-----------------------------------------------------------------------------
(* The call graph of a program. *)

Calls(b) == {b[i].f : i \in {i \in DOMAIN b : b[i].op = "call"}}

\* The callees are the functions that are called, in the order of the calls.
LEMMA CalleesOfFacts ==
  ASSUME NEW b \in Seq(Statements), Calls(b) \subseteq Functions
  PROVE  CalleesOf(b) \in Seq(Functions) /\ Range(CalleesOf(b)) = Calls(b)
<1> PICK n : n = Len(b)
  OBVIOUS
<1>1. n \in Nat /\ DOMAIN b = 1 .. n
  BY LenProperties
<1>2. \A i \in 1 .. n : b[i].op = "call" => b[i].f \in Functions /\ b[i].f \in Calls(b)
  BY <1>1 DEF Calls
<1> DEFINE C(i, l) == b[i].op = "call" /\ b[i].f \notin Range(l)
           T == Seq(Functions)
           g == [i \in 1 .. n |-> [t \in T |-> IF C(i, t) THEN Append(t, b[i].f) ELSE t]]
           Eq(F) == F = [i \in 0 .. n |-> IF i = 0 THEN <<>>
                                          ELSE IF C(i, F[i-1]) THEN Append(F[i-1], b[i].f)
                                               ELSE F[i-1]]
           U == CHOOSE F : Eq(F)
<1>3. <<>> \in T
  BY EmptyFacts
<1>4. ASSUME NEW i \in 1 .. n, NEW t \in T
      PROVE  /\ g[i][t] \in T
             /\ g[i][t] = IF C(i, t) THEN Append(t, b[i].f) ELSE t
  <2>1. C(i, t) => b[i].f \in Functions
    BY <1>2
  <2>2. g[i][t] = IF C(i, t) THEN Append(t, b[i].f) ELSE t
    OBVIOUS
  <2>3. CASE C(i, t)
    <3>1. Append(t, b[i].f) \in T
      BY <2>1, <2>3, AppendProperties
    <3> HIDE DEF T, C, g
    <3> QED
      BY <2>2, <2>3, <3>1
  <2>4. CASE ~C(i, t)
    <3> HIDE DEF T, C, g
    <3> QED
      BY <2>2, <2>4
  <2> QED
    BY <2>2, <2>3, <2>4
<1>5. PICK R \in [0 .. n -> T] : Iterates(n, <<>>, g, R)
  <2> HIDE DEF T, g, C
  <2> QED
    BY <1>1, <1>3, <1>4, Iteration
<1>6. ASSUME NEW i \in 0 .. n
      PROVE  (IF i = 0 THEN <<>> ELSE g[i][R[i - 1]])
             = IF i = 0 THEN <<>> ELSE IF C(i, R[i-1]) THEN Append(R[i-1], b[i].f) ELSE R[i-1]
  <2>1. i # 0 => i \in 1 .. n /\ i - 1 \in 0 .. n
    BY <1>1
  <2>2. i # 0 => R[i - 1] \in T
    BY <1>5, <2>1
  <2> HIDE DEF T, g, C
  <2> QED
    BY <1>4, <2>1, <2>2
<1>7. Eq(R)
  <2> HIDE DEF g, T, C
  <2> QED
    BY <1>5, <1>6 DEF Iterates
<1>8. Eq(U)
  <2> HIDE DEF Eq
  <2> QED
    BY <1>7
<1>9. CalleesOf(b) = U[n]
  BY DEF CalleesOf
<1> HIDE DEF U, g
<1> DEFINE Called(i) == {b[k].f : k \in {k \in 1 .. i : b[k].op = "call"}}
           V == {i \in 0 .. n : U[i] \in T /\ Range(U[i]) = Called(i)}
<1>10. 0 \in V
  <2> PICK e : e = U[0]
    OBVIOUS
  <2>1. e = <<>> /\ 0 \in 0 .. n
    BY <1>1, <1>8
  <2>2. Range(e) = {} /\ e \in T
    BY <2>1, EmptyFacts
  <2>3. Called(0) = {}
    OBVIOUS
  <2> HIDE DEF T, Called
  <2> QED
    BY <2>1, <2>2, <2>3
<1>11. ASSUME NEW i \in 1 .. n, i - 1 \in V PROVE i \in V
  <2> PICK t, u : t = U[i - 1] /\ u = U[i]
    OBVIOUS
  <2>1. u = (IF C(i, t) THEN Append(t, b[i].f) ELSE t) /\ i \in 0 .. n
    <3>1. i \in 0 .. n /\ i # 0
      BY <1>1
    <3> HIDE DEF C
    <3> QED
      BY <1>8, <3>1
  <2>2. t \in Seq(Functions) /\ Range(t) = Called(i - 1)
    BY <1>11
  <2>3. \A k : k \in 1 .. i <=> k \in 1 .. i - 1 \/ k = i
    BY <1>1
  <2>4. Called(i) = IF b[i].op = "call" THEN Called(i - 1) \cup {b[i].f} ELSE Called(i - 1)
    BY <2>3
  <2> HIDE DEF Called
  <2>5. u \in Seq(Functions) /\ Range(u) = Called(i)
    <3>1. CASE C(i, t)
      <4>1. b[i].f \in Functions
        BY <1>2, <3>1
      <4>2. /\ Append(t, b[i].f) \in Seq(Functions)
            /\ \A x : x \in Range(Append(t, b[i].f)) <=> x \in Range(t) \/ x = b[i].f
        BY <2>2, <4>1, AppendedFacts
      <4>3. u = Append(t, b[i].f)
        BY <2>1, <3>1
      <4> QED
        BY <2>2, <2>4, <3>1, <4>2, <4>3
    <3>2. CASE ~C(i, t)
      <4>1. u = t
        BY <2>1, <3>2
      <4>2. Called(i) = Called(i - 1)
        BY <2>2, <2>4, <3>2
      <4> QED
        BY <2>2, <4>1, <4>2
    <3> QED
      BY <3>1, <3>2
  <2> QED
    BY <2>1, <2>5
<1> HIDE DEF V
<1>12. n \in V
  <2>1. \A i \in 1 .. n : i - 1 \in V => i \in V
    BY <1>11
  <2>2. 0 .. n \subseteq V
    BY ONLY <1>1, <1>10, <2>1, UpToInduction
  <2> QED
    BY <1>1, <2>2
<1>13. U[n] \in T /\ Range(U[n]) = Called(n)
  BY <1>12 DEF V
<1>14. Called(n) = Calls(b)
  BY <1>1 DEF Calls
<1> QED
  BY <1>9, <1>13, <1>14

-----------------------------------------------------------------------------
(* Every step. *)

\* What holds of the search, of the sort, and of the list.
CGInv ==
  /\ DfsInv
  /\ stage # "dfs" => SortInv /\ \A f \in Functions : sccNode[f] # 0
  /\ stage \notin {"dfs", "sort"} =>
       sorted = Len(sccTopologicalVec) /\ BottomFirst(compilationList)

\* The graph does not change once it is built.
LEMMA GraphStays ==
  ASSUME CGInv, UNCHANGED <<callees, dfsVars, sccTopologicalVec, sorted, compilationList>>,
         stage' = stage \/ stage \notin {"dfs", "sort"}
  PROVE  CGInv'
<1>1. /\ callees' = callees /\ dfs' = dfs /\ visitStack' = visitStack /\ visitIndex' = visitIndex
      /\ visitedOrder' = visitedOrder /\ lowestOrder' = lowestOrder /\ sccNode' = sccNode
      /\ sccNodes' = sccNodes /\ sccTopologicalVec' = sccTopologicalVec /\ sorted' = sorted
      /\ compilationList' = compilationList
  BY DEF dfsVars
<1>2. DfsTypes'
  BY <1>1 DEF CGInv, DfsInv, DfsTypes
<1>3. ComponentsAreCycles'
  BY <1>1, SameReaches DEF CGInv, DfsInv, SearchInv, ComponentsAreCycles
<1>4. SearchInv'
  BY <1>1, <1>3 DEF CGInv, DfsInv, SearchInv, Orders, StackOrder, DfsOrder, SeenVisited, Finished,
     LowReached, LowLeaves, LowBounds, GrayReaches, Listed, Visited, OnStack, Seen, Under
<1>5. \A s : CallerScc(s)' = CallerScc(s)
  BY <1>1, SameComponents
<1>6. SortInv => SortInv'
  BY <1>1, <1>5 DEF SortInv
<1>7. BottomFirst(compilationList) => BottomFirst(compilationList)'
  BY <1>1 DEF BottomFirst
<1> QED
  BY <1>1, <1>2, <1>4, <1>6, <1>7 DEF CGInv, DfsInv

\* Before the list is made, no order of the sort matters to the search.
LEMMA SearchSteps ==
  ASSUME CGInv, StartDFS \/ VisitCallee \/ LeaveDFS
  PROVE  CGInv'
<1>1. stage = "dfs" /\ stage' = stage
  BY DEF StartDFS, VisitCallee, LeaveDFS, AtCallee
<1>2. DfsInv
  BY DEF CGInv
<1>3. CASE StartDFS
  BY <1>1, <1>2, <1>3, StartStep DEF CGInv
<1>4. CASE VisitCallee
  <2>1. CASE visitedOrder[Callee] = 0
    BY <1>1, <1>2, <1>4, <2>1, VisitStep DEF CGInv
  <2>2. CASE visitedOrder[Callee] # 0
    BY <1>1, <1>2, <1>4, <2>2, LookStep DEF CGInv
  <2> QED
    BY <2>1, <2>2
<1>5. CASE LeaveDFS
  <2>1. CASE visitedOrder[Current.node] = lowestOrder[Current.node]
    BY <1>1, <1>2, <1>5, <2>1, PopStep DEF CGInv
  <2>2. CASE visitedOrder[Current.node] # lowestOrder[Current.node]
    BY <1>1, <1>2, <1>5, <2>2, ReturnStep DEF CGInv
  <2> QED
    BY <2>1, <2>2
<1> QED
  BY <1>3, <1>4, <1>5

\* The sort, once every function has a component.
LEMMA SortSteps ==
  ASSUME CGInv, SortRoots \/ SCCTopologicalSort
  PROVE  CGInv'
<1>1. DfsInv /\ DfsTypes
  BY DEF CGInv, DfsInv
<1>2. callees' = callees /\ dfsVars' = dfsVars /\ stage' = "sort"
  BY DEF SortRoots, SCCTopologicalSort
<1>3. /\ dfs' = dfs /\ visitStack' = visitStack /\ visitIndex' = visitIndex
      /\ visitedOrder' = visitedOrder /\ lowestOrder' = lowestOrder /\ sccNode' = sccNode
      /\ sccNodes' = sccNodes /\ callees' = callees
  BY <1>2 DEF dfsVars
<1>4. DfsTypes'
  BY <1>1, <1>3 DEF DfsTypes
<1>5. ComponentsAreCycles'
  BY <1>1, <1>3, SameReaches DEF DfsInv, SearchInv, ComponentsAreCycles
<1>6. SearchInv'
  BY <1>1, <1>3, <1>5 DEF DfsInv, SearchInv, Orders, StackOrder, DfsOrder, SeenVisited, Finished,
     LowReached, LowLeaves, LowBounds, GrayReaches, Listed, Visited, OnStack, Seen, Under
<1>7. SortInv' /\ \A f \in Functions : sccNode'[f] # 0
  <2>1. CASE SortRoots
    <3>1. \A f \in Functions : sccNode[f] # 0
      BY <2>1 DEF SortRoots, Waiting
    <3> QED
      BY <1>1, <1>3, <2>1, <3>1, SortStarts
  <2>2. CASE SCCTopologicalSort
    <3>1. stage = "sort"
      BY <2>2 DEF SCCTopologicalSort
    <3>2. SortInv /\ \A f \in Functions : sccNode[f] # 0
      BY <3>1 DEF CGInv
    <3> QED
      BY <1>1, <1>3, <2>2, <3>2, SortGoesOn
  <2> QED
    BY <2>1, <2>2
<1> QED
  BY <1>2, <1>4, <1>6, <1>7 DEF CGInv, DfsInv

\* The list, when the sort is over.
LEMMA ListStep ==
  ASSUME CGInv, SetCompilationFunclist
  PROVE  CGInv'
<1> PICK N, v : N = Len(sccNodes) /\ v = sccTopologicalVec
  OBVIOUS
<1>1. /\ DfsTypes /\ SearchInv /\ SortInv /\ Finished /\ Listed /\ sorted = Len(v)
      /\ \A f \in Functions : sccNode[f] # 0
  BY DEF CGInv, DfsInv, SearchInv, SetCompilationFunclist
<1>2. Range(v) = 1 .. N /\ DOMAIN sccNodes = 1 .. N /\ N \in Nat
  BY <1>1, SortIsComplete, DfsFacts, LenProperties DEF DfsTypes
<1>3. /\ dfs' = dfs /\ visitStack' = visitStack /\ visitIndex' = visitIndex
      /\ visitedOrder' = visitedOrder /\ lowestOrder' = lowestOrder /\ sccNode' = sccNode
      /\ sccTopologicalVec' = v /\ sorted' = sorted /\ callees' = callees /\ stage' = "built"
  BY DEF SetCompilationFunclist
<1>4. sccNodes' = [s \in 1 .. N |-> SortedScc(s)]
  BY <1>2 DEF SetCompilationFunclist
<1>5. ASSUME NEW s \in 1 .. N
      PROVE  /\ sccNodes'[s] = SortedScc(s)
             /\ SortedScc(s) \in Seq(Functions) /\ Distinct(SortedScc(s))
             /\ \A f : f \in Range(SortedScc(s)) <=> f \in Functions /\ sccNode[f] = s
  <2> PICK q : q = sccNodes[s]
    OBVIOUS
  <2>1. q \in Seq(Functions) /\ Distinct(q) /\ \A f : f \in Range(q) <=> f \in Functions /\ sccNode[f] = s
    BY <1>1, ComponentFacts
  <2>2. /\ SortedScc(s) \in Seq(Functions) /\ Distinct(SortedScc(s))
        /\ \A x : x \in Range(SortedScc(s)) <=> x \in Range(q)
    BY <2>1, SortedSccFacts
  <2>3. sccNodes'[s] = SortedScc(s)
    BY <1>4
  <2> QED
    BY <2>1, <2>2, <2>3
<1>6. sccNodes' \in Seq(Seq(Functions)) /\ Len(sccNodes') = N
  <2>1. sccNodes' \in [1 .. N -> Seq(Functions)]
    BY <1>4, <1>5
  <2> QED
    BY ONLY <1>2, <2>1, FunctionSeq
<1>7. DfsTypes'
  BY <1>1, <1>3, <1>6 DEF DfsTypes
<1>8. Listed'
  <2> SUFFICES ASSUME NEW s \in 1 .. N
               PROVE  LET q == sccNodes'[s] IN
                      /\ \A i \in 1 .. Len(q) : sccNode[q[i]] = s
                      /\ \A i, j \in 1 .. Len(q) : q[i] = q[j] => i = j
                      /\ \A f \in Functions : sccNode[f] = s => \E i \in 1 .. Len(q) : q[i] = f
                      /\ Len(q) > 0
    BY <1>3, <1>6 DEF Listed
  <2> PICK q : q = sccNodes'[s]
    OBVIOUS
  <2>1. q \in Seq(Functions) /\ Distinct(q) /\ \A f : f \in Range(q) <=> f \in Functions /\ sccNode[f] = s
    BY <1>5
  <2>2. /\ \A i \in 1 .. Len(q) : q[i] \in Range(q)
        /\ \A x \in Range(q) : \E i \in 1 .. Len(q) : q[i] = x
    BY <2>1, RangeFacts
  <2>3. PICK f \in Functions : sccNode[f] = s
    <3>1. Len(sccNodes[s]) > 0 /\ sccNode[sccNodes[s][1]] = s /\ Len(sccNodes[s]) \in Nat
      BY <1>1, DfsFacts DEF Listed
    <3>2. sccNodes[s][1] \in Functions
      BY <1>1, <3>1, DfsFacts, RangeFacts
    <3> QED
      BY <3>1, <3>2
  <2>4. Len(q) > 0
    <3>1. \E i \in 1 .. Len(q) : q[i] = f
      BY <2>1, <2>2, <2>3
    <3>2. Len(q) \in Nat
      BY <2>1, LenProperties
    <3> QED
      BY <3>1, <3>2
  <2> QED
    BY <2>1, <2>2, <2>4 DEF Distinct
<1>9. ComponentsAreCycles'
  BY <1>1, <1>3, SameReaches DEF SearchInv, ComponentsAreCycles
<1>10. SearchInv'
  BY <1>1, <1>3, <1>8, <1>9 DEF SearchInv, Orders, StackOrder, DfsOrder, SeenVisited, Finished,
     LowReached, LowLeaves, LowBounds, GrayReaches, Visited, OnStack, Seen, Under
<1>11. \A s : CallerScc(s)' = CallerScc(s)
  <2>1. DOMAIN sccNodes' = DOMAIN sccNodes
    BY <1>2, <1>4
  <2>2. ASSUME NEW s \in DOMAIN sccNodes PROVE Range(sccNodes'[s]) = Range(sccNodes[s])
    <3>1. \A f : f \in Range(sccNodes[s]) <=> f \in Functions /\ sccNode[f] = s
      BY <1>1, <1>2, ComponentFacts
    <3>2. sccNodes'[s] = SortedScc(s)
      BY <1>2, <1>5
    <3>3. \A f : f \in Range(SortedScc(s)) <=> f \in Functions /\ sccNode[f] = s
      BY <1>2, <1>5
    <3> QED
      BY <3>1, <3>2, <3>3
  <2> QED
    BY <1>3, <2>1, <2>2, SameComponents
<1>12. SortInv'
  <2>1. (sccTopologicalVec \in Seq(1 .. Len(sccNodes)) /\ Distinct(sccTopologicalVec)
         /\ sorted \in 0 .. Len(sccTopologicalVec))'
    BY <1>1, <1>3, <1>6 DEF SortInv
  <2>2. (\A j \in 1 .. Len(sccTopologicalVec) : \A c \in CallerScc(sccTopologicalVec[j]) :
           \E i \in 1 .. Len(sccTopologicalVec) : i < j /\ sccTopologicalVec[i] = c)'
    <3>1. \A j : CallerScc(sccTopologicalVec[j])' = CallerScc(v[j])
      BY <1>3, <1>11
    <3>2. \A j \in 1 .. Len(v) : \A c \in CallerScc(v[j]) : \E i \in 1 .. Len(v) : i < j /\ v[i] = c
      <4>1. \A j \in 1 .. Len(sccTopologicalVec) : \A c \in CallerScc(sccTopologicalVec[j]) :
              \E i \in 1 .. Len(sccTopologicalVec) : i < j /\ sccTopologicalVec[i] = c
        BY <1>1 DEF SortInv
      <4>2. v = sccTopologicalVec
        OBVIOUS
      <4> QED
        BY ONLY <4>1, <4>2
    <3>3. \A j \in 1 .. Len(v) : \A c \in CallerScc(sccTopologicalVec[j])' :
            \E i \in 1 .. Len(v) : i < j /\ v[i] = c
      BY ONLY <3>1, <3>2
    <3> QED
      BY <1>3, <3>3
  <2>3. (\A t \in 1 .. Len(sccNodes) :
           (\A c \in CallerScc(t) : \E i \in 1 .. sorted : sccTopologicalVec[i] = c) =>
             t \in Range(sccTopologicalVec))'
    BY <1>1, <1>3, <1>6, <1>11 DEF SortInv
  <2> QED
    BY <2>1, <2>2, <2>3 DEF SortInv
<1>13. BottomFirst(compilationList)'
  <2> PICK r : r = [s \in 1 .. N |-> SortedScc(s)]
    OBVIOUS
  <2>1. /\ r \in [1 .. N -> Seq(Functions)]
        /\ \A s \in 1 .. N :
             Distinct(r[s]) /\ \A f : f \in Range(r[s]) <=> f \in Functions /\ sccNode[f] = s
    BY <1>5
  <2>2. BottomFirst(FlattenSeq([i \in DOMAIN v |-> r[FromBottom(i)]]))
    <3>1. /\ r \in [1 .. Len(sccNodes) -> Seq(Functions)]
          /\ \A s \in 1 .. Len(sccNodes) :
               Distinct(r[s]) /\ \A f : f \in Range(r[s]) <=> f \in Functions /\ sccNode[f] = s
      BY <2>1
    <3>2. Range(sccTopologicalVec) = 1 .. Len(sccNodes)
      BY <1>2
    <3>3. BottomFirst(FlattenSeq([i \in DOMAIN sccTopologicalVec |-> r[FromBottom(i)]]))
      BY ONLY <1>1, <3>1, <3>2, FromBottomFacts
    <3> QED
      BY <3>3
  <2>3. \A i \in DOMAIN v : r[FromBottom(i)] = SortedScc(FromBottom(i))
    <3>1. v \in Seq(1 .. N) /\ DOMAIN v = 1 .. Len(v) /\ Len(v) \in Nat
      BY <1>1, LenProperties DEF SortInv
    <3>2. \A i \in DOMAIN v : Len(v) + 1 - i \in 1 .. Len(v)
      BY <3>1
    <3>3. \A i \in 1 .. Len(v) : v[i] \in 1 .. N
      BY ONLY <3>1, RangeFacts
    <3> QED
      BY <3>2, <3>3 DEF FromBottom
  <2>4. [i \in DOMAIN v |-> r[FromBottom(i)]] = [i \in DOMAIN v |-> SortedScc(FromBottom(i))]
    BY <2>3
  <2>5. compilationList' = FlattenSeq([i \in DOMAIN v |-> SortedScc(FromBottom(i))])
    BY DEF SetCompilationFunclist
  <2>6. BottomFirst(compilationList')
    BY <2>2, <2>4, <2>5
  <2> QED
    BY <1>3, <2>6 DEF BottomFirst
<1>14. \A f \in Functions : sccNode'[f] # 0
  BY <1>1, <1>3
<1> QED
  BY <1>1, <1>3, <1>7, <1>10, <1>12, <1>13, <1>14 DEF CGInv, DfsInv

\* What the call graph starts with.
LEMMA CGStarts ==
  ASSUME Init
  PROVE  CGInv
<1>1. CGInit /\ prog \in Programs /\ callees = [f \in Functions |-> CalleesOf(prog.body[f])]
  BY DEF Init
<1>2. /\ stage = "dfs" /\ dfs = <<>> /\ visitStack = <<>> /\ visitIndex = 1
      /\ visitedOrder = [f \in Functions |-> 0] /\ lowestOrder = [f \in Functions |-> 0]
      /\ sccNode = [f \in Functions |-> 0] /\ sccNodes = <<>>
  BY <1>1 DEF CGInit
<1>3. \A f \in Functions : CalleesOf(prog.body[f]) \in Seq(Functions)
  <2>1. ASSUME NEW f \in Functions PROVE CalleesOf(prog.body[f]) \in Seq(Functions)
    <3> PICK b : b = prog.body[f]
      OBVIOUS
    <3>1. b \in Seq(Statements) /\ \A i \in DOMAIN b : b[i].op = "call" => b[i].f \in Functions
      BY <1>1, InlineAssumption
    <3>2. Calls(b) \subseteq Functions
      BY <3>1 DEF Calls
    <3> QED
      BY <3>1, <3>2, CalleesOfFacts
  <2> QED
    BY <2>1
<1>4. CalleesOK(callees)
  BY <1>1, <1>3 DEF CalleesOK
<1>5. /\ Len(dfs) = 0 /\ Len(visitStack) = 0 /\ Len(sccNodes) = 0 /\ 1 .. 0 = {}
      /\ dfs \in Seq(Frames) /\ visitStack \in Seq(Functions) /\ sccNodes \in Seq(Seq(Functions))
  BY <1>2, EmptySeq
<1>6. DfsTypes
  BY <1>2, <1>4, <1>5 DEF DfsTypes
<1>7. \A f \in Functions : ~Visited(f) /\ ~OnStack(f) /\ sccNode[f] = 0 /\ visitedOrder[f] = 0
  BY <1>2 DEF Visited, OnStack
<1>8. \A f \in Functions : Seen(f) = {}
  BY <1>7 DEF Seen
<1>9. Orders /\ StackOrder /\ DfsOrder /\ SeenVisited /\ Finished
  <2>1. Orders
    BY <1>2, <1>7 DEF Orders
  <2>2. StackOrder /\ DfsOrder
    BY <1>5, <1>7 DEF StackOrder, DfsOrder
  <2>3. SeenVisited /\ Finished
    BY <1>7, <1>8 DEF SeenVisited, Finished
  <2> QED
    BY <2>1, <2>2, <2>3
<1>10. LowReached /\ LowLeaves /\ LowBounds /\ GrayReaches /\ Listed
  BY <1>5, <1>7 DEF LowReached, LowLeaves, LowBounds, GrayReaches, Listed
<1>11. ComponentsAreCycles
  BY <1>7 DEF ComponentsAreCycles
<1> QED
  BY <1>2, <1>6, <1>9, <1>10, <1>11 DEF CGInv, DfsInv, SearchInv

\* Every step of the program keeps the invariant of the graph.
LEMMA CGSteps ==
  ASSUME CGInv, [Next]_allVars
  PROVE  CGInv'
<1>1. CASE CGNext
  <2>1. CASE StartDFS \/ VisitCallee \/ LeaveDFS
    BY <2>1, SearchSteps
  <2>2. CASE SortRoots \/ SCCTopologicalSort
    BY <2>2, SortSteps
  <2>3. CASE SetCompilationFunclist
    BY <2>3, ListStep
  <2> QED
    BY <1>1, <2>1, <2>2, <2>3 DEF CGNext
<1>2. CASE \/ Collect \/ EnterFunction \/ PerformInline \/ SkipStatement \/ LeaveFunction
           \/ Execute \/ Leave \/ UNCHANGED allVars
  <2>1. UNCHANGED cgVars
    BY <1>2 DEF Collect, EnterFunction, PerformInline, SkipStatement, LeaveFunction, Execute, Leave,
       allVars
  <2> QED
    BY <2>1, GraphStays DEF cgVars, dfsVars
<1>3. CASE StartInline \/ Run \/ EndRun
  <2>1. UNCHANGED <<callees, dfsVars, sccTopologicalVec, sorted, compilationList>>
    BY <1>3 DEF StartInline, Run, EndRun
  <2>2. stage \notin {"dfs", "sort"}
    BY <1>3 DEF StartInline, Run, EndRun, Running
  <2> QED
    BY <2>1, <2>2, GraphStays
<1> QED
  BY <1>1, <1>2, <1>3 DEF Next

\* The graph of any program, at every step.
LEMMA GraphInvariant == Spec => []CGInv
<1>1. Init => CGInv
  BY CGStarts
<1>2. CGInv /\ [Next]_allVars => CGInv'
  BY CGSteps
<1> QED
  BY <1>1, <1>2, PTL DEF Spec

\* Two functions that have a component have the same one just if each calls the
\* other, directly or not, whatever the program and however far the search is.
THEOREM ComponentsHold == Spec => []ComponentsAreCycles
<1>1. CGInv => ComponentsAreCycles
  BY DEF CGInv, DfsInv, SearchInv
<1> QED
  BY <1>1, GraphInvariant, PTL

\* Every component is sorted behind its callers, and every function is compiled
\* once, after the ones it calls that do not call it.
THEOREM OrderHolds == Spec => []CalleesAreCompiledFirst
<1>1. CGInv => CalleesAreCompiledFirst
  <2> SUFFICES ASSUME CGInv PROVE CalleesAreCompiledFirst
    OBVIOUS
  <2>1. CASE stage = "built"
    BY <2>1, ListFacts DEF CGInv, DfsInv
  <2>2. CASE stage # "built"
    BY <2>2 DEF CalleesAreCompiledFirst, EveryComponentIsSorted
  <2> QED
    BY <2>1, <2>2
<1> QED
  BY <1>1, GraphInvariant, PTL

-----------------------------------------------------------------------------
(* Inlined bodies. *)

\* The calls of a body, by place.
LEMMA CallsFacts ==
  ASSUME NEW b \in Seq(Statements)
  PROVE  /\ \A i \in 1 .. Len(b) : b[i].op = "call" => b[i].f \in Calls(b)
         /\ \A g \in Calls(b) : \E i \in 1 .. Len(b) : b[i].op = "call" /\ b[i].f = g
         /\ Calls(b) = {s.f : s \in {s \in Range(b) : s.op = "call"}}
<1>1. DOMAIN b = 1 .. Len(b)
  BY LenProperties
<1>2. /\ \A i \in 1 .. Len(b) : b[i] \in Range(b)
      /\ \A x \in Range(b) : \E i \in 1 .. Len(b) : b[i] = x
  BY RangeFacts
<1>3. /\ \A i \in 1 .. Len(b) : b[i].op = "call" => b[i].f \in Calls(b)
      /\ \A g \in Calls(b) : \E i \in 1 .. Len(b) : b[i].op = "call" /\ b[i].f = g
  BY <1>1 DEF Calls
<1> QED
  BY <1>2, <1>3

\* A renamed statement is of the same function.
LEMMA RenamedFacts ==
  ASSUME NEW s \in Statements, NEW symOff \in Nat, NEW labOff \in Nat
  PROVE  LET r == Renamed(s, symOff, labOff)
         IN  r \in Statements /\ r.op = s.op /\ r.f = s.f
<1>1. s.x \in Nat /\ s.y \in Nat /\ s.l \in Nat
  BY DEF Statements
<1>2. /\ Shift(s.x, symOff) \in Nat /\ Shift(s.l, labOff) \in Nat
      /\ (IF s.op = "const" THEN s.y ELSE Shift(s.y, symOff)) \in Nat
  BY <1>1 DEF Shift
<1> PICK x, y, l : /\ x = Shift(s.x, symOff) /\ l = Shift(s.l, labOff)
                   /\ y = IF s.op = "const" THEN s.y ELSE Shift(s.y, symOff)
  OBVIOUS
<1>3. Renamed(s, symOff, labOff) = [s EXCEPT !.x = x, !.y = y, !.l = l]
  BY DEF Renamed
<1>4. x \in Nat /\ y \in Nat /\ l \in Nat
  BY <1>2
<1> QED
  BY ONLY <1>3, <1>4, s \in Statements DEF Statements

\* What a statement is replaced by calls no other function.
LEMMA ReturnedFacts ==
  ASSUME NEW s \in Statements, NEW x \in Nat, NEW ret \in Nat
  PROVE  /\ Returned(s, x, ret) \in Seq(Statements)
         /\ \A e \in Range(Returned(s, x, ret)) : e.op = "call" => e = s
<1>1. CASE s.op # "return"
  <2>1. Returned(s, x, ret) = <<s>>
    BY <1>1 DEF Returned
  <2> QED
    BY <2>1, SingleFacts
<1>2. CASE s.op = "return"
  <2> PICK a, b : a = S("copy", x, s.y, 0, 0) /\ b = S("goto", 0, 0, 0, ret)
    OBVIOUS
  <2>1. a \in Statements /\ b \in Statements /\ a.op # "call" /\ b.op # "call"
    BY DEF S, Statements, Ops
  <2>2. Returned(s, x, ret) = (IF x = 0 THEN <<>> ELSE <<a>>) \o <<b>>
    BY <1>2 DEF Returned
  <2> PICK p : p = IF x = 0 THEN <<>> ELSE <<a>>
    OBVIOUS
  <2>3. p \in Seq(Statements) /\ \A e \in Range(p) : e = a
    <3>1. CASE x = 0
      BY <3>1, EmptyFacts
    <3>2. CASE x # 0
      BY <2>1, <3>2, SingleFacts
    <3> QED
      BY <3>1, <3>2
  <2> PICK q : q = <<b>>
    OBVIOUS
  <2>4. q \in Seq(Statements) /\ \A e \in Range(q) : e = b
    BY <2>1, SingleFacts
  <2>5. p \o q \in Seq(Statements) /\ \A e : e \in Range(p \o q) <=> e \in Range(p) \/ e \in Range(q)
    BY <2>3, <2>4, JoinedFacts
  <2>6. Returned(s, x, ret) = p \o q
    BY <2>2
  <2> QED
    BY <2>1, <2>3, <2>4, <2>5, <2>6
<1> QED
  BY <1>1, <1>2

\* A trimmed body calls what it called.
LEMMA TrimmedFacts ==
  ASSUME NEW b \in Seq(Statements), NEW x \in Nat, NEW ret \in Nat, NEW own
  PROVE  /\ Trimmed(b, x, ret, own) \in Seq(Statements)
         /\ \A e \in Range(Trimmed(b, x, ret, own)) : e.op = "call" => e \in Range(b)
<1> PICK n : n = Len(b)
  OBVIOUS
<1>1. n \in Nat /\ DOMAIN b = 1 .. n
  BY LenProperties
<1>2. \A i \in 1 .. n : b[i] \in Statements /\ b[i] \in Range(b)
  BY RangeFacts
<1> DEFINE q == [i \in 1 .. n |-> Returned(b[i], x, ret)]
<1>3. q \in [1 .. n -> Seq(Statements)]
  BY <1>2, ReturnedFacts
<1>4. \A i \in 1 .. n : \A e \in Range(q[i]) : e.op = "call" => e \in Range(b)
  BY <1>2, ReturnedFacts
<1> PICK all : all = WithReturns(b, x, ret)
  OBVIOUS
<1>5. all = FlattenSeq(q)
  BY <1>1 DEF WithReturns
<1> HIDE DEF q
<1>6. FlattenSeq(q) \in Seq(Statements)
      /\ \A e : e \in Range(FlattenSeq(q)) <=> \E i \in 1 .. n : e \in Range(q[i])
  BY ONLY <1>1, <1>3, FlatRange
<1>7. all \in Seq(Statements) /\ \A e \in Range(all) : e.op = "call" => e \in Range(b)
  BY <1>4, <1>5, <1>6
<1> PICK kept : kept = IF EndsInReturn(b) THEN SubSeq(all, 1, Len(all) - 1) ELSE all
  OBVIOUS
<1>8. kept \in Seq(Statements) /\ Range(kept) \subseteq Range(all)
  <2>1. CASE ~EndsInReturn(b)
    BY <1>7, <2>1
  <2>2. CASE EndsInReturn(b)
    <3>1. Len(all) # 0
      <4>1. b # <<>> /\ b[n].op = "return"
        BY <2>2 DEF EndsInReturn
      <4>2. n # 0
        BY <4>1, EmptySeq
      <4>3. n \in 1 .. n
        BY <1>1, <4>2
      <4>4. q[n] = Returned(b[n], x, ret)
        BY <4>3 DEF q
      <4>5. Range(q[n]) # {}
        <5> PICK p : p = IF x = 0 THEN <<>> ELSE <<S("copy", x, b[n].y, 0, 0)>>
          OBVIOUS
        <5> PICK e : e = S("goto", 0, 0, 0, ret)
          OBVIOUS
        <5>1. q[n] = p \o <<e>>
          BY <4>1, <4>4 DEF Returned
        <5>2. e \in Statements /\ b[n] \in Statements
          BY <1>2, <4>3 DEF S, Statements, Ops
        <5>3. p \in Seq(Statements)
          <6>1. S("copy", x, b[n].y, 0, 0) \in Statements
            BY <5>2 DEF S, Statements, Ops
          <6> QED
            BY <6>1, EmptyFacts, SingleFacts
        <5>4. <<e>> \in Seq(Statements) /\ e \in Range(<<e>>)
          BY <5>2, SingleFacts
        <5>5. e \in Range(p \o <<e>>)
          BY ONLY <5>3, <5>4, JoinedFacts
        <5> QED
          BY <5>1, <5>5
      <4>6. Range(all) # {}
        BY <1>5, <1>6, <4>3, <4>5
      <4>7. Len(all) = 0 => all = <<>>
        BY <1>7, EmptySeq
      <4> QED
        BY <4>6, <4>7, EmptyFacts
    <3>2. Len(all) \in Nat
      BY <1>7, LenProperties
    <3>3. Len(all) - 1 \in 0 .. Len(all)
      BY <3>1, <3>2
    <3>4. /\ SubSeq(all, 1, Len(all) - 1) \in Seq(Statements)
          /\ \A e : e \in Range(SubSeq(all, 1, Len(all) - 1)) => e \in Range(all)
      BY ONLY <1>7, <3>3, CutFacts
    <3> QED
      BY <2>2, <3>4
  <2> QED
    BY <2>1, <2>2
<1> PICK lab : lab = S("label", 0, 0, 0, ret)
  OBVIOUS
<1>9. lab \in Statements /\ lab.op # "call"
  BY DEF S, Statements, Ops
<1>10. /\ Append(kept, lab) \in Seq(Statements)
       /\ \A e : e \in Range(Append(kept, lab)) <=> e \in Range(kept) \/ e = lab
  BY ONLY <1>8, <1>9, AppendedFacts
<1>11. Trimmed(b, x, ret, own) = kept \/ Trimmed(b, x, ret, own) = Append(kept, lab)
  BY DEF Trimmed
<1> QED
  BY <1>7, <1>8, <1>9, <1>10, <1>11

\* The types of the bodies and of their tables.
BodiesOK ==
  /\ body \in [Functions -> Seq(Statements)]
  /\ symbols \in [Functions -> Nat] /\ labels \in [Functions -> Nat]
  /\ at \in Nat

\* An inlined body calls what the callee calls.
LEMMA InlinedFacts ==
  ASSUME BodiesOK, NEW c \in Functions, NEW i \in 1 .. Len(body[c]), body[c][i].f \in Functions
  PROVE  /\ InlinedBody(c, i) \in Seq(Statements)
         /\ \A e \in Range(InlinedBody(c, i)) : e.op = "call" => e.f \in Calls(body[body[c][i].f])
<1> PICK b, call, g, ret :
      /\ b = body[c] /\ call = b[i] /\ g = call.f
      /\ ret = IF ~NextIsLabel(b, i) THEN labels[c] + labels[g] + 1 ELSE b[i + 1].l
  OBVIOUS
<1>1. /\ g \in Functions /\ b \in Seq(Statements) /\ body[g] \in Seq(Statements)
      /\ symbols[c] \in Nat /\ labels[c] \in Nat /\ labels[g] \in Nat
  BY DEF BodiesOK
<1>2. \A k \in 1 .. Len(b) : b[k] \in Statements
  BY <1>1, RangeFacts
<1>3. call \in Statements /\ call.x \in Nat /\ call.y \in Nat
  <2>1. call \in Statements
    BY <1>2
  <2> QED
    BY <2>1 DEF Statements
<1>4. ret \in Nat
  <2>1. CASE ~NextIsLabel(b, i)
    BY <1>1, <2>1
  <2>2. CASE NextIsLabel(b, i)
    <3>1. i + 1 \in 1 .. Len(b)
      BY <1>1, <2>2, LenProperties DEF NextIsLabel
    <3>2. b[i + 1] \in Statements
      BY <1>2, <3>1
    <3>3. b[i + 1].l \in Nat
      BY <3>2 DEF Statements
    <3> QED
      BY <2>2, <3>3
  <2> QED
    BY <2>1, <2>2
<1> PICK new : new = [j \in DOMAIN body[g] |-> Renamed(body[g][j], symbols[c], labels[c])]
  OBVIOUS
<1> PICK n : n = Len(body[g])
  OBVIOUS
<1>5. n \in Nat /\ DOMAIN body[g] = 1 .. n /\ \A k \in 1 .. n : body[g][k] \in Statements
  BY <1>1, LenProperties, RangeFacts
<1>6. \A k \in 1 .. n : /\ new[k] \in Statements /\ new[k].op = body[g][k].op
                        /\ new[k].f = body[g][k].f
  <2> SUFFICES ASSUME NEW k \in 1 .. n
               PROVE  /\ new[k] \in Statements /\ new[k].op = body[g][k].op
                      /\ new[k].f = body[g][k].f
    OBVIOUS
  <2> PICK s, r : s = body[g][k] /\ r = Renamed(s, symbols[c], labels[c])
    OBVIOUS
  <2>1. s \in Statements /\ r = new[k]
    BY <1>5
  <2>2. /\ Renamed(s, symbols[c], labels[c]) \in Statements
        /\ Renamed(s, symbols[c], labels[c]).op = s.op
        /\ Renamed(s, symbols[c], labels[c]).f = s.f
    BY ONLY <1>1, <2>1, RenamedFacts
  <2> QED
    BY <2>1, <2>2
<1>7. new \in Seq(Statements) /\ Len(new) = n
  <2>1. new \in [1 .. n -> Statements]
    BY <1>5, <1>6
  <2> QED
    BY <1>5, <2>1, FunctionSeq
<1>8. \A e \in Range(new) : e.op = "call" => e.f \in Calls(body[g])
  <2>1. \A k \in 1 .. n : body[g][k].op = "call" => body[g][k].f \in Calls(body[g])
    BY <1>1, CallsFacts
  <2>2. \A e \in Range(new) : \E k \in 1 .. n : new[k] = e
    BY <1>7, RangeFacts
  <2>3. ASSUME NEW e \in Range(new), e.op = "call" PROVE e.f \in Calls(body[g])
    <3>1. PICK k \in 1 .. n : new[k] = e
      BY <2>2
    <3>2. body[g][k].op = "call" /\ body[g][k].f = e.f
      BY ONLY <1>6, <2>3, <3>1, k \in 1 .. n
    <3> QED
      BY ONLY <2>1, <3>2, k \in 1 .. n
  <2> QED
    BY ONLY <2>3
<1> PICK t : t = Trimmed(new, call.x, ret, ~NextIsLabel(b, i))
  OBVIOUS
<1>9. t \in Seq(Statements) /\ \A e \in Range(t) : e.op = "call" => e \in Range(new)
  BY <1>3, <1>4, <1>7, TrimmedFacts
<1> PICK first : first = S("copy", 1 + symbols[c], call.y, 0, 0)
  OBVIOUS
<1>10. first \in Statements /\ first.op # "call"
  <2>1. 1 + symbols[c] \in Nat
    BY <1>1
  <2> QED
    BY <1>3, <2>1 DEF S, Statements, Ops
<1>11. /\ <<first>> \o t \in Seq(Statements)
       /\ \A e : e \in Range(<<first>> \o t) <=> e = first \/ e \in Range(t)
  <2>1. <<first>> \in Seq(Statements) /\ \A e : e \in Range(<<first>>) <=> e = first
    BY ONLY <1>10, SingleFacts
  <2>2. /\ <<first>> \o t \in Seq(Statements)
        /\ \A e : e \in Range(<<first>> \o t) <=> e \in Range(<<first>>) \/ e \in Range(t)
    BY ONLY <1>9, <2>1, JoinedFacts
  <2> QED
    BY ONLY <2>1, <2>2
<1>12. InlinedBody(c, i) = IF new = <<>> THEN <<>> ELSE <<first>> \o t
  BY DEF InlinedBody
<1> QED
  <2>1. CASE new = <<>>
    BY <1>12, <2>1, EmptyFacts
  <2>2. CASE new # <<>>
    BY <1>8, <1>9, <1>10, <1>11, <1>12, <2>2
  <2> QED
    BY <2>1, <2>2

-----------------------------------------------------------------------------
(* The calls that are left. *)

\* What reaches what.
LEMMA ReachFacts ==
  ASSUME CalleesOK(callees)
  PROVE  /\ \A f \in Functions : Reaches(f, f)
         /\ \A f \in Functions : \A g \in Range(callees[f]) : g \in Functions /\ Reaches(f, g)
         /\ \A f \in Functions : \A g : Reaches(f, g) => g \in Functions
         /\ \A f \in Functions : \A g, h : Reaches(f, g) /\ Reaches(g, h) => Reaches(f, h)
         /\ \A f \in Functions : \A X :
              f \in X /\ (\A x \in X \cap Functions : Range(callees[x]) \subseteq X) =>
                \A g : Reaches(f, g) => g \in X
<1>1. \A f \in Functions : /\ f \in From(callees, f) /\ From(callees, f) \subseteq Functions
                           /\ Range(callees[f]) \subseteq Functions
                           /\ Range(callees[f]) \subseteq From(callees, f)
  BY FromOrder
<1>2. \A f \in Functions : \A g \in From(callees, f) : From(callees, g) \subseteq From(callees, f)
  BY FromOrder
<1>3. \A f \in Functions : \A X :
        f \in X /\ (\A x \in X \cap Functions : Range(callees[x]) \subseteq X)
          => From(callees, f) \subseteq X
  BY FromOrder
<1> QED
  BY ONLY <1>1, <1>2, <1>3, ReachesIs

\* A function that reaches another one that reaches it is recursive.
LEMMA CycleIsRecursive ==
  ASSUME CalleesOK(callees), NEW f \in Functions, NEW g, f # g, Reaches(f, g), Reaches(g, f)
  PROVE  IsRecursive(f)
<1>1. PICK h \in Range(callees[f]) : g \in From(callees, h)
  BY FromOrder, ReachesIs
<1>2. h \in Functions /\ Reaches(h, g)
  BY <1>1, ReachFacts, ReachesIs
<1>3. Reaches(h, f)
  BY <1>2, ReachFacts
<1> QED
  BY <1>1, <1>3 DEF IsRecursive

\* A call that may stay: the caller led to it, and over a recursion if the callee
\* may be inlined anywhere.
MayStay(f, g) == Reaches(f, g) /\ (g \in toInline /\ prog.prefer[g] = {} => Through(f, g))

\* Call i of f has yet to be scanned.
Ahead(f, i) == f \in Range(order) /\ ~(f = order[1] /\ i < at)

\* What is yet to be scanned reaches nothing that is later, and what was scanned
\* nothing that is yet to be, except on a recursion.
OrderInv ==
  /\ order \in Seq(Functions) /\ Distinct(order)
  /\ \A i, j \in 1 .. Len(order) :
       i < j /\ Reaches(order[i], order[j]) => Reaches(order[j], order[i])
  /\ \A f \in Functions \ Range(order) : \A g \in Range(order) :
       Reaches(f, g) => Reaches(g, f)

\* A call that was not scanned is one of the graph, and the others may stay.
CallsInv ==
  \A f \in Functions : \A i \in 1 .. Len(body[f]) :
    body[f][i].op = "call" =>
      IF Ahead(f, i) THEN body[f][i].f \in Range(callees[f]) ELSE MayStay(f, body[f][i].f)

Late == {"inline", "rerun", "done"}
LeftInv ==
  /\ BodiesOK
  /\ stage \notin Late => \A f \in Functions : Calls(body[f]) \subseteq Range(callees[f])
  /\ stage \in Late => OrderInv /\ CallsInv
  /\ stage \in {"rerun", "done"} => order = <<>>

\* A function is in at most one component; along calls the places only grow.
LEMMA OrderStarts ==
  ASSUME DfsTypes, SearchInv, SortInv, sorted = Len(sccTopologicalVec),
         \A f \in Functions : sccNode[f] # 0, NEW l, BottomFirst(l),
         NEW i \in 1 .. Len(l), NEW j \in 1 .. Len(l), i < j, Reaches(l[i], l[j])
  PROVE  Reaches(l[j], l[i])
<1> PICK v, n : v = sccTopologicalVec /\ n = Len(v)
  OBVIOUS
<1>1. n \in Nat /\ v \in Seq(1 .. Len(sccNodes)) /\ DOMAIN v = 1 .. n /\ Distinct(v)
      /\ Len(sccNodes) \in Nat
  BY LenProperties, DfsFacts DEF SortInv
<1>2. /\ Range(v) = DOMAIN sccNodes
      /\ \A a, b \in 1 .. n : v[b] \in CalleeScc(v[a]) => a < b
  BY <1>1, SortedFacts DEF SearchInv
<1>3. \A f \in Functions : \E a \in 1 .. n : v[a] = sccNode[f]
  <2>1. \A f \in Functions : sccNode[f] \in 1 .. Len(sccNodes)
    BY DfsFacts
  <2>2. DOMAIN sccNodes = 1 .. Len(sccNodes)
    BY DfsFacts, LenProperties
  <2>3. \A x \in Range(v) : \E a \in 1 .. n : v[a] = x
    BY <1>1, RangeFacts
  <2> QED
    BY <1>2, <2>1, <2>2, <2>3
<1>4. l[i] \in Functions /\ l[j] \in Functions
  <2>1. l \in Seq(Functions)
    BY DEF BottomFirst
  <2> QED
    BY <2>1, RangeFacts
<1>5. PICK a \in 1 .. n, b \in 1 .. n : v[a] = sccNode[l[i]] /\ v[b] = sccNode[l[j]]
  BY <1>3, <1>4
<1>6. b <= a
  BY <1>5 DEF BottomFirst
<1>c. CalleesOK(callees)
  BY DfsFacts DEF DfsTypes, CalleesOK
<1>7. a <= b
  <2> DEFINE X == {f \in Functions : \A k \in 1 .. n : v[k] = sccNode[f] => a <= k}
  <2>1. l[i] \in X
    BY <1>1, <1>4, <1>5 DEF Distinct
  <2>2. ASSUME NEW f \in X, NEW g \in Range(callees[f]) PROVE g \in X
    <3>1. g \in Functions
      BY <1>c, ReachFacts
    <3>2. SUFFICES ASSUME NEW k \in 1 .. n, v[k] = sccNode[g] PROVE a <= k
      BY <3>1
    <3>3. PICK m \in 1 .. n : v[m] = sccNode[f]
      BY <1>3
    <3>4. a <= m
      BY <3>3
    <3>5. CASE sccNode[f] = sccNode[g]
      <4>1. m = k
        BY <1>1, <3>2, <3>3, <3>5 DEF Distinct
      <4> QED
        BY <3>4, <4>1
    <3>6. CASE sccNode[f] # sccNode[g]
      <4>1. f \in Range(sccNodes[v[m]])
        <5>1. sccNode[f] \in 1 .. Len(sccNodes)
          BY DfsFacts
        <5> QED
          BY <3>3, <5>1, ComponentFacts DEF SearchInv
      <4>2. v[k] \in CalleeScc(v[m])
        BY <3>2, <3>3, <3>6, <4>1 DEF CalleeScc
      <4>3. m < k
        BY <1>2, <4>2
      <4> QED
        BY <3>4, <4>3
    <3> QED
      BY <3>5, <3>6
  <2>3. \A x \in X \cap Functions : Range(callees[x]) \subseteq X
    BY <2>2
  <2>4. l[j] \in X
    <3> HIDE DEF X
    <3> QED
      BY <1>c, <1>4, <2>1, <2>3, ReachFacts
  <2> QED
    BY <1>5, <2>4
<1>8. sccNode[l[i]] = sccNode[l[j]]
  BY <1>5, <1>6, <1>7
<1>9. ComponentsAreCycles
  BY DEF SearchInv
<1> QED
  BY <1>4, <1>8, <1>9 DEF ComponentsAreCycles

\* The order that InlineCalls follows.
LEMMA BottomUpFacts ==
  ASSUME CGInv, stage \notin {"dfs", "sort"}
  PROVE  /\ BottomUp \in Seq(Functions) /\ Distinct(BottomUp)
         /\ \A f \in Functions : f \in Range(BottomUp)
         /\ \A i, j \in 1 .. Len(BottomUp) :
              i < j /\ Reaches(BottomUp[i], BottomUp[j]) => Reaches(BottomUp[j], BottomUp[i])
<1>1. /\ DfsTypes /\ SearchInv /\ SortInv /\ sorted = Len(sccTopologicalVec)
      /\ \A f \in Functions : sccNode[f] # 0
  BY DEF CGInv, DfsInv
<1>2. Range(sccTopologicalVec) = 1 .. Len(sccNodes)
  <2>1. DOMAIN sccNodes = 1 .. Len(sccNodes)
    BY <1>1, DfsFacts, LenProperties
  <2> QED
    BY <1>1, <2>1, SortedFacts DEF SearchInv
<1>3. \A s \in 1 .. Len(sccNodes) :
        /\ sccNodes[s] \in Seq(Functions) /\ Distinct(sccNodes[s])
        /\ \A f : f \in Range(sccNodes[s]) <=> f \in Functions /\ sccNode[f] = s
  BY <1>1, ComponentFacts DEF SearchInv
<1>4. sccNodes \in [1 .. Len(sccNodes) -> Seq(Functions)]
  BY <1>1, <1>3, LenProperties DEF DfsTypes
<1>5. BottomFirst(BottomUp)
  <2>1. BottomFirst(FlattenSeq([i \in DOMAIN sccTopologicalVec |-> sccNodes[FromBottom(i)]]))
    BY <1>1, <1>2, <1>3, <1>4, FromBottomFacts
  <2> QED
    BY <2>1 DEF BottomUp
<1>6. ASSUME NEW i \in 1 .. Len(BottomUp), NEW j \in 1 .. Len(BottomUp), i < j,
             Reaches(BottomUp[i], BottomUp[j])
      PROVE  Reaches(BottomUp[j], BottomUp[i])
  <2> HIDE DEF BottomUp
  <2> QED
    BY <1>1, <1>5, <1>6, OrderStarts
<1> QED
  BY <1>5, <1>6 DEF BottomFirst

\* Reachability and recursion stay while the callees do.
LEMMA SameThrough ==
  ASSUME callees' = callees
  PROVE  /\ \A f, g : Reaches(f, g)' <=> Reaches(f, g)
         /\ \A f, g : Through(f, g)' <=> Through(f, g)
<1>1. \A f, g : Reaches(f, g)' <=> Reaches(f, g)
  BY SameReaches
<1>2. \A f : IsRecursive(f)' <=> IsRecursive(f)
  BY <1>1 DEF IsRecursive
<1> QED
  BY <1>1, <1>2 DEF Through

\* What the callee of the current call calls may stay in the caller.
LEMMA InlinedMayStay ==
  ASSUME CalleesOK(callees), BodiesOK, OrderInv, CallsInv, order # <<>>,
         NEW g \in Range(callees[Caller]), NEW h \in Calls(body[g])
  PROVE  MayStay(Caller, h)
<1> PICK c : c = Caller
  OBVIOUS
<1>1. c = order[1] /\ c \in Functions /\ 1 \in 1 .. Len(order) /\ Len(order) \in Nat
  <2>1. order \in Seq(Functions)
    BY DEF OrderInv
  <2>2. Len(order) \in Nat /\ Len(order) # 0
    BY <2>1, EmptySeq, LenProperties
  <2> QED
    BY <2>1, <2>2, RangeFacts DEF Caller
<1>2. g \in Functions /\ Reaches(c, g) /\ Reaches(c, c)
  BY <1>1, ReachFacts
<1>3. body[g] \in Seq(Statements)
  BY <1>2 DEF BodiesOK
<1>4. PICK k \in 1 .. Len(body[g]) : body[g][k].op = "call" /\ body[g][k].f = h
  BY <1>3, CallsFacts
<1>5. CASE Ahead(g, k)
  <2>1. h \in Range(callees[g])
    BY <1>2, <1>4, <1>5 DEF CallsInv
  <2>2. Reaches(g, h)
    BY <1>2, <2>1, ReachFacts
  <2>3. Reaches(c, h)
    BY <1>1, <1>2, <2>2, ReachFacts
  <2>4. IsRecursive(c)
    <3>1. Reaches(g, c)
      <4>1. PICK m \in 1 .. Len(order) : order[m] = g
        BY <1>5, RangeFacts DEF Ahead, OrderInv
      <4>2. CASE m = 1
        BY <1>1, <1>2, <4>1, <4>2
      <4>3. CASE m # 1
        BY <1>1, <1>2, <4>1, <4>3 DEF OrderInv
      <4> QED
        BY <4>2, <4>3
    <3> QED
      BY <3>1 DEF IsRecursive
  <2>5. Through(c, h)
    BY <1>1, <1>2, <2>3, <2>4 DEF Through
  <2> QED
    BY <2>3, <2>5 DEF MayStay
<1>6. CASE ~Ahead(g, k)
  <2>1. MayStay(g, h)
    BY <1>2, <1>4, <1>6 DEF CallsInv
  <2>2. Reaches(c, h)
    BY <1>1, <1>2, <2>1, ReachFacts DEF MayStay
  <2>3. Through(g, h) => Through(c, h)
    BY <1>1, <1>2, ReachFacts DEF Through
  <2> QED
    BY <2>1, <2>2, <2>3 DEF MayStay
<1> QED
  BY <1>5, <1>6

Spliced(b, i, new) == SubSeq(b, 1, i - 1) \o new \o SubSeq(b, i + 1, Len(b))

\* The body in which a call is replaced.
LEMMA SplicedFacts ==
  ASSUME NEW b \in Seq(Statements), NEW i \in 1 .. Len(b), NEW new \in Seq(Statements)
  PROVE  LET r == Spliced(b, i, new)
         IN  /\ r \in Seq(Statements) /\ Len(r) = Len(b) + Len(new) - 1
             /\ \A j \in 1 .. Len(r) :
                  \/ j < i /\ j \in 1 .. Len(b) /\ r[j] = b[j]
                  \/ j < i + Len(new) /\ r[j] \in Range(new)
                  \/ /\ ~(j < i + Len(new))
                     /\ \E k \in 1 .. Len(b) : k > i /\ r[j] = b[k]
<1> PICK n, m : n = Len(b) /\ m = Len(new)
  OBVIOUS
<1>1. n \in Nat /\ m \in Nat /\ i \in 1 .. n
  BY LenProperties
<1>p. PICK p : p = SubSeq(b, 1, i - 1)
  OBVIOUS
<1>q. PICK q : q = SubSeq(b, i + 1, n)
  OBVIOUS
<1>2. p \in Seq(Statements) /\ Len(p) = i - 1 /\ \A k \in 1 .. i - 1 : p[k] = b[k]
  <2>1. 1 \in 1 .. n + 1 /\ i - 1 \in 1 - 1 .. n /\ i - 1 - 1 + 1 = i - 1
        /\ \A k \in 1 .. i - 1 : 1 + k - 1 = k
    BY <1>1
  <2>2. /\ SubSeq(b, 1, i - 1) \in Seq(Statements) /\ Len(SubSeq(b, 1, i - 1)) = i - 1 - 1 + 1
        /\ \A k \in 1 .. i - 1 - 1 + 1 : SubSeq(b, 1, i - 1)[k] = b[1 + k - 1]
    BY ONLY <2>1, b \in Seq(Statements), n = Len(b), PartFacts
  <2> QED
    BY ONLY <1>p, <2>1, <2>2
<1>3. q \in Seq(Statements) /\ Len(q) = n - i /\ \A k \in 1 .. n - i : q[k] = b[i + k]
  <2>a. PICK a : a = i + 1
    OBVIOUS
  <2>1. a \in 1 .. n + 1 /\ n \in a - 1 .. n /\ n - a + 1 = n - i
        /\ \A k \in 1 .. n - i : a + k - 1 = i + k
    BY <1>1, <2>a
  <2>2. a \in 1 .. Len(b) + 1 /\ n \in a - 1 .. Len(b)
    BY <2>1
  <2>3. /\ SubSeq(b, a, n) \in Seq(Statements) /\ Len(SubSeq(b, a, n)) = n - a + 1
        /\ \A k \in 1 .. n - a + 1 : SubSeq(b, a, n)[k] = b[a + k - 1]
    BY ONLY <2>2, b \in Seq(Statements), PartFacts
  <2> QED
    BY ONLY <1>q, <2>a, <2>1, <2>3
<1>s. PICK s : s = p \o new
  OBVIOUS
<1>4. /\ s \in Seq(Statements) /\ Len(s) = i - 1 + m
      /\ \A k \in 1 .. i - 1 : s[k] = p[k]
      /\ \A k \in i .. i - 1 + m : k - (i - 1) \in 1 .. m /\ s[k] = new[k - (i - 1)]
  <2>1. /\ p \o new \in Seq(Statements)
        /\ Len(p \o new) = Len(p) + Len(new)
        /\ \A k \in 1 .. Len(p) : (p \o new)[k] = p[k]
        /\ \A k \in Len(p) + 1 .. Len(p) + Len(new) :
             k - Len(p) \in 1 .. Len(new) /\ (p \o new)[k] = new[k - Len(p)]
    BY ONLY <1>2, new \in Seq(Statements), JoinedFacts
  <2>2. i - 1 + 1 = i
    BY <1>1
  <2> QED
    BY ONLY <1>2, <1>s, <2>1, <2>2, m = Len(new)
<1>r. PICK r : r = s \o q
  OBVIOUS
<1>5. /\ r \in Seq(Statements) /\ Len(r) = i - 1 + m + (n - i)
      /\ \A k \in 1 .. i - 1 + m : r[k] = s[k]
      /\ \A k \in i + m .. i - 1 + m + (n - i) :
           k - (i - 1 + m) \in 1 .. n - i /\ r[k] = q[k - (i - 1 + m)]
  <2>1. /\ s \o q \in Seq(Statements)
        /\ Len(s \o q) = Len(s) + Len(q)
        /\ \A k \in 1 .. Len(s) : (s \o q)[k] = s[k]
        /\ \A k \in Len(s) + 1 .. Len(s) + Len(q) :
             k - Len(s) \in 1 .. Len(q) /\ (s \o q)[k] = q[k - Len(s)]
    BY ONLY <1>3, <1>4, JoinedFacts
  <2>2. i - 1 + m + 1 = i + m
    BY <1>1
  <2> QED
    BY ONLY <1>3, <1>4, <1>r, <2>1, <2>2
<1>6. Len(r) = n + m - 1
  BY <1>1, <1>5
<1>7. ASSUME NEW j \in 1 .. Len(r)
      PROVE  \/ j < i /\ j \in 1 .. n /\ r[j] = b[j]
             \/ j < i + m /\ r[j] \in Range(new)
             \/ ~(j < i + m) /\ \E k \in 1 .. n : k > i /\ r[j] = b[k]
  <2>1. CASE j < i
    <3>1. j \in 1 .. i - 1 /\ j \in 1 .. i - 1 + m /\ j \in 1 .. n
      BY <1>1, <1>6, <2>1
    <3> QED
      BY ONLY <1>2, <1>4, <1>5, <2>1, <3>1
  <2>2. CASE ~(j < i) /\ j < i + m
    <3>1. j \in i .. i - 1 + m /\ j \in 1 .. i - 1 + m
      BY <1>1, <1>6, <2>2
    <3>2. r[j] = new[j - (i - 1)] /\ j - (i - 1) \in 1 .. m
      BY ONLY <1>4, <1>5, <3>1
    <3>3. \A k \in 1 .. m : new[k] \in Range(new)
      BY RangeFacts
    <3> QED
      BY <2>2, <3>2, <3>3
  <2>3. CASE ~(j < i + m)
    <3>1. j \in i + m .. i - 1 + m + (n - i)
      BY <1>1, <1>6, <2>3
    <3> PICK k : k = j - (i - 1 + m)
      OBVIOUS
    <3>2. k \in 1 .. n - i /\ r[j] = q[k]
      BY ONLY <1>5, <3>1, k = j - (i - 1 + m)
    <3>3. r[j] = b[i + k]
      BY ONLY <1>3, <3>2
    <3>4. i + k \in 1 .. n /\ i + k > i
      BY <1>1, <3>2
    <3> QED
      BY <2>3, <3>3, <3>4
  <2> QED
    BY <2>1, <2>2, <2>3
<1>8. Spliced(b, i, new) = r
  BY <1>p, <1>q, <1>s, <1>r DEF Spliced
<1> QED
  BY <1>5, <1>6, <1>7, <1>8

\* At first every call of a body is one of the graph.
LEMMA LeftStarts ==
  ASSUME Init
  PROVE  LeftInv
<1>1. prog \in Programs
  BY DEF Init
<1>2. /\ prog.body \in [Functions -> Seq(Statements)]
      /\ \A f \in Functions : \A i \in DOMAIN prog.body[f] :
           prog.body[f][i].op = "call" => prog.body[f][i].f \in Functions
      /\ prog.symbols \in [Functions -> Nat] /\ prog.labels \in [Functions -> Nat]
  BY <1>1, InlineAssumption
<1>3. BodiesOK
  BY <1>2 DEF BodiesOK, Init
<1>4. ASSUME NEW f \in Functions PROVE Calls(body[f]) \subseteq Range(callees[f])
  <2>1. body[f] = prog.body[f] /\ callees[f] = CalleesOf(prog.body[f])
    BY DEF Init
  <2>2. prog.body[f] \in Seq(Statements) /\ Calls(prog.body[f]) \subseteq Functions
    BY <1>2 DEF Calls
  <2>3. Range(CalleesOf(prog.body[f])) = Calls(prog.body[f])
    BY ONLY <2>2, CalleesOfFacts
  <2> QED
    BY <2>1, <2>3
<1>5. stage \notin Late
  BY DEF Init, CGInit, Late
<1> QED
  BY <1>3, <1>4, <1>5 DEF LeftInv, Late

\* What is left depends on the bodies, the callees and the order only.
LEMMA LeftStays ==
  ASSUME LeftInv, callees' = callees,
         UNCHANGED <<body, symbols, labels, toInline, prog, order>>, at' \in Nat,
         \/ stage' \notin Late /\ stage \notin Late
         \/ stage \in Late /\ at' = at /\ stage' = stage
         \/ stage \in Late /\ stage' \in Late /\ order = <<>>
  PROVE  LeftInv'
<1>1. /\ \A f, g : Reaches(f, g)' <=> Reaches(f, g)
      /\ \A f, g : Through(f, g)' <=> Through(f, g)
  BY SameThrough
<1>2. BodiesOK'
  BY DEF LeftInv, BodiesOK
<1>3. CASE stage \notin Late /\ stage' \notin Late
  BY <1>2, <1>3 DEF LeftInv, Late, Calls
<1>4. CASE stage \in Late /\ stage' \in Late /\ (order = <<>> \/ (at' = at /\ stage' = stage))
  <2>1. OrderInv'
    BY <1>1, <1>4 DEF LeftInv, OrderInv, Distinct
  <2>2. \A f, g : MayStay(f, g)' <=> MayStay(f, g)
    BY <1>1 DEF MayStay
  <2>3. \A f, i : Ahead(f, i)' <=> Ahead(f, i)
    <3>1. Range(<<>>) = {}
      BY EmptyFacts
    <3> QED
      BY <1>4, <3>1 DEF Ahead
  <2>4. CallsInv'
    BY <1>4, <2>2, <2>3 DEF LeftInv, CallsInv
  <2>5. (stage \in {"rerun", "done"} => order = <<>>)'
    BY <1>4 DEF LeftInv
  <2> QED
    BY <1>2, <1>4, <2>1, <2>4, <2>5 DEF LeftInv, Late
<1> QED
  BY <1>3, <1>4

\* Before the scan, and when the program runs.
LEMMA OtherSteps ==
  ASSUME CGInv, LeftInv,
         \/ CGNext /\ UNCHANGED inVars
         \/ Run \/ Execute \/ Leave \/ EndRun
         \/ UNCHANGED allVars
  PROVE  LeftInv'
<1>1. at' \in Nat /\ callees' = callees /\ UNCHANGED <<body, symbols, labels, prog, order>>
      /\ UNCHANGED toInline
  <2>1. CASE CGNext /\ UNCHANGED inVars
    BY <2>1 DEF CGNext, StartDFS, VisitCallee, LeaveDFS, SortRoots, SCCTopologicalSort,
       SetCompilationFunclist, inVars, LeftInv, BodiesOK
  <2>2. CASE Run \/ Execute \/ Leave \/ EndRun
    BY <2>2 DEF Run, Execute, Leave, EndRun, cgVars, LeftInv, BodiesOK
  <2>3. CASE UNCHANGED allVars
    BY <2>3 DEF allVars, cgVars, inVars, LeftInv, BodiesOK
  <2> QED
    BY <2>1, <2>2, <2>3
<1>2. \/ stage' \notin Late /\ stage \notin Late
      \/ stage \in Late /\ at' = at /\ stage' = stage
      \/ stage \in Late /\ stage' \in Late /\ order = <<>>
  <2>1. CASE CGNext /\ UNCHANGED inVars
    BY <2>1 DEF CGNext, StartDFS, VisitCallee, LeaveDFS, SortRoots, SCCTopologicalSort,
       SetCompilationFunclist, AtCallee, Late
  <2>2. CASE Run \/ EndRun
    BY <2>2 DEF Run, EndRun, Running, Late, LeftInv
  <2>3. CASE Execute \/ Leave
    BY <2>3 DEF Execute, Leave, Ends, Running, cgVars, Late
  <2>4. CASE UNCHANGED allVars
    BY <2>4 DEF allVars, cgVars, inVars, Late
  <2> QED
    BY <2>1, <2>2, <2>3, <2>4
<1> QED
  BY <1>1, <1>2, LeftStays

\* A function collected: none was scanned.
LEMMA CollectStep ==
  ASSUME LeftInv, Collect
  PROVE  LeftInv'
<1>1. stage \notin Late /\ stage' \notin Late
  BY DEF Collect, cgVars, Late
<1>2. BodiesOK'
  BY DEF Collect, LeftInv, BodiesOK
<1>3. callees' = callees /\ body' = body
  BY DEF Collect, cgVars
<1> QED
  BY <1>1, <1>2, <1>3 DEF LeftInv, Late, Calls

\* The scan starts with all functions ahead of it.
LEMMA StartInlineStep ==
  ASSUME CGInv, LeftInv, StartInline
  PROVE  LeftInv'
<1>1. stage = "collect" /\ stage' = "inline"
  BY DEF StartInline
<1>2. /\ callees' = callees /\ order' = BottomUp /\ at' = 0
      /\ UNCHANGED <<body, symbols, labels>>
  BY DEF StartInline
<1>3. /\ BottomUp \in Seq(Functions) /\ Distinct(BottomUp)
      /\ \A f \in Functions : f \in Range(BottomUp)
      /\ \A i, j \in 1 .. Len(BottomUp) :
           i < j /\ Reaches(BottomUp[i], BottomUp[j]) => Reaches(BottomUp[j], BottomUp[i])
  BY <1>1, BottomUpFacts
<1>4. \A f, g : Reaches(f, g)' <=> Reaches(f, g)
  BY <1>2, SameReaches
<1>5. BodiesOK'
  BY <1>2 DEF LeftInv, BodiesOK
<1>6. OrderInv'
  <2>1. (order \in Seq(Functions) /\ Distinct(order))'
    BY <1>2, <1>3 DEF Distinct
  <2>2. (\A i, j \in 1 .. Len(order) :
           i < j /\ Reaches(order[i], order[j]) => Reaches(order[j], order[i]))'
    BY <1>2, <1>3, <1>4
  <2>3. \A f \in Functions : f \in Range(order')
    BY <1>2, <1>3
  <2> QED
    BY <2>1, <2>2, <2>3 DEF OrderInv
<1>7. CallsInv'
  <2>1. ASSUME NEW f \in Functions, NEW i \in 1 .. Len(body[f]), body[f][i].op = "call"
        PROVE  Ahead(f, i)' /\ body[f][i].f \in Range(callees[f])
    <3>1. Ahead(f, i)'
      BY <1>2, <1>3 DEF Ahead
    <3>2. Calls(body[f]) \subseteq Range(callees[f]) /\ body[f] \in Seq(Statements)
      BY <1>1 DEF LeftInv, Late, BodiesOK
    <3>3. body[f][i].f \in Calls(body[f])
      BY <2>1, <3>2, CallsFacts
    <3> QED
      BY <3>1, <3>2, <3>3
  <2> QED
    BY <1>2, <2>1 DEF CallsInv
<1> QED
  BY <1>1, <1>5, <1>6, <1>7 DEF LeftInv, Late

\* The function that is scanned is the first of the order.
LEMMA CallerFacts ==
  ASSUME LeftInv, stage = "inline", order # <<>>
  PROVE  /\ BodiesOK /\ OrderInv /\ CallsInv
         /\ order \in Seq(Functions) /\ Len(order) \in Nat /\ 1 \in 1 .. Len(order)
         /\ Caller = order[1] /\ Caller \in Functions /\ Caller \in Range(order)
         /\ body[Caller] \in Seq(Statements) /\ Len(body[Caller]) \in Nat /\ at \in Nat
<1>1. BodiesOK /\ OrderInv /\ CallsInv
  BY DEF LeftInv, Late
<1>2. order \in Seq(Functions)
  BY <1>1 DEF OrderInv
<1>3. Len(order) \in Nat /\ Len(order) # 0
  BY <1>2, EmptySeq, LenProperties
<1>4. 1 \in 1 .. Len(order) /\ Caller = order[1]
  BY <1>3 DEF Caller
<1>5. Caller \in Functions /\ Caller \in Range(order)
  BY <1>2, <1>4, RangeFacts
<1>6. body[Caller] \in Seq(Statements) /\ at \in Nat
  BY <1>1, <1>5 DEF BodiesOK
<1> QED
  BY <1>1, <1>2, <1>3, <1>4, <1>5, <1>6, LenProperties

\* A function that may now be inlined and is called from a scanned one lies on a
\* cycle with it.
LEMMA EnterFunctionStep ==
  ASSUME CGInv, LeftInv, EnterFunction
  PROVE  LeftInv'
<1>1. stage = "inline" /\ order # <<>> /\ at = 0 /\ at' = 1
  BY DEF EnterFunction
<1>2. UNCHANGED <<callees, stage, prog, body, symbols, labels, order>>
  BY DEF EnterFunction, cgVars
<1>3. toInline' \subseteq toInline \cup {Caller}
  BY DEF EnterFunction, TryInline
<1>c. CalleesOK(callees)
  BY DEF CGInv, DfsInv, DfsTypes
<1>4. /\ \A f, g : Reaches(f, g)' <=> Reaches(f, g)
      /\ \A f, g : Through(f, g)' <=> Through(f, g)
  BY <1>2, SameThrough
<1>5. BodiesOK'
  BY <1>1, <1>2 DEF LeftInv, BodiesOK
<1>6. OrderInv'
  BY <1>1, <1>2, <1>4, CallerFacts DEF OrderInv, Distinct
<1>7. CallsInv'
  <2>1. \A f : \A i \in 1 .. Len(body[f]) : Ahead(f, i) <=> f \in Range(order)
    BY <1>1 DEF Ahead
  <2>2. \A f : \A i \in 1 .. Len(body[f]) : Ahead(f, i)' <=> f \in Range(order)
    BY <1>1, <1>2 DEF Ahead
  <2>3. ASSUME NEW f \in Functions, f \notin Range(order), NEW g, MayStay(f, g)
        PROVE  MayStay(f, g)'
    <3>1. Reaches(f, g)'
      BY <1>4, <2>3 DEF MayStay
    <3>2. ASSUME g \in toInline', prog.prefer[g] = {} PROVE Through(f, g)
      <4>1. CASE g \in toInline
        BY <2>3, <3>2, <4>1 DEF MayStay
      <4>2. CASE g \notin toInline
        <5>1. g = Caller /\ g \in Functions /\ g \in Range(order)
          BY <1>1, <1>3, <3>2, <4>2, CallerFacts
        <5>2. Reaches(f, g) /\ Reaches(g, f)
          BY <1>1, <2>3, <5>1, CallerFacts DEF MayStay, OrderInv
        <5>3. IsRecursive(f)
          BY <1>c, <2>3, <5>1, <5>2, CycleIsRecursive
        <5>4. Reaches(f, f)
          BY <1>c, ReachFacts
        <5> QED
          BY <5>2, <5>3, <5>4 DEF Through
      <4> QED
        BY <4>1, <4>2
    <3> QED
      BY <1>2, <1>4, <3>1, <3>2 DEF MayStay
  <2>4. ASSUME NEW f \in Functions, NEW i \in 1 .. Len(body[f]), body[f][i].op = "call",
               NEW g, g = body[f][i].f
        PROVE  IF f \in Range(order) THEN g \in Range(callees[f]) ELSE MayStay(f, g)'
    <3>1. IF Ahead(f, i) THEN g \in Range(callees[f]) ELSE MayStay(f, g)
      BY <1>1, <2>4, CallerFacts DEF CallsInv
    <3>2. CASE f \in Range(order)
      BY <2>1, <3>1, <3>2
    <3>3. CASE f \notin Range(order)
      <4>1. MayStay(f, g)
        BY <2>1, <3>1, <3>3
      <4>2. MayStay(f, g)'
        BY <2>3, <3>3, <4>1
      <4> QED
        BY <3>3, <4>2
    <3> QED
      BY <3>2, <3>3
  <2>5. SUFFICES ASSUME NEW f \in Functions, NEW i \in 1 .. Len(body[f]), body[f][i].op = "call"
                 PROVE  (IF Ahead(f, i) THEN body[f][i].f \in Range(callees[f])
                         ELSE MayStay(f, body[f][i].f))'
    BY <1>2 DEF CallsInv
  <2>g. PICK g : g = body[f][i].f
    OBVIOUS
  <2>6. body'[f][i].f = g /\ (Ahead(f, i)' <=> f \in Range(order))
    BY <1>2, <2>2, <2>g
  <2>7. IF f \in Range(order) THEN g \in Range(callees[f]) ELSE MayStay(f, g)'
    BY <2>4, <2>5, <2>g
  <2> QED
    BY <1>2, <2>6, <2>7
<1> QED
  BY <1>1, <1>2, <1>5, <1>6, <1>7 DEF LeftInv, Late

\* A function is done: all of its calls may stay.
LEMMA LeaveFunctionStep ==
  ASSUME CGInv, LeftInv, LeaveFunction
  PROVE  LeftInv'
<1>1. stage = "inline" /\ order # <<>> /\ at > Len(body[Caller])
  BY DEF LeaveFunction
<1>2. UNCHANGED <<callees, stage, prog, body, symbols, labels, toInline>>
  BY DEF LeaveFunction, cgVars
<1>3. order' = Tail(order) /\ at' = 0
  BY DEF LeaveFunction
<1>4. /\ \A f, g : Reaches(f, g)' <=> Reaches(f, g)
      /\ \A f, g : Through(f, g)' <=> Through(f, g)
  BY <1>2, SameThrough
<1>5. BodiesOK'
  BY <1>1, <1>2, <1>3 DEF LeftInv, BodiesOK
<1> PICK n, c : n = Len(order) /\ c = order[1]
  OBVIOUS
<1>6. /\ OrderInv /\ CallsInv /\ order \in Seq(Functions) /\ n \in Nat /\ 1 \in 1 .. n
      /\ c = Caller /\ c \in Functions /\ c \in Range(order)
  BY <1>1, CallerFacts
<1>t. PICK t : t = Tail(order)
  OBVIOUS
<1>7. /\ t \in Seq(Functions) /\ Len(t) = n - 1
      /\ \A i \in 1 .. n - 1 : i + 1 \in 1 .. n /\ t[i] = order[i + 1]
  <2>1. Tail(order) \in Seq(Functions) /\ Len(Tail(order)) = Len(order) - 1
        /\ \A i \in 1 .. Len(order) - 1 : Tail(order)[i] = order[i + 1]
    BY <1>1, <1>6, HeadTailProperties
  <2>2. \A i \in 1 .. n - 1 : i + 1 \in 1 .. n
    BY <1>6
  <2> QED
    BY <1>t, <2>1, <2>2
<1>8. Distinct(t) /\ c \notin Range(t) /\ \A x : x \in Range(order) <=> x = c \/ x \in Range(t)
  <2>1. \A i, j \in 1 .. n : order[i] = order[j] => i = j
    BY <1>6 DEF OrderInv, Distinct
  <2>2. Distinct(t)
    BY <1>6, <1>7, <2>1 DEF Distinct
  <2>3. /\ \A i \in 1 .. n - 1 : t[i] \in Range(t)
        /\ \A x \in Range(t) : \E i \in 1 .. n - 1 : t[i] = x
    BY <1>7, RangeFacts
  <2>4. /\ \A i \in 1 .. n : order[i] \in Range(order)
        /\ \A x \in Range(order) : \E i \in 1 .. n : order[i] = x
    BY <1>6, RangeFacts
  <2>5. c \notin Range(t)
    <3> SUFFICES ASSUME c \in Range(t) PROVE FALSE
      OBVIOUS
    <3>1. PICK i \in 1 .. n - 1 : order[i + 1] = order[1] /\ i + 1 \in 1 .. n
      BY <1>7, <2>3
    <3>2. i + 1 = 1
      BY <1>6, <2>1, <3>1
    <3> QED
      BY <1>6, <3>2
  <2>6. ASSUME NEW x \in Range(order), x # c PROVE x \in Range(t)
    <3>1. PICK k \in 1 .. n : order[k] = x
      BY <2>4
    <3>2. k # 1
      BY <2>6, <3>1
    <3>4. k - 1 \in 1 .. n - 1 /\ (k - 1) + 1 = k
      BY <1>6, <3>2
    <3>3. t[k - 1] = x
      BY <1>7, <3>1, <3>4
    <3> QED
      BY <2>3, <3>3, <3>4
  <2>7. \A x \in Range(t) : x \in Range(order)
    BY <1>7, <2>3, <2>4
  <2> QED
    BY <1>6, <2>2, <2>5, <2>6, <2>7
<1>9. OrderInv'
  <2>1. \A i, j \in 1 .. n - 1 : i < j /\ Reaches(t[i], t[j]) => Reaches(t[j], t[i])
    <3>1. \A i, j \in 1 .. n : i < j /\ Reaches(order[i], order[j]) => Reaches(order[j], order[i])
      BY <1>6 DEF OrderInv
    <3> QED
      BY <1>6, <1>7, <3>1
  <2>2. ASSUME NEW f \in Functions \ Range(t), NEW g \in Range(t), Reaches(f, g)
        PROVE  Reaches(g, f)
    <3>1. CASE f = c
      <4>1. PICK j \in 1 .. n - 1 : t[j] = g
        BY <1>7, RangeFacts
      <4>2. j + 1 \in 1 .. n /\ order[j + 1] = g /\ 1 < j + 1
        BY <1>7, <4>1
      <4>3. \A i, k \in 1 .. n : i < k /\ Reaches(order[i], order[k]) => Reaches(order[k], order[i])
        BY <1>6 DEF OrderInv
      <4>4. Reaches(order[1], order[j + 1]) => Reaches(order[j + 1], order[1])
        BY <1>6, <4>2, <4>3
      <4> QED
        BY <2>2, <3>1, <4>2, <4>4
    <3>2. CASE f # c
      BY <1>6, <1>8, <2>2, <3>2 DEF OrderInv
    <3> QED
      BY <3>1, <3>2
  <2>3. order' = t
    BY <1>3, <1>t
  <2>4. (order \in Seq(Functions) /\ Distinct(order))'
    BY <1>7, <1>8, <2>3 DEF Distinct
  <2>5. (\A i, j \in 1 .. Len(order) :
           i < j /\ Reaches(order[i], order[j]) => Reaches(order[j], order[i]))'
    BY <1>4, <1>7, <2>1, <2>3
  <2>6. (\A f \in Functions \ Range(order) : \A g \in Range(order) :
           Reaches(f, g) => Reaches(g, f))'
    BY <1>4, <2>2, <2>3
  <2> QED
    BY <2>4, <2>5, <2>6 DEF OrderInv
<1>10. CallsInv'
  <2>1. ASSUME NEW f \in Functions, NEW i \in 1 .. Len(body[f])
        PROVE  Ahead(f, i)' <=> Ahead(f, i)
    <3>1. Ahead(f, i)' <=> f \in Range(t)
      BY <1>3, <1>t DEF Ahead
    <3>2. CASE f = c
      BY <1>1, <1>6, <1>8, <3>1, <3>2, CallerFacts DEF Ahead
    <3>3. CASE f # c
      BY <1>8, <3>1, <3>3 DEF Ahead
    <3> QED
      BY <3>2, <3>3
  <2>2. \A f, g : MayStay(f, g)' <=> MayStay(f, g)
    BY <1>2, <1>4 DEF MayStay
  <2> QED
    BY <1>2, <1>6, <2>1, <2>2 DEF CallsInv
<1> QED
  BY <1>1, <1>2, <1>5, <1>9, <1>10 DEF LeftInv, Late

\* A call that is not inlined is not of a function that may be inlined anywhere.
LEMMA SkipStatementStep ==
  ASSUME CGInv, LeftInv, SkipStatement
  PROVE  LeftInv'
<1>1. stage = "inline" /\ order # <<>> /\ at \in DOMAIN body[Caller] /\ at' = at + 1
  BY DEF SkipStatement, Scanning
<1>2. UNCHANGED <<callees, stage, prog, body, symbols, labels, toInline, order>>
  BY DEF SkipStatement, cgVars
<1>3. /\ \A f, g : Reaches(f, g)' <=> Reaches(f, g)
      /\ \A f, g : Through(f, g)' <=> Through(f, g)
  BY <1>2, SameThrough
<1> PICK c : c = Caller
  OBVIOUS
<1>4. /\ OrderInv /\ CallsInv /\ c = order[1] /\ c \in Functions /\ c \in Range(order)
      /\ at \in Nat
  BY <1>1, CallerFacts
<1>c. CalleesOK(callees)
  BY DEF CGInv, DfsInv, DfsTypes
<1>5. BodiesOK'
  BY <1>1, <1>2, <1>4 DEF LeftInv, BodiesOK
<1>6. OrderInv'
  BY <1>2, <1>3, <1>4 DEF OrderInv, Distinct
<1>7. CallsInv'
  <2>1. \A f, g : MayStay(f, g)' <=> MayStay(f, g)
    BY <1>2, <1>3 DEF MayStay
  <2>2. ASSUME NEW f \in Functions, NEW i \in 1 .. Len(body[f]), ~(f = c /\ i = at)
        PROVE  Ahead(f, i)' <=> Ahead(f, i)
    <3>1. i < at + 1 <=> i < at \/ i = at
      BY <1>4
    <3> QED
      BY <1>1, <1>2, <1>4, <2>2, <3>1 DEF Ahead
  <2>3. ASSUME at \in 1 .. Len(body[c]), body[c][at].op = "call"
        PROVE  MayStay(c, body[c][at].f)
    <3>1. Ahead(c, at)
      BY <1>4 DEF Ahead
    <3>2. body[c][at].f \in Range(callees[c])
      BY <1>4, <2>3, <3>1 DEF CallsInv
    <3>3. Reaches(c, body[c][at].f)
      BY <1>c, <1>4, <3>2, ReachFacts
    <3>4. ~(body[c][at].f \in toInline /\ prog.prefer[body[c][at].f] = {})
      BY <2>3 DEF SkipStatement, Inlines, Statement
    <3> QED
      BY <3>3, <3>4 DEF MayStay
  <2>4. ASSUME NEW f \in Functions, NEW i \in 1 .. Len(body[f]), body[f][i].op = "call"
        PROVE  IF Ahead(f, i)' THEN body[f][i].f \in Range(callees[f])
               ELSE MayStay(f, body[f][i].f)
    <3>1. CASE f = c /\ i = at
      <4>1. ~Ahead(f, i)'
        BY <1>1, <1>2, <1>4, <3>1 DEF Ahead
      <4> QED
        BY <2>3, <2>4, <3>1, <4>1
    <3>2. CASE ~(f = c /\ i = at)
      BY <1>4, <2>2, <2>4, <3>2 DEF CallsInv
    <3> QED
      BY <3>1, <3>2
  <2>5. SUFFICES ASSUME NEW f \in Functions, NEW i \in 1 .. Len(body[f]), body[f][i].op = "call"
                 PROVE  (IF Ahead(f, i) THEN body[f][i].f \in Range(callees[f])
                         ELSE MayStay(f, body[f][i].f))'
    BY <1>2 DEF CallsInv
  <2>g. PICK g : g = body[f][i].f
    OBVIOUS
  <2>6. IF Ahead(f, i)' THEN g \in Range(callees[f]) ELSE MayStay(f, g)
    BY <2>4, <2>5, <2>g
  <2> QED
    BY <1>2, <2>1, <2>6, <2>g
<1> QED
  BY <1>1, <1>2, <1>5, <1>6, <1>7 DEF LeftInv, Late

\* What comes in for a call may stay.
LEMMA PerformInlineStep ==
  ASSUME CGInv, LeftInv, PerformInline
  PROVE  LeftInv'
<1>1. /\ stage = "inline" /\ order # <<>> /\ at \in DOMAIN body[Caller]
      /\ Statement.op = "call"
  BY DEF PerformInline, Scanning, Inlines
<1>2. UNCHANGED <<callees, stage, prog, toInline, order>>
  BY DEF PerformInline, cgVars
<1>3. /\ \A f, g : Reaches(f, g)' <=> Reaches(f, g)
      /\ \A f, g : Through(f, g)' <=> Through(f, g)
  BY <1>2, SameThrough
<1> PICK c, b : c = Caller /\ b = body[c]
  OBVIOUS
<1>g. PICK g : g = Statement.f
  OBVIOUS
<1>n. PICK new : new = InlinedBody(c, at)
  OBVIOUS
<1>r. PICK r : r = Spliced(b, at, new)
  OBVIOUS
<1>4. /\ BodiesOK /\ OrderInv /\ CallsInv /\ c = order[1] /\ c \in Functions /\ c \in Range(order)
      /\ b \in Seq(Statements) /\ Len(b) \in Nat /\ at \in 1 .. Len(b) /\ Statement = b[at]
  BY <1>1, CallerFacts, LenProperties DEF Statement
<1>c. CalleesOK(callees)
  BY DEF CGInv, DfsInv, DfsTypes
<1>5. g \in Range(callees[c]) /\ g \in Functions
  <2>1. Ahead(c, at)
    BY <1>4 DEF Ahead
  <2>2. g \in Range(callees[c])
    BY <1>1, <1>g, <1>4, <2>1 DEF CallsInv
  <2> QED
    BY <1>c, <1>4, <2>2, ReachFacts
<1>6. /\ new \in Seq(Statements) /\ Len(new) \in Nat
      /\ \A e \in Range(new) : e.op = "call" => e.f \in Calls(body[g])
  <2>1. at \in 1 .. Len(body[c]) /\ body[c][at].f = g
    BY <1>g, <1>4
  <2>2. /\ InlinedBody(c, at) \in Seq(Statements)
        /\ \A e \in Range(InlinedBody(c, at)) : e.op = "call" => e.f \in Calls(body[g])
    BY <1>4, <1>5, <2>1, InlinedFacts
  <2> QED
    BY <1>n, <2>2, LenProperties
<1>7. body' = [body EXCEPT ![c] = r] /\ at' = at + Len(new)
  BY <1>n, <1>r DEF PerformInline, Spliced
<1>8. /\ r \in Seq(Statements)
      /\ \A j \in 1 .. Len(r) :
           \/ j < at /\ j \in 1 .. Len(b) /\ r[j] = b[j]
           \/ j < at + Len(new) /\ r[j] \in Range(new)
           \/ ~(j < at + Len(new)) /\ \E k \in 1 .. Len(b) : k > at /\ r[j] = b[k]
  BY ONLY <1>r, <1>4, <1>6, SplicedFacts
<1>9. BodiesOK'
  <2>1. body' \in [Functions -> Seq(Statements)]
    BY <1>4, <1>7, <1>8 DEF BodiesOK
  <2>2. at' \in Nat
    BY <1>4, <1>6, <1>7
  <2>3. symbols' \in [Functions -> Nat] /\ labels' \in [Functions -> Nat]
    <3>1. symbols \in [Functions -> Nat] /\ labels \in [Functions -> Nat]
      BY <1>4 DEF BodiesOK
    <3>2. CASE UNCHANGED <<symbols, labels>>
      BY <3>1, <3>2
    <3>3. CASE /\ symbols' = [symbols EXCEPT ![c] = @ + symbols[g]]
               /\ labels' = [labels EXCEPT ![c] =
                               @ + labels[g] + (IF NextIsLabel(b, at) THEN 0 ELSE 1)]
      <4>1. symbols[c] + symbols[g] \in Nat
        BY <1>4, <1>5, <3>1
      <4>2. labels[c] + labels[g] + (IF NextIsLabel(b, at) THEN 0 ELSE 1) \in Nat
        BY <1>4, <1>5, <3>1
      <4> QED
        BY <3>1, <3>3, <4>1, <4>2
    <3> QED
      BY <1>g, <3>2, <3>3 DEF PerformInline
  <2> QED
    BY <2>1, <2>2, <2>3 DEF BodiesOK
<1>10. OrderInv'
  BY <1>2, <1>3, <1>4 DEF OrderInv, Distinct
<1>11. \A f, h : MayStay(f, h)' <=> MayStay(f, h)
  BY <1>2, <1>3 DEF MayStay
<1>12. ASSUME NEW j \in 1 .. Len(r), r[j].op = "call"
       PROVE  IF j < at + Len(new) THEN MayStay(c, r[j].f) ELSE r[j].f \in Range(callees[c])
  <2>1. CASE j < at /\ j \in 1 .. Len(b) /\ r[j] = b[j]
    <3>1. j < at + Len(new)
      BY <1>4, <1>6, <2>1
    <3>2. ~Ahead(c, j)
      BY <1>4, <2>1 DEF Ahead
    <3>3. MayStay(c, b[j].f)
      BY <1>4, <1>12, <2>1, <3>2 DEF CallsInv
    <3> QED
      BY <2>1, <3>1, <3>3
  <2>2. CASE j < at + Len(new) /\ r[j] \in Range(new)
    <3>1. r[j].f \in Calls(body[g])
      BY <1>6, <1>12, <2>2
    <3>2. MayStay(c, r[j].f)
      BY <1>c, <1>1, <1>4, <1>5, <3>1, InlinedMayStay
    <3> QED
      BY <2>2, <3>2
  <2>3. CASE ~(j < at + Len(new)) /\ \E k \in 1 .. Len(b) : k > at /\ r[j] = b[k]
    <3>1. PICK k \in 1 .. Len(b) : k > at /\ r[j] = b[k]
      BY <2>3
    <3>2. Ahead(c, k)
      BY <1>4, <3>1 DEF Ahead
    <3>3. b[k].f \in Range(callees[c])
      BY <1>4, <1>12, <3>1, <3>2 DEF CallsInv
    <3> QED
      BY <2>3, <3>1, <3>3
  <2> QED
    BY <1>8, <2>1, <2>2, <2>3
<1>13. CallsInv'
  <2>1. SUFFICES ASSUME NEW f \in Functions, NEW j \in 1 .. Len(body'[f]),
                        body'[f][j].op = "call"
                 PROVE  (IF Ahead(f, j) THEN body[f][j].f \in Range(callees[f])
                         ELSE MayStay(f, body[f][j].f))'
    BY DEF CallsInv
  <2>h. PICK h : h = body'[f][j].f
    OBVIOUS
  <2>2. IF Ahead(f, j)' THEN h \in Range(callees[f]) ELSE MayStay(f, h)
    <3>1. CASE f = c
      <4>1. body'[f] = r
        BY <1>4, <1>7, <3>1 DEF BodiesOK
      <4>2. Ahead(f, j)' <=> ~(j < at + Len(new))
        BY <1>2, <1>4, <1>7, <3>1 DEF Ahead
      <4> QED
        BY <1>12, <2>1, <2>h, <3>1, <4>1, <4>2
    <3>2. CASE f # c
      <4>1. body'[f] = body[f]
        BY <1>4, <1>7, <3>2 DEF BodiesOK
      <4>2. Ahead(f, j)' <=> Ahead(f, j)
        BY <1>2, <1>4, <3>2 DEF Ahead
      <4> QED
        BY <1>4, <2>1, <2>h, <4>1, <4>2 DEF CallsInv
    <3> QED
      BY <3>1, <3>2
  <2> QED
    BY <1>2, <1>11, <2>h, <2>2
<1> QED
  BY <1>1, <1>2, <1>9, <1>10, <1>13 DEF LeftInv, Late

\* Of the calls of a program, at every step.
LEMMA LeftSteps ==
  ASSUME CGInv, LeftInv, [Next]_allVars
  PROVE  LeftInv'
<1>1. CASE \/ CGNext /\ UNCHANGED inVars
           \/ Run \/ Execute \/ Leave \/ EndRun
           \/ UNCHANGED allVars
  BY <1>1, OtherSteps
<1>2. CASE Collect \/ StartInline
  BY <1>2, CollectStep, StartInlineStep
<1>3. CASE EnterFunction \/ LeaveFunction
  BY <1>3, EnterFunctionStep, LeaveFunctionStep
<1>4. CASE PerformInline \/ SkipStatement
  BY <1>4, PerformInlineStep, SkipStatementStep
<1> QED
  BY <1>1, <1>2, <1>3, <1>4 DEF Next

\* Of the calls of functions that may be inlined anywhere, the inliner leaves only
\* those that a recursion leads to, whatever the program and the inline list.
THEOREM LeftHolds == Spec => []OnlyRecursionIsLeft
<1>1. Init => CGInv /\ LeftInv
  BY CGStarts, LeftStarts
<1>2. CGInv /\ LeftInv /\ [Next]_allVars => CGInv' /\ LeftInv'
  BY CGSteps, LeftSteps
<1>3. LeftInv => OnlyRecursionIsLeft
  <2> SUFFICES ASSUME LeftInv, stage \in {"rerun", "done"}, NEW f \in Functions,
                      NEW i \in DOMAIN body[f], body[f][i].op = "call",
                      body[f][i].f \in toInline, prog.prefer[body[f][i].f] = {}
               PROVE  Through(f, body[f][i].f)
    BY DEF OnlyRecursionIsLeft
  <2>1. CallsInv /\ order = <<>> /\ body[f] \in Seq(Statements)
    BY DEF LeftInv, Late, BodiesOK
  <2>2. i \in 1 .. Len(body[f])
    BY <2>1, LenProperties
  <2>3. ~Ahead(f, i)
    BY <2>1, EmptyFacts DEF Ahead
  <2>4. MayStay(f, body[f][i].f)
    BY <2>1, <2>2, <2>3 DEF CallsInv
  <2> QED
    BY <2>4 DEF MayStay
<1> QED
  BY <1>1, <1>2, <1>3, PTL DEF Spec
================================================================================
