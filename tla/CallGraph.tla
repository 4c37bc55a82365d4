----------------------------- MODULE CallGraph -----------------------------
(***************************************************************************)
(* The call graph (callgraph.cpp): its strongly connected components, the  *)
(* components in topological order, and the order in which functions are   *)
(* compiled.  A node is the number of its function.  The recursion of      *)
(* BuildSCCDFS is the stack dfs, each member [node, next]: a function and  *)
(* the place in its callees.                                               *)
(***************************************************************************)
EXTENDS Integers, Sequences, FiniteSets, SequencesExt

CONSTANTS
    Functions   \* 1 .. n

ASSUME FunctionsAssumption ==
  IsFiniteSet(Functions) /\ Functions = 1 .. Cardinality(Functions)

VARIABLES
    callees,               \* the callees of each function, in the order of its calls
    stage,                 \* "dfs", "sort", "list", then later ones
    dfs, visitStack, visitIndex, visitedOrder, lowestOrder,
    sccNode,               \* the component of a function, 0 before it has one
    sccNodes,              \* the components: sequences of functions
    sccTopologicalVec, sorted,   \* the components in order, and how many were expanded
    compilationList

cgVars == <<callees, stage, dfs, visitStack, visitIndex, visitedOrder, lowestOrder,
            sccNode, sccNodes, sccTopologicalVec, sorted, compilationList>>
dfsVars == <<dfs, visitStack, visitIndex, visitedOrder, lowestOrder, sccNode, sccNodes>>

IsCalleeOf(g, f) == g \in Range(callees[f])
HasCaller(g) == \E f \in Functions : IsCalleeOf(g, f)

\* The numbers of S up to n, from the least to the greatest.
InOrder(S, n) ==
  LET Upto[i \in 0 .. n] ==
        IF i = 0 THEN <<>>
        ELSE IF i \in S THEN Append(Upto[i-1], i) ELSE Upto[i-1]
  IN  Upto[n]

----------------------------------------------------------------------------
\* FindRootNodes, then the functions that no root leads to; each in turn.
RootNodes == {f \in Functions : ~HasCaller(f)}
Waiting == {f \in Functions : sccNode[f] = 0}
Starts == IF RootNodes \cap Waiting # {} THEN RootNodes \cap Waiting ELSE Waiting
NextStart == CHOOSE f \in Starts : \A g \in Starts : f <= g

Enter(f, below) ==
  /\ dfs' = Append(below, [node |-> f, next |-> 1])
  /\ visitStack' = Append(visitStack, f)
  /\ visitedOrder' = [visitedOrder EXCEPT ![f] = visitIndex]
  /\ visitIndex' = visitIndex + 1

StartDFS ==
  /\ stage = "dfs" /\ dfs = <<>> /\ Waiting # {}
  /\ Enter(NextStart, <<>>)
  /\ lowestOrder' = [lowestOrder EXCEPT ![NextStart] = visitIndex]
  /\ UNCHANGED <<callees, stage, sccNode, sccNodes, sccTopologicalVec, sorted, compilationList>>

Current == dfs[Len(dfs)]
Callee == callees[Current.node][Current.next]
Advanced == [dfs EXCEPT ![Len(dfs)].next = @ + 1]

AtCallee == stage = "dfs" /\ dfs # <<>> /\ Current.next <= Len(callees[Current.node])

\* Mutant: a callee in a finished component still lowers the order.
VisitCalleeOffStack ==
  /\ AtCallee
  /\ IF visitedOrder[Callee] = 0
     THEN /\ Enter(Callee, Advanced)
          /\ lowestOrder' = [lowestOrder EXCEPT ![Callee] = visitIndex]
     ELSE /\ dfs' = Advanced
          /\ lowestOrder' =
               IF visitedOrder[Callee] < lowestOrder[Current.node]
               THEN [lowestOrder EXCEPT ![Current.node] = visitedOrder[Callee]]
               ELSE lowestOrder
          /\ UNCHANGED <<visitStack, visitIndex, visitedOrder>>
  /\ UNCHANGED <<callees, stage, sccNode, sccNodes, sccTopologicalVec, sorted, compilationList>>

VisitCallee ==
  /\ AtCallee
  /\ IF visitedOrder[Callee] = 0
     THEN /\ Enter(Callee, Advanced)
          /\ lowestOrder' = [lowestOrder EXCEPT ![Callee] = visitIndex]
     ELSE /\ dfs' = Advanced
          /\ lowestOrder' =
               IF Callee \in Range(visitStack) /\ visitedOrder[Callee] < lowestOrder[Current.node]
               THEN [lowestOrder EXCEPT ![Current.node] = visitedOrder[Callee]]
               ELSE lowestOrder
          /\ UNCHANGED <<visitStack, visitIndex, visitedOrder>>
  /\ UNCHANGED <<callees, stage, sccNode, sccNodes, sccTopologicalVec, sorted, compilationList>>

\* The functions from the top of the stack down to f.
Popped(f) ==
  LET from == CHOOSE i \in DOMAIN visitStack : visitStack[i] = f
  IN  Reverse(SubSeq(visitStack, from, Len(visitStack)))

\* The callee's lowest order, handed to the caller the recursion returns to.
HandUp(low) ==
  IF Len(dfs) = 1 THEN low
  ELSE LET caller == dfs[Len(dfs)-1].node
       IN  IF low[Current.node] < low[caller] THEN [low EXCEPT ![caller] = low[Current.node]]
           ELSE low

LeaveDFS ==
  /\ stage = "dfs" /\ dfs # <<>> /\ ~AtCallee
  /\ LET f == Current.node IN
     IF visitedOrder[f] = lowestOrder[f]
     THEN /\ sccNodes' = Append(sccNodes, Popped(f))
          /\ sccNode' = [g \in Functions |->
                           IF g \in Range(Popped(f)) THEN Len(sccNodes) + 1 ELSE sccNode[g]]
          /\ visitStack' = SubSeq(visitStack, 1, Len(visitStack) - Len(Popped(f)))
     ELSE UNCHANGED <<sccNodes, sccNode, visitStack>>
  /\ lowestOrder' = HandUp(lowestOrder)
  /\ dfs' = SubSeq(dfs, 1, Len(dfs) - 1)
  /\ UNCHANGED <<callees, stage, visitIndex, visitedOrder, sccTopologicalVec, sorted,
                 compilationList>>

----------------------------------------------------------------------------
\* SCCNode::Setup: the components that one calls, and is called from.
CalleeScc(s) ==
  {sccNode[g] : g \in UNION {Range(callees[f]) : f \in Range(sccNodes[s])}} \ {s}
CallerScc(s) == {t \in DOMAIN sccNodes : s \in CalleeScc(t)}

SortRoots ==
  /\ stage = "dfs" /\ dfs = <<>> /\ Waiting = {}
  /\ sccTopologicalVec' =
       InOrder({s \in DOMAIN sccNodes : CallerScc(s) = {}}, Len(sccNodes))
  /\ sorted' = 0
  /\ stage' = "sort"
  /\ UNCHANGED <<callees, dfsVars, compilationList>>

\* The callees of s are looked at in turn, in the order they were allocated.
PushCallees(list, s) ==
  LET Push[t \in 0 .. Len(sccNodes)] ==
        IF t = 0 THEN list
        ELSE LET l == Push[t-1]
             IN  IF /\ t \in CalleeScc(s) /\ t \notin Range(l)
                    /\ CallerScc(t) \subseteq Range(l)
                 THEN Append(l, t) ELSE l
  IN  Push[Len(sccNodes)]

SCCTopologicalSort ==
  /\ stage = "sort" /\ sorted < Len(sccTopologicalVec)
  /\ sccTopologicalVec' = PushCallees(sccTopologicalVec, sccTopologicalVec[sorted + 1])
  /\ sorted' = sorted + 1
  /\ UNCHANGED <<callees, stage, dfsVars, compilationList>>

\* CGNodeCompare, which is no order on a cycle of three.
Before(f, g) ==
  CASE IsCalleeOf(f, g) /\ IsCalleeOf(g, f) -> f < g
    [] IsCalleeOf(f, g) -> TRUE
    [] IsCalleeOf(g, f) -> FALSE
    [] OTHER -> f < g

\* std::sort inserts one after the other into so short a sequence: at the front
\* if the new one is before the first, else behind the last it is not before.
Inserted(list, f) ==
  IF list = <<>> \/ Before(f, list[1]) THEN <<f>> \o list
  ELSE LET at == CHOOSE i \in DOMAIN list :
                   /\ ~Before(f, list[i])
                   /\ \A j \in i + 1 .. Len(list) : Before(f, list[j])
       IN  SubSeq(list, 1, at) \o <<f>> \o SubSeq(list, at + 1, Len(list))

SortedScc(s) ==
  LET Upto[i \in 0 .. Len(sccNodes[s])] ==
        IF i = 0 THEN <<>> ELSE LET l == Upto[i-1] IN Inserted(l, sccNodes[s][i])
  IN  Upto[Len(sccNodes[s])]

\* Mutant: from the top.
FromTop(i) == sccTopologicalVec[i]

\* The component at place i from the last.
FromBottom(i) == sccTopologicalVec[Len(sccTopologicalVec) + 1 - i]

\* The components from the last to the first, each sorted in place.
SetCompilationFunclist ==
  /\ stage = "sort" /\ sorted = Len(sccTopologicalVec)
  /\ sccNodes' = [s \in DOMAIN sccNodes |->
                    IF s \in Range(sccTopologicalVec) THEN SortedScc(s) ELSE sccNodes[s]]
  /\ compilationList' = FlattenSeq([i \in DOMAIN sccTopologicalVec |-> SortedScc(FromBottom(i))])
  /\ stage' = "built"
  /\ UNCHANGED <<callees, dfs, visitStack, visitIndex, visitedOrder, lowestOrder, sccNode,
                 sccTopologicalVec, sorted>>

----------------------------------------------------------------------------
CGInit ==
  /\ stage = "dfs" /\ dfs = <<>> /\ visitStack = <<>> /\ visitIndex = 1
  /\ visitedOrder = [f \in Functions |-> 0] /\ lowestOrder = [f \in Functions |-> 0]
  /\ sccNode = [f \in Functions |-> 0] /\ sccNodes = <<>>
  /\ sccTopologicalVec = <<>> /\ sorted = 0 /\ compilationList = <<>>

CGNext ==
  \/ StartDFS \/ VisitCallee \/ LeaveDFS
  \/ SortRoots \/ SCCTopologicalSort \/ SetCompilationFunclist

----------------------------------------------------------------------------
Reaches(f, g) ==
  LET To[n \in 0 .. Cardinality(Functions)] ==
        IF n = 0 THEN {f} ELSE LET t == To[n-1] IN t \cup UNION {Range(callees[x]) : x \in t}
  IN  g \in To[Cardinality(Functions)]

(* A function is in the component it is listed in, and is on the stack just
   while it was visited and has none. *)
CGTypeOK ==
  /\ \A f \in Functions : sccNode[f] # 0 => f \in Range(sccNodes[sccNode[f]])
  /\ \A f \in Functions :
       f \in Range(visitStack) <=> visitedOrder[f] # 0 /\ sccNode[f] = 0

(* Two functions share a component if and only if each calls the other, directly
   or not, as soon as both have one. *)
ComponentsAreCycles ==
  \A f, g \in Functions :
    sccNode[f] # 0 /\ sccNode[g] # 0 =>
      (sccNode[f] = sccNode[g] <=> Reaches(f, g) /\ Reaches(g, f))

(* "Top-down iterates all nodes" (callgraph.cpp:1675): the order has every
   component once, each after its callers. *)
EveryComponentIsSorted ==
  stage = "built" =>
    /\ Range(sccTopologicalVec) = DOMAIN sccNodes
    /\ \A i, j \in DOMAIN sccTopologicalVec :
         sccTopologicalVec[j] \in CalleeScc(sccTopologicalVec[i]) => i < j

(* "So callee is always compiled before caller" (callgraph.cpp:1436): each
   function is compiled once, and after what it calls unless that calls it. *)
CalleesAreCompiledFirst ==
  /\ EveryComponentIsSorted
  /\ stage = "built" =>
       /\ Len(compilationList) = Cardinality(Functions)
       /\ \A i, j \in DOMAIN compilationList :
            IsCalleeOf(compilationList[i], compilationList[j]) /\ i > j =>
              Reaches(compilationList[i], compilationList[j])
=============================================================================
