------------------------------- MODULE MeCFG -------------------------------
(***************************************************************************)
(* The control-flow graph of a function of the middle end, as it is made   *)
(* by MeFunction::Prepare (me_function.cpp, me_cfg.cpp) from the statement *)
(* list and canonicalised by the phases loopcanon (me_loop_canon.cpp) and  *)
(* splitcriticaledge (me_critical_edge.cpp) before SSA is built.           *)
(*                                                                         *)
(* A program is a sequence of statements [op, to]: `to' is the label that  *)
(* a label statement defines, the targets of a branch (default first for a *)
(* switch) and the handlers of a try.  Expressions are left out: `assign'  *)
(* cannot throw, `maythrow' is a dassign that can, and `callassigned' any  *)
(* other statement that can: a call, an iassign, an assertnonnull.  This   *)
(* is the Java path (JAVALANG); gosub, igoto and the catch statements of   *)
(* other languages are left out.                                           *)
(***************************************************************************)
EXTENDS Integers, Sequences, FiniteSets, SequencesExt

CONSTANTS Programs   \* the statement lists a run starts from

VARIABLES
    prog,     \* the statement list
    phase,    \* the phase that runs next
    bbVec,    \* the blocks, a deleted one with alive = FALSE
    todo      \* the edges that loopcanon or splitcriticaledge has still to treat

vars == <<prog, phase, bbVec, todo>>

Ops == {"assign", "maythrow", "callassigned", "label", "goto", "br", "switch", "return",
        "throw", "try", "endtry", "catch"}
Kinds == {"Unknown", "CondGoto", "Goto", "Fallthru", "Return", "Switch"}
Entry == 1   \* commonEntryBB
Exit == 2    \* commonExitBB

Indices(s) == 1 .. Len(s)
Keep(s, S) == SelectSeq(s, LAMBDA x : x \in S)
Count(s, x) == Cardinality({i \in Indices(s) : s[i] = x})

NewBasicBlock ==
    [alive |-> TRUE, kind |-> "Unknown", body |-> <<>>, targets |-> <<>>, label |-> 0,
     succ |-> <<>>, pred |-> <<>>, isEntry |-> FALSE, isExit |-> FALSE, isTry |-> FALSE,
     handlers |-> <<>>, isCatch |-> FALSE, tryBB |-> 0, wontExit |-> FALSE,
     artificial |-> FALSE, inverted |-> FALSE]

(***************************************************************************)
(* MeFunction::CreateBasicBlocks: one pass over the statements.  c is its  *)
(* local state: the blocks so far, the current block and the stack of open *)
(* trys.  A block that ends a try names in tryBB the block that begins it. *)
(***************************************************************************)
AtCur(c, f, v) == [c EXCEPT !.bbs[c.cur][f] = v]
CurIsEmpty(c) == c.bbs[c.cur].body = <<>>

AddStmt(c, i) == AtCur(c, "body", Append(c.bbs[c.cur].body, i))

EndWith(c, i, kind) == AtCur(AtCur(AddStmt(c, i), "kind", kind), "targets", prog[i].to)

FallThrough(c) == IF c.bbs[c.cur].kind = "Unknown" THEN AtCur(c, "kind", "Fallthru") ELSE c

NextBlock(c) == [c EXCEPT !.bbs = Append(@, NewBasicBlock), !.cur = Len(c.bbs) + 1]

MarkTry(c) == AtCur(AtCur(c, "isTry", TRUE), "handlers", prog[Last(c.trys).stmt].to)

\* NewBasicBlock with SetTryBlockInfo for a statement of a try
NextBlockInTry(c, i) ==
    IF c.trys = <<>> THEN NextBlock(c)
    ELSE IF prog[i + 1].op = "endtry" THEN NextBlock(AtCur(c, "tryBB", Last(c.trys).bb))
    ELSE MarkTry(NextBlock(c))

\* goto, and a throw in a try, and return: a new block only if a statement follows
Leave(c, i) == IF i < Len(prog) THEN NextBlockInTry(c, i) ELSE c

StartBlock(c) == IF CurIsEmpty(c) THEN c ELSE NextBlock(FallThrough(c))

CaseTry(c, i) ==
    LET s == AddStmt(StartBlock(c), i)
        t == [s EXCEPT !.trys = Append(@, [stmt |-> i, bb |-> s.cur])]
    IN  NextBlockInTry(AtCur(MarkTry(t), "kind", "Fallthru"), i)

CaseEndtry(c) ==
    LET ended == NextBlock(AtCur(FallThrough(c), "tryBB", Last(c.trys).bb))
        d == IF CurIsEmpty(c) /\ c.bbs[c.cur].label = 0 THEN c ELSE ended
    IN  [d EXCEPT !.trys = Front(@)]

CaseCatch(c, i) ==
    LET d == IF CurIsEmpty(c) THEN c ELSE NextBlockInTry(FallThrough(c), i)
    IN  AddStmt(AtCur(d, "isCatch", TRUE), i)

CaseLabel(c, i) ==
    LET d == IF CurIsEmpty(c) /\ c.bbs[c.cur].label = 0 THEN c
             ELSE IF c.trys = <<>> THEN NextBlock(FallThrough(c))
             ELSE MarkTry(NextBlock(FallThrough(c)))
    IN  AtCur(d, "label", prog[i].to[1])

CaseReturn(c, i) == Leave(AtCur(EndWith(c, i, "Return"), "isExit", TRUE), i)

AddStatement(c, i) ==
    CASE prog[i].op \in {"assign", "callassigned"} -> AddStmt(c, i)
      [] prog[i].op = "maythrow" ->
            IF c.trys = <<>> THEN AddStmt(c, i)
            ELSE NextBlockInTry(EndWith(c, i, "Fallthru"), i)
      [] prog[i].op = "label" -> CaseLabel(c, i)
      [] prog[i].op = "goto" -> Leave(EndWith(c, i, "Goto"), i)
      [] prog[i].op = "br" -> NextBlockInTry(EndWith(c, i, "CondGoto"), i)
      [] prog[i].op = "switch" -> NextBlockInTry(EndWith(c, i, "Switch"), i)
      [] prog[i].op = "return" -> CaseReturn(c, i)
      [] prog[i].op = "throw" ->
            IF c.trys = <<>> THEN CaseReturn(c, i) ELSE Leave(EndWith(c, i, "Goto"), i)
      [] prog[i].op = "try" -> CaseTry(c, i)
      [] prog[i].op = "endtry" -> CaseEndtry(c)
      [] prog[i].op = "catch" -> CaseCatch(c, i)

\* the return statement that is added at the end has no number in the program
AddReturn(c) ==
    IF CurIsEmpty(c) \/ c.bbs[c.cur].kind = "Unknown"
    THEN AtCur(AtCur(c, "isExit", TRUE), "kind", "Return")
    ELSE c

CreateBasicBlocks ==
    LET first == [bbs |-> << [NewBasicBlock EXCEPT !.isEntry = TRUE],
                             [NewBasicBlock EXCEPT !.isExit = TRUE],
                             [NewBasicBlock EXCEPT !.isEntry = TRUE] >>,
                  cur |-> 3, trys |-> <<>>]
    IN  AddReturn(FoldLeftDomain(LAMBDA c, i : AddStatement(c, i), first, prog)).bbs

(***************************************************************************)
(* MirCFG::BuildMirCFG.                                                    *)
(***************************************************************************)
LabelBB(b, l) == CHOOSE i \in Indices(b) : b[i].label = l

\* 0 when there is no next block
NextBB(b, i) ==
    LET later == {j \in Indices(b) : j > i /\ b[j].alive}
    IN  IF later = {} THEN 0 ELSE CHOOSE j \in later : \A k \in later : j <= k

AddNew(s, t) == FoldLeft(LAMBDA a, x : IF x \in Range(a) THEN a ELSE Append(a, x), s, t)

IsThrow(bb) == bb.body # <<>> /\ prog[Last(bb.body)].op = "throw"

Branches(b, i) ==
    LET bb == b[i]
        to == [k \in Indices(bb.targets) |-> LabelBB(b, bb.targets[k])]
        next == IF NextBB(b, i) = 0 THEN <<>> ELSE <<NextBB(b, i)>>
    IN  CASE bb.kind = "Goto" -> IF IsThrow(bb) THEN <<>> ELSE to
          [] bb.kind = "CondGoto" -> next \o to
          [] bb.kind = "Switch" -> AddNew(<<>>, to)
          [] bb.kind = "Return" -> <<>>
          [] OTHER -> next

HandlerBBs(b, i) ==
    [k \in Indices(b[i].handlers) |-> LabelBB(b, b[i].handlers[k])]

SuccOf(b, i) ==
    IF b[i].isTry THEN AddNew(Branches(b, i), HandlerBBs(b, i)) ELSE Branches(b, i)

\* a block of a try without handlers may leave the function
MayExit(bb) == bb.isExit \/ (bb.isTry /\ bb.handlers = <<>>)

\* every predecessor pushes itself once for each of its edges, in block order
PredsFrom(b, succ, i) ==
    FlattenSeq([j \in Indices(b) |-> [k \in 1 .. Count(succ[j], i) |-> j]])

BuildMirCFG(b) ==
    LET real == 3 .. Len(b)
        succ == [i \in Indices(b) |-> IF i \in real THEN SuccOf(b, i) ELSE <<>>]
        InOrder(P(_)) == SelectSeq([i \in Indices(b) |-> i],
                                   LAMBDA i : i \in real /\ P(b[i]))
    IN  [i \in Indices(b) |->
            IF i = Entry THEN [b[i] EXCEPT !.succ = InOrder(LAMBDA bb : bb.isEntry)]
            ELSE IF i = Exit THEN [b[i] EXCEPT !.pred = InOrder(MayExit)]
            ELSE [b[i] EXCEPT !.succ = succ[i], !.pred = PredsFrom(b, succ, i),
                              !.isExit = MayExit(b[i])]]

(***************************************************************************)
(* MirCFG::UnreachCodeAnalysis, without phis, and MirCFG::WontExitAnalysis.*)
(***************************************************************************)
Closure(S, Nbr(_), n) ==
    LET C[k \in 0 .. n] ==
            IF k = 0 THEN S ELSE LET p == C[k - 1] IN p \cup UNION {Nbr(i) : i \in p}
    IN  C[n]

FindReachableBBs(b) == Closure({Entry}, LAMBDA i : Range(b[i].succ), Len(b))
FindWillExitBBs(b) == Closure({Exit}, LAMBDA i : Range(b[i].pred), Len(b))

\* a deleted block that ends a reachable try hands that to the block before it
MoveEndTry(b, visited) ==
    FoldLeftDomain(LAMBDA a, i :
            IF i \in visited \/ a[i].tryBB = 0 \/ a[i].tryBB \notin visited THEN a
            ELSE LET before == {j \in visited : j < i}
                     prev == CHOOSE j \in before : \A k \in before : k <= j
                 IN  [a EXCEPT ![prev].tryBB = a[i].tryBB],
        b, b)

UnreachCodeAnalysis(b) ==
    LET visited == FindReachableBBs(b) \cup {Exit}
        moved == MoveEndTry(b, visited)
    IN  [i \in Indices(b) |->
            IF i \in visited THEN [moved[i] EXCEPT !.pred = Keep(@, visited)]
            ELSE [moved[i] EXCEPT !.alive = FALSE, !.wontExit = TRUE]]

ArtificialExit(i) == [NewBasicBlock EXCEPT !.kind = "Return", !.isExit = TRUE,
                                           !.artificial = TRUE, !.pred = <<i>>]

ExitFromGoto(b, i) ==
    LET new == Len(b) + 1
    IN  Append([b EXCEPT ![i].succ = Append(@, new), ![Exit].pred = Append(@, new)],
               ArtificialExit(i))

WontExitAnalysis(b) ==
    LET visited == FindWillExitBBs(b) \cup {Entry}
    IN  FoldLeftDomain(LAMBDA a, i :
            IF i \in visited \/ ~a[i].alive THEN a
            ELSE LET w == [a EXCEPT ![i].wontExit = TRUE]
                 IN  IF w[i].kind = "Goto" THEN ExitFromGoto(w, i) ELSE w,
            b, b)

(***************************************************************************)
(* The edits of bb.cpp that the two phases use.                            *)
(***************************************************************************)
FirstAt(s, x) == SelectInSeq(s, LAMBDA y : y = x)

RemoveBBFromPred(b, i, p) ==
    IF p \in Range(b[i].pred)
    THEN [b EXCEPT ![i].pred = RemoveAt(@, FirstAt(@, p))] ELSE b

\* old in the successors of i becomes new, which gets i as a predecessor
ReplaceSucc(b, i, old, new) ==
    IF old \in Range(b[i].succ)
    THEN [b EXCEPT ![i].succ[FirstAt(b[i].succ, old)] = new,
                   ![new].pred = Append(@, i)]
    ELSE b

\* old in the predecessors of i becomes new, which gets i as a successor
ReplacePred(b, i, old, new) ==
    IF old \in Range(b[i].pred)
    THEN [b EXCEPT ![i].pred[FirstAt(b[i].pred, old)] = new,
                   ![new].succ = Append(@, i)]
    ELSE b

AddSuccBB(b, i, s) == [b EXCEPT ![i].succ = Append(@, s), ![s].pred = Append(@, i)]

\* MeFunction::CreateBBLabel: a label that no other block has
CreateBBLabel(b, i) == IF b[i].label # 0 THEN b ELSE [b EXCEPT ![i].label = 100 + i]

RetargetTo(b, i, k, s) == [b EXCEPT ![i].targets[k] = b[s].label]

RetargetSwitch(b, i, from, s) ==
    [b EXCEPT ![i].targets = [k \in DOMAIN @ |-> IF @[k] = from THEN b[s].label ELSE @[k]]]

(***************************************************************************)
(* loopcanon.  An edge of `todo' is a record [bb, pred, swap].             *)
(***************************************************************************)
Alive(b) == {i \in Indices(b) : b[i].alive}

ReachableWithout(b, a) ==
    Closure({Entry} \ {a}, LAMBDA i : Range(b[i].succ) \ {a}, Len(b))

\* Dominance::Dominate, of the dominator tree of the current graph
Dominate(b, x, y) ==
    x = y \/ (y \in FindReachableBBs(b) /\ y \notin ReachableWithout(b, x))

LoopBody(b, bb, pred) ==
    Closure({pred}, LAMBDA i : IF i = bb THEN {} ELSE Range(b[i].pred), Len(b)) \ {bb}

NeedConvert(b, bb, pred) ==
    /\ b[bb].kind = "CondGoto" /\ pred # bb
    /\ ~b[bb].isTry /\ ~b[bb].isCatch
    /\ b[bb].succ[1] # b[bb].succ[Len(b[bb].succ)]
    /\ ~ {b[bb].succ[1], b[bb].succ[2]} \subseteq LoopBody(b, bb, pred)

Backedges(b) ==
    LET Of(i) == [k \in Indices(b[i].pred) |->
                    [bb |-> i, pred |-> b[i].pred[k],
                     swap |-> b[i].succ # <<>> /\
                              b[i].succ[1] \in LoopBody(b, i, b[i].pred[k])]]
        IsBackedge(e) == /\ Dominate(b, Entry, e.bb) /\ Dominate(b, e.bb, e.pred)
                         /\ ~b[e.pred].wontExit /\ NeedConvert(b, e.bb, e.pred)
    IN  SelectSeq(FlattenSeq([i \in Indices(b) |->
            IF i \in {Entry, Exit} \/ ~b[i].alive THEN <<>> ELSE Of(i)]), IsBackedge)

CompareBackedge(x, y) ==
    \/ x.pred = y.bb
    \/ (x.bb # y.pred /\ x.bb < y.bb)

\* std::sort of a short list is an insertion sort; what it makes of a comparison that is not
\* an ordering, as this one, depends on that
Insert(s, e) ==
    LET notAfter == {k \in Indices(s) : ~CompareBackedge(e, s[k])}
        at == IF s = <<>> \/ 1 \notin notAfter THEN 1
              ELSE 1 + CHOOSE k \in notAfter : \A j \in notAfter : j <= k
    IN  InsertAt(s, at, e)

SortBackedges(s) == FoldLeft(Insert, <<>>, s)

\* the branch that ended in bb now ends in the latch
RetargetPred(b, e, latch) ==
    LET p == b[e.pred]
    IN  CASE p.kind = "Goto" -> [b EXCEPT ![e.pred].kind = "Fallthru",
                                          ![e.pred].body = Front(@), ![e.pred].targets = <<>>]
          [] p.kind = "CondGoto" /\ p.succ[2] = latch ->
                RetargetTo(CreateBBLabel(b, latch), e.pred, 1, latch)
          [] p.kind = "Switch" ->
                RetargetSwitch(CreateBBLabel(b, latch), e.pred, b[e.bb].label, latch)
          [] OTHER -> b

\* Mutant: the successors and the label are swapped and the condition is not inverted.
SwapSuccsOnly(b, i) ==
    LET c == CreateBBLabel(b, b[i].succ[1])
    IN  [c EXCEPT ![i].succ[1] = c[i].succ[2], ![i].succ[2] = c[i].succ[1],
                  ![i].targets = <<c[c[i].succ[1]].label>>]

SwapSuccs(b, i) ==
    LET c == CreateBBLabel(b, b[i].succ[1])
    IN  [c EXCEPT ![i].succ[1] = c[i].succ[2], ![i].succ[2] = c[i].succ[1],
                  ![i].targets = <<c[c[i].succ[1]].label>>,
                  ![i].inverted = ~@]

Convert(b, e) ==
    LET latch == Len(b) + 1
        new == Append(b, [NewBasicBlock EXCEPT !.artificial = TRUE])
        moved == ReplaceSucc(RemoveBBFromPred(new, e.bb, e.pred), e.pred, e.bb, latch)
        cloned == [RetargetPred(moved, e, latch) EXCEPT
                     ![latch].body = b[e.bb].body, ![latch].targets = b[e.bb].targets,
                     ![latch].kind = b[e.bb].kind,
                     ![latch].inverted = b[e.bb].inverted]
        linked == FoldLeft(LAMBDA a, s : AddSuccBB(a, latch, s), cloned, b[e.bb].succ)
    IN  IF e.swap THEN SwapSuccs(linked, latch) ELSE linked

(***************************************************************************)
(* splitcriticaledge.  An edge of `todo' is a record [bb, pred].           *)
(***************************************************************************)
Edge(p, i) == [pred |-> p, bb |-> i]

\* Mutant: a block is taken for a merge from three predecessors on.
CriticalEdgesOfThree(b) ==
    LET Of(i) == [k \in Indices(b[i].pred) |-> Edge(b[i].pred[k], i)]
        merges == SelectSeq([i \in Indices(b) |-> i], LAMBDA i :
                    b[i].alive /\ i # Exit /\ Len(b[i].pred) > 2 /\ ~b[i].isCatch)
        inner == SelectSeq(FlattenSeq([k \in Indices(merges) |-> Of(merges[k])]), LAMBDA e :
                    b[e.pred].kind # "Goto" /\ Len(b[e.pred].succ) > 1)
        entries == SelectSeq(b[Entry].succ, LAMBDA i : b[i].pred # <<>> /\ ~b[i].isCatch)
    IN  inner \o [k \in Indices(entries) |-> Edge(Entry, entries[k])]

CriticalEdges(b) ==
    LET Of(i) == [k \in Indices(b[i].pred) |-> Edge(b[i].pred[k], i)]
        merges == SelectSeq([i \in Indices(b) |-> i], LAMBDA i :
                    b[i].alive /\ i # Exit /\ Len(b[i].pred) >= 2 /\ ~b[i].isCatch)
        inner == SelectSeq(FlattenSeq([k \in Indices(merges) |-> Of(merges[k])]), LAMBDA e :
                    b[e.pred].kind # "Goto" /\ Len(b[e.pred].succ) > 1)
        entries == SelectSeq(b[Entry].succ, LAMBDA i : b[i].pred # <<>> /\ ~b[i].isCatch)
    IN  inner \o [k \in Indices(entries) |-> Edge(Entry, entries[k])]

SplitEntry(b, i, new) ==
    [b EXCEPT ![Entry].succ[FirstAt(b[Entry].succ, i)] = new,
              ![new].succ = <<i>>, ![new].isEntry = TRUE,
              ![i].pred = Append(@, new), ![i].isEntry = FALSE]

\* Mutant: only conditional branches are given the label of the new block.
RelabelBranchNotSwitch(b, e, new) ==
    LET p == b[e.pred]
    IN  IF p.kind = "CondGoto" /\ b[p.succ[2]].label # p.targets[1]
        THEN RetargetTo(CreateBBLabel(b, new), e.pred, 1, new) ELSE b

RelabelBranch(b, e, new) ==
    LET p == b[e.pred]
    IN  CASE p.kind = "CondGoto" /\ b[p.succ[2]].label # p.targets[1] ->
                RetargetTo(CreateBBLabel(b, new), e.pred, 1, new)
          [] p.kind = "Switch" ->
                RetargetSwitch(CreateBBLabel(b, new), e.pred, b[e.bb].label, new)
          [] OTHER -> b

BreakCriticalEdge(b, e) ==
    LET new == Len(b) + 1
        c == Append(b, [NewBasicBlock EXCEPT !.kind = "Fallthru", !.artificial = TRUE])
    IN  IF e.pred = Entry THEN SplitEntry(c, e.bb, new)
        ELSE RelabelBranch(ReplacePred(ReplaceSucc(c, e.pred, e.bb, new), e.bb, e.pred, new),
                           e, new)

(***************************************************************************)
(* The function on its way through the phases.                             *)
(***************************************************************************)
Init ==
    /\ prog \in Programs
    /\ phase = "create" /\ bbVec = <<>> /\ todo = <<>>

Prepare(from, to, b) ==
    phase = from /\ phase' = to /\ bbVec' = b /\ UNCHANGED <<prog, todo>>

Create == Prepare("create", "build", CreateBasicBlocks)
Build == Prepare("build", "unreach", BuildMirCFG(bbVec))
Unreach == Prepare("unreach", "wontexit", UnreachCodeAnalysis(bbVec))
WontExit == Prepare("wontexit", "loopcanon", WontExitAnalysis(bbVec))

CollectBackedges ==
    /\ phase = "loopcanon" /\ phase' = "convert"
    /\ todo' = SortBackedges(Backedges(bbVec))
    /\ UNCHANGED <<prog, bbVec>>

ConvertNext ==
    /\ phase = "convert" /\ todo # <<>>
    /\ bbVec' = Convert(bbVec, Head(todo)) /\ todo' = Tail(todo)
    /\ UNCHANGED <<prog, phase>>

CollectCriticalEdges ==
    /\ phase = "convert" /\ todo = <<>>
    /\ phase' = "split" /\ todo' = CriticalEdges(bbVec)
    /\ UNCHANGED <<prog, bbVec>>

SplitNext ==
    /\ phase = "split" /\ todo # <<>>
    /\ bbVec' = BreakCriticalEdge(bbVec, Head(todo)) /\ todo' = Tail(todo)
    /\ UNCHANGED <<prog, phase>>

Finish ==
    /\ phase = "split" /\ todo = <<>>
    /\ phase' = "done" /\ UNCHANGED <<prog, bbVec, todo>>

Done == phase = "done" /\ UNCHANGED vars

Next == \/ Create \/ Build \/ Unreach \/ WontExit
        \/ CollectBackedges \/ ConvertNext \/ CollectCriticalEdges \/ SplitNext
        \/ Finish \/ Done

Spec == Init /\ [][Next]_vars

Built == phase \notin {"create", "build"}
Prepared == Built /\ phase \notin {"unreach", "wontexit"}
Live(i) == bbVec[i].alive
Reached == FindReachableBBs(bbVec)

(***************************************************************************)
(* What the program does, statement by statement: the statement that runs  *)
(* when control arrives at i, through labels, endtrys and gotos.  0 stands *)
(* for the end of the function and -1 for a loop without a statement.      *)
(***************************************************************************)
LabelAt(l) == CHOOSE i \in Indices(prog) : prog[i].op = "label" /\ prog[i].to[1] = l

Land(i) ==
    LET L[j \in 1 .. Len(prog) + 1, fuel \in 0 .. Len(prog) + 1] ==
            IF fuel = 0 THEN -1
            ELSE IF j > Len(prog) THEN 0
            ELSE IF prog[j].op \in {"label", "endtry"} THEN L[j + 1, fuel - 1]
            ELSE IF prog[j].op = "goto" THEN L[LabelAt(prog[j].to[1]), fuel - 1]
            ELSE j
    IN  L[i, Len(prog) + 1]

LandAt(l) == Land(LabelAt(l))

\* The same of the graph: the first statement that runs from the start of a block.
Stmts(i) == SelectSeq(bbVec[i].body, LAMBDA s : prog[s].op # "goto")

LandBB(i) ==
    LET L[j \in Indices(bbVec), fuel \in 0 .. Len(bbVec)] ==
            IF fuel = 0 THEN -1
            ELSE IF Stmts(j) # <<>> THEN Stmts(j)[1]
            ELSE IF bbVec[j].kind = "Return" THEN 0
            ELSE L[bbVec[j].succ[1], fuel - 1]
    IN  L[i, Len(bbVec)]

InTry(i) == {t \in 1 .. i : /\ prog[t].op = "try"
                            /\ \A j \in t .. i : prog[j].op # "endtry"}

(***************************************************************************)
(* Properties.                                                             *)
(***************************************************************************)
TypeOK ==
    /\ phase \in {"create", "build", "unreach", "wontexit", "loopcanon", "convert", "split",
                  "done"}
    /\ \A i \in Indices(bbVec) :
          /\ bbVec[i].kind \in Kinds
          /\ Range(bbVec[i].succ) \cup Range(bbVec[i].pred) \subseteq Indices(bbVec)
          /\ bbVec[i].tryBB \in 0 .. Len(bbVec)
    /\ \A k \in Indices(todo) : {todo[k].bb, todo[k].pred} \subseteq Indices(bbVec)

\* The successor and predecessor lists are edited apart, by seven operations: they must
\* agree edge by edge, with duplicates, because the operands of a phi are numbered by the
\* predecessors; and no live block may name a deleted one.
EdgesAgree ==
    Built =>
      \A i, j \in Indices(bbVec) \ {Entry, Exit} :
        Live(i) /\ Live(j) =>
          /\ Count(bbVec[i].succ, j) = Count(bbVec[j].pred, i)
          /\ \A k \in Range(bbVec[i].succ) \cup Range(bbVec[i].pred) : Live(k)

\* The statements of a block run one after the other in the program too, and its last one
\* is followed by what the program runs next, on the same side of a branch: through the
\* building of the graph, the deletion of blocks, the loop bodies that loopcanon clones with
\* inverted conditions and the empty blocks that splitcriticaledge inserts.
FlowsOn(i) ==
    LET bb == bbVec[i]  s == Stmts(i)  last == Last(s)
        After == IF bb.kind = "Return" THEN 0 ELSE LandBB(bb.succ[1])
        Side(k) == LandBB(bb.succ[IF bb.inverted THEN 3 - k ELSE k])
    IN  /\ \A k \in 1 .. Len(s) - 1 :
              /\ s[k + 1] = Land(s[k] + 1)
              /\ prog[s[k]].op \in {"assign", "maythrow", "callassigned", "try", "catch"}
        /\ CASE prog[last].op = "br" ->
                    Side(1) = Land(last + 1) /\ Side(2) = LandAt(prog[last].to[1])
             [] prog[last].op = "switch" ->
                    \A k \in Indices(prog[last].to) :
                       LandBB(LabelBB(bbVec, bb.targets[k])) = LandAt(prog[last].to[k])
             [] prog[last].op \in {"return", "throw"} -> TRUE
             [] OTHER -> After = Land(last + 1)

FlowIsPreserved ==
    Built => /\ LandBB(bbVec[Entry].succ[1]) = Land(1)
             /\ \A i \in Reached \ {Entry} : Stmts(i) # <<>> => FlowsOn(i)

\* Where a branch goes is written down twice, as the label of its statement and as a
\* successor.  The code that is emitted uses the label, the analyses the successor.
LabelsAgree ==
    Built =>
      \A i \in Reached :
        LET bb == bbVec[i]
            To(k) == LabelBB(bbVec, bb.targets[k])
        IN  CASE bb.kind = "CondGoto" -> bb.succ[2] = To(1)
              [] bb.kind = "Goto" /\ ~IsThrow(bb) -> bb.succ[1] = To(1)
              [] bb.kind = "Switch" ->
                    {To(k) : k \in Indices(bb.targets)}
                       = {j \in Range(bb.succ) : ~bbVec[j].isCatch}
              [] OTHER -> TRUE

\* A statement that may throw in a try is in a block that has an edge to every handler of the
\* try, and no statement out of a try is in a block of one.  A throw and a dassign that may
\* throw end their block, so that the handler does not see the assignment; another statement
\* that may throw does not end it, and the handler sees what the rest of the block assigns.
HandlersSeeTheThrow ==
    Built =>
      \A i \in Reached : \A k \in Indices(bbVec[i].body) :
        LET s == bbVec[i].body[k]
            handlers == UNION {Range(prog[t].to) : t \in InTry(s)}
        IN  /\ prog[s].op \in {"maythrow", "callassigned", "throw"} =>
                 {LabelBB(bbVec, h) : h \in handlers} \subseteq Range(bbVec[i].succ)
            /\ prog[s].op \in {"maythrow", "throw"} /\ InTry(s) # {} =>
                 s = Last(bbVec[i].body)
            /\ bbVec[i].isTry => InTry(s) # {}

\* A try that is still there ends in a block that is still there.
TryIsClosed ==
    Built =>
      \A i \in Reached :
        (\E k \in Indices(bbVec[i].body) : prog[bbVec[i].body[k]].op = "try")
            => \E j \in Indices(bbVec) : Live(j) /\ bbVec[j].tryBB = i

\* MirCFG::WontExitAnalysis connects infinite loops with the exit, so that they have
\* post-dominators: it does so for every loop that is closed by a goto.
InfiniteLoopsExit ==
    Prepared =>
      LET exits == FindWillExitBBs(bbVec)
      IN  \A i \in Reached \ {Entry} :
             (\E j \in Closure({i}, LAMBDA k : Range(bbVec[k].succ), Len(bbVec)) :
                  bbVec[j].kind = "Goto") => i \in exits

\* SSA construction takes an entry block for one without predecessors: its dominance
\* frontier would lack the join of the function's entry with a loop back to it.
EntryHasNoPreds ==
    phase = "done" => \A i \in Range(bbVec[Entry].succ) : bbVec[i].pred = <<>>

\* No block is a successor of another twice: the renaming of SSA fills the operand of the
\* first edge from a block only.
NoDoubleEdges ==
    phase = "done" =>
      \A i, j \in Reached \ {Entry} : Count(bbVec[i].succ, j) <= 1

\* An edge from a block with several successors to one with several predecessors is split,
\* except for edges to handlers, from gotos, and into the block that was the entry.
IsCritical(i, j) ==
    /\ j \in Range(bbVec[i].succ) /\ Len(bbVec[i].succ) > 1 /\ Len(bbVec[j].pred) > 1
    /\ bbVec[i].kind # "Goto" /\ ~bbVec[j].isCatch

WasEntry(j) ==
    \E i \in Range(bbVec[Entry].succ) : bbVec[i].artificial /\ bbVec[i].succ = <<j>>

CriticalEdgesAreSplit ==
    phase = "done" => \A i, j \in Reached \ {Entry} : IsCritical(i, j) => WasEntry(j)

\* The edges that a phase has collected are still there when their turn comes, as many times
\* as they were collected: no edit of another edge has moved them.
TodoIsCurrent ==
    phase \in {"convert", "split"} =>
      \A e \in Range(todo) :
         Cardinality({k \in Indices(todo) : todo[k].bb = e.bb /\ todo[k].pred = e.pred})
            <= Count(bbVec[e.pred].succ, e.bb)

\* What is written down twice is written down alike: edges, labels, and the lists of edges
\* that a phase still works off.
GraphIsConsistent == TypeOK /\ EdgesAgree /\ LabelsAgree /\ TodoIsCurrent

\* A handler is a successor of every block of its try in which something may be thrown.
TrysAreKept == HandlersSeeTheThrow /\ TryIsClosed

\* The graph runs what the program runs, when nothing is thrown and when something is.
ProgramIsPreserved == FlowIsPreserved /\ TrysAreKept

\* The graph has what dominance, the renaming of SSA and PRE take for granted.
ReadyForSSA == EntryHasNoPreds /\ NoDoubleEdges /\ CriticalEdgesAreSplit /\ InfiniteLoopsExit
=============================================================================
