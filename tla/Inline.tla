------------------------------- MODULE Inline -------------------------------
(***************************************************************************)
(* MInline (inline.cpp) over the call graph: which functions may be        *)
(* inlined, and how a call is replaced by the renamed body of its callee.  *)
(* The program is run before and after, to compare what it does.           *)
(*                                                                         *)
(* A statement is a record [op, x, y, f, l]: the symbol it sets, the one   *)
(* it reads (the value, for "const"), the callee and the label, 0 where    *)
(* there is none.  A function's symbols and labels are the numbers of its  *)
(* symbol and label tables, and symbol 1 is its formal.  There are no      *)
(* pseudo-registers: RenamePregs does not return when a function that has  *)
(* one is inlined into itself.                                             *)
(***************************************************************************)
EXTENDS CallGraph

CONSTANTS
    Programs,  \* records [body, symbols, labels, prefer, level, arg, runs]
    MaxBudget  \* max_budget

Ops == {"const", "copy", "dec", "emit", "label", "goto", "brtrue", "return", "call"}
Statements == [op : Ops, x : Nat, y : Nat, f : Functions \cup {0}, l : Nat]

\* A call is of a function of the program, and so are the names of the inline list.
ASSUME InlineAssumption ==
  \A p \in Programs :
    /\ p.body \in [Functions -> Seq(Statements)]
    /\ \A f \in Functions : \A i \in DOMAIN p.body[f] :
         p.body[f][i].op = "call" => p.body[f][i].f \in Functions
    /\ p.symbols \in [Functions -> Nat] /\ p.labels \in [Functions -> Nat]
    /\ DOMAIN p.prefer \subseteq Functions

VARIABLES
    prog,       \* the program as it was
    body, symbols, labels,  \* of each function; the last two are the sizes of its tables
    toInline,   \* the functions that may be inlined
    cost,       \* the cost of their bodies
    order, at,  \* the functions InlineCalls has yet to scan, and the statement it is at
    frames,     \* the stack of the running program: records [f, pc, env]
    trace, before   \* what it has emitted, and what the original emitted

inVars == <<prog, body, symbols, labels, toInline, cost, order, at, frames, trace, before>>
allVars == <<cgVars, inVars>>

\* The call sites of a function, of which there is one for each direct callee.
CalleesOf(b) ==
  LET Upto[i \in 0 .. Len(b)] ==
        IF i = 0 THEN <<>>
        ELSE LET l == Upto[i-1]
             IN  IF b[i].op = "call" /\ b[i].f \notin Range(l) THEN Append(l, b[i].f) ELSE l
  IN  Upto[Len(b)]

----------------------------------------------------------------------------
\* SpendBudget: what a statement costs, its operands included.
Cost(s) ==
  CASE s.op = "call" -> (IF s.f \in toInline THEN cost[s.f] ELSE 1) + 1
    [] s.op = "label" -> 1
    [] s.op = "goto" -> 1
    [] s.op = "dec" -> 4
    [] OTHER -> 2

BodyCost(f) ==
  LET Upto[i \in 0 .. Len(body[f])] == IF i = 0 THEN 0 ELSE Upto[i-1] + Cost(body[f][i])
  IN  Upto[Len(body[f])]

\* CanInline: the functions of the inline list, within the budget.
CanInline(f) == f \in DOMAIN prog.prefer /\ BodyCost(f) <= MaxBudget

TryInline(f) ==
  IF f \notin toInline /\ CanInline(f)
  THEN toInline' = toInline \cup {f} /\ cost' = [cost EXCEPT ![f] = BodyCost(f)]
  ELSE UNCHANGED <<toInline, cost>>

\* CollectMustInlineFuncs, over the function list that the call graph left.
Collect ==
  /\ stage = "collect" /\ at <= Len(compilationList)
  /\ TryInline(compilationList[at])
  /\ at' = at + 1
  /\ UNCHANGED <<cgVars, prog, body, symbols, labels, order, frames, trace, before>>

\* Mutant: callers before their callees.
TopDown == FlattenSeq([i \in DOMAIN sccTopologicalVec |-> sccNodes[sccTopologicalVec[i]]])

\* The components from the last to the first, and the functions of each.
BottomUp == FlattenSeq([i \in DOMAIN sccTopologicalVec |-> sccNodes[FromBottom(i)]])

StartInline ==
  /\ stage = "collect" /\ at > Len(compilationList)
  /\ stage' = "inline"
  /\ order' = BottomUp /\ at' = 0
  /\ UNCHANGED <<callees, dfsVars, sccTopologicalVec, sorted, compilationList>>
  /\ UNCHANGED <<prog, body, symbols, labels, toInline, cost, frames, trace, before>>

Caller == order[1]

\* With a level above 0 a function is tried again before its calls are scanned.
EnterFunction ==
  /\ stage = "inline" /\ order # <<>> /\ at = 0
  /\ IF prog.level > 0 THEN TryInline(Caller) ELSE UNCHANGED <<toInline, cost>>
  /\ at' = 1
  /\ UNCHANGED <<cgVars, prog, body, symbols, labels, order, frames, trace, before>>

----------------------------------------------------------------------------
\* RenameSymbols, RenameLabels: the callee's tables are appended to the caller's.
Shift(n, off) == IF n = 0 THEN 0 ELSE n + off
Renamed(s, symOff, labOff) ==
  [s EXCEPT !.x = Shift(@, symOff), !.y = IF s.op = "const" THEN @ ELSE Shift(@, symOff),
            !.l = Shift(@, labOff)]

S(op, x, y, f, l) == [op |-> op, x |-> x, y |-> y, f |-> f, l |-> l]

\* Mutant: the call is not known to be one that sets a result.
ReturnedNoResult(s, x, ret) ==
  IF s.op # "return" THEN <<s>> ELSE <<S("goto", 0, 0, 0, ret)>>

\* UpdateReturnStmts: a return sets the result of the call and goes to the label.
Returned(s, x, ret) ==
  IF s.op # "return" THEN <<s>>
  ELSE (IF x = 0 THEN <<>> ELSE <<S("copy", x, s.y, 0, 0)>>) \o <<S("goto", 0, 0, 0, ret)>>

\* The body, its returns replaced one by one; own is the label if it is a new one.
WithReturns(b, x, ret) == FlattenSeq([i \in DOMAIN b |-> Returned(b[i], x, ret)])

Returns(b) == Cardinality({i \in DOMAIN b : b[i].op = "return"})
EndsInReturn(b) == b # <<>> /\ b[Len(b)].op = "return"

\* Step 6.5: a goto to the very next statement goes, and so does a label no one goes to.
Trimmed(b, x, ret, own) ==
  LET all  == WithReturns(b, x, ret)
      kept == IF EndsInReturn(b) THEN SubSeq(all, 1, Len(all) - 1) ELSE all
      used == Returns(b) > 1 \/ (Returns(b) = 1 /\ ~EndsInReturn(b))
  IN  IF own /\ used THEN Append(kept, S("label", 0, 0, 0, ret)) ELSE kept

NextIsLabel(b, i) == i < Len(b) /\ b[i + 1].op = "label"

\* What the call at place i of the caller is replaced by, which is nothing for an
\* empty callee.
InlinedBody(caller, i) ==
  LET call   == body[caller][i]
      callee == call.f
      symOff == symbols[caller]
      labOff == labels[caller]
      own    == ~NextIsLabel(body[caller], i)
      ret    == IF own THEN labOff + labels[callee] + 1 ELSE body[caller][i + 1].l
      new    == [j \in DOMAIN body[callee] |-> Renamed(body[callee][j], symOff, labOff)]
  IN  IF new = <<>> THEN <<>>
      ELSE <<S("copy", 1 + symOff, call.y, 0, 0)>> \o Trimmed(new, call.x, ret, own)

Statement == body[Caller][at]
Scanning == stage = "inline" /\ order # <<>> /\ at \in DOMAIN body[Caller]

\* The list may name the callers that a function is for, which an empty one ignores.
Inlines(s) ==
  /\ s.op = "call" /\ s.f \in toInline
  /\ body[s.f] = <<>> \/ prog.prefer[s.f] = {} \/ Caller \in prog.prefer[s.f]

\* The statements that come in are not scanned again.
PerformInline ==
  /\ Scanning /\ Inlines(Statement)
  /\ LET b == body[Caller]
         new == InlinedBody(Caller, at)
     IN  /\ body' = [body EXCEPT ![Caller] =
                       SubSeq(b, 1, at - 1) \o new \o SubSeq(b, at + 1, Len(b))]
         /\ at' = at + Len(new)
         /\ IF new = <<>> THEN UNCHANGED <<symbols, labels>>
            ELSE /\ symbols' = [symbols EXCEPT ![Caller] = @ + symbols[Statement.f]]
                 /\ labels' = [labels EXCEPT ![Caller] =
                                 @ + labels[Statement.f] + (IF NextIsLabel(b, at) THEN 0 ELSE 1)]
  /\ UNCHANGED <<cgVars, prog, toInline, cost, order, frames, trace, before>>

SkipStatement ==
  /\ Scanning /\ ~Inlines(Statement)
  /\ at' = at + 1
  /\ UNCHANGED <<cgVars, prog, body, symbols, labels, toInline, cost, order, frames, trace,
                 before>>

LeaveFunction ==
  /\ stage = "inline" /\ order # <<>> /\ at > Len(body[Caller])
  /\ order' = Tail(order) /\ at' = 0
  /\ UNCHANGED <<cgVars, prog, body, symbols, labels, toInline, cost, frames, trace, before>>

----------------------------------------------------------------------------
(* The program, run from function 1. *)

Running == stage \in {"run", "rerun"}
Code(f) == IF stage = "run" THEN prog.body[f] ELSE body[f]
Size(f) == IF stage \in {"built", "run"} THEN prog.symbols[f] ELSE symbols[f]

\* A function starts, with its argument; its result is for symbol x of the caller.
Frame(f, x, arg) ==
  [f |-> f, pc |-> 1, x |-> x, env |-> [i \in 1 .. Size(f) |-> IF i = 1 THEN arg ELSE 0]]

Run ==
  /\ \/ stage = "built" /\ prog.runs /\ stage' = "run"
     \/ stage = "inline" /\ order = <<>> /\ stage' = "rerun"
  /\ frames' = <<Frame(1, 0, prog.arg)>>
  /\ UNCHANGED <<callees, dfsVars, sccTopologicalVec, sorted, compilationList>>
  /\ UNCHANGED <<prog, body, symbols, labels, toInline, cost, order, at, trace, before>>

Top == frames[Len(frames)]
Below == SubSeq(frames, 1, Len(frames) - 1)
Instr == Code(Top.f)[Top.pc]
PlaceOf(l) == CHOOSE i \in DOMAIN Code(Top.f) : Code(Top.f)[i].op = "label" /\ Code(Top.f)[i].l = l

Goto(frame, pc) == [frame EXCEPT !.pc = pc]
SetTo(frame, x, v) == IF x = 0 THEN frame ELSE [frame EXCEPT !.env[x] = v]
Next1(frame) == Goto(frame, frame.pc + 1)

\* A function that ends without a return has no result.
Ends ==
  /\ Running /\ frames # <<>>
  /\ Top.pc \in DOMAIN Code(Top.f) => Instr.op = "return"

Leave ==
  /\ Ends
  /\ frames' =
       IF Below = <<>> THEN <<>>
       ELSE IF Top.pc > Len(Code(Top.f)) THEN Below
            ELSE [Below EXCEPT ![Len(Below)] = SetTo(@, Top.x, Top.env[Instr.y])]
  /\ UNCHANGED <<cgVars, prog, body, symbols, labels, toInline, cost, order, at, trace, before>>

Execute ==
  /\ Running /\ frames # <<>> /\ ~Ends
  /\ LET s == Instr
         v == IF s.op = "const" THEN s.y ELSE IF s.y = 0 THEN 0 ELSE Top.env[s.y]
     IN  /\ frames' =
              CASE s.op \in {"const", "copy"} -> Append(Below, Next1(SetTo(Top, s.x, v)))
                [] s.op = "dec" -> Append(Below, Next1(SetTo(Top, s.x, IF v = 0 THEN 0 ELSE v - 1)))
                [] s.op \in {"emit", "label"} -> Append(Below, Next1(Top))
                [] s.op = "goto" \/ (s.op = "brtrue" /\ v # 0) ->
                     Append(Below, Goto(Top, PlaceOf(s.l)))
                [] s.op = "brtrue" -> Append(Below, Next1(Top))
                [] s.op = "call" ->
                     Below \o <<Next1(Top), Frame(s.f, s.x, v)>>
         /\ trace' = IF s.op = "emit" THEN Append(trace, v) ELSE trace
  /\ UNCHANGED <<cgVars, prog, body, symbols, labels, toInline, cost, order, at, before>>

EndRun ==
  /\ Running /\ frames = <<>>
  /\ IF stage = "run" THEN stage' = "collect" /\ before' = trace /\ trace' = <<>>
     ELSE stage' = "done" /\ UNCHANGED <<before, trace>>
  /\ at' = 1
  /\ UNCHANGED <<callees, dfsVars, sccTopologicalVec, sorted, compilationList>>
  /\ UNCHANGED <<prog, body, symbols, labels, toInline, cost, order, frames>>

----------------------------------------------------------------------------
Init ==
  /\ CGInit
  /\ prog \in Programs
  /\ callees = [f \in Functions |-> CalleesOf(prog.body[f])]
  /\ body = prog.body /\ symbols = prog.symbols /\ labels = prog.labels
  /\ toInline = {} /\ cost = [f \in Functions |-> 0]
  /\ order = <<>> /\ at = 1
  /\ frames = <<>> /\ trace = <<>> /\ before = <<>>

Next ==
  \/ CGNext /\ UNCHANGED inVars
  \/ Collect \/ StartInline \/ EnterFunction
  \/ PerformInline \/ SkipStatement \/ LeaveFunction
  \/ Run \/ Execute \/ Leave \/ EndRun

Spec == Init /\ [][Next]_allVars

----------------------------------------------------------------------------
LabelsOf(b) == SelectSeq(b, LAMBDA s : s.op = "label")
Targets(b) == {b[i].l : i \in {i \in DOMAIN b : b[i].op \in {"goto", "brtrue"}}}

(* The graph's invariant, and bodies whose symbols are in their table and whose
   jumps go to a label that is there once. *)
TypeOK ==
  /\ CGTypeOK
  /\ \A f \in Functions :
       LET b == body[f]
           l == LabelsOf(b)
       IN  /\ \A i \in DOMAIN b :
                /\ b[i].x \in 0 .. symbols[f] /\ b[i].l \in 0 .. labels[f]
                /\ b[i].op # "const" => b[i].y \in 0 .. symbols[f]
           /\ \A i, j \in DOMAIN l : l[i].l = l[j].l => i = j
           /\ Targets(b) \subseteq {l[i].l : i \in DOMAIN l}

(* Inlining does not change what a program does: it emits the same values, with
   loops, recursion, several returns, and functions inlined within others. *)
BehavesTheSame ==
  /\ TypeOK
  /\ stage = "rerun" => IsPrefix(trace, before)
  /\ stage = "done" => trace = before

IsRecursive(f) == \E g \in Range(callees[f]) : Reaches(g, f)

\* f reaches g by way of a recursive function.
Through(f, g) == \E h \in Functions : Reaches(f, h) /\ IsRecursive(h) /\ Reaches(h, g)

(* "bottom-up" pays: since inlined statements are not scanned again, every call of
   a function that may be inlined anywhere has to be replaced before its caller is
   inlined itself; only calls that a recursion leads to are left. *)
OnlyRecursionIsLeft ==
  stage \in {"rerun", "done"} =>
    \A f \in Functions : \A i \in DOMAIN body[f] :
      LET s == body[f][i]
      IN  s.op = "call" /\ s.f \in toInline /\ prog.prefer[s.f] = {} => Through(f, s.f)
=============================================================================
