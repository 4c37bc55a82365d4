------------------------------- MODULE MeSSA -------------------------------
(***************************************************************************)
(* SSA construction (me_ssa.cpp, ssa.cpp) over the lists of may-defs that  *)
(* the alias classes left, and the flow-sensitive alias analysis           *)
(* (me_fsaa.cpp), which takes may-defs away and renames again.  The last   *)
(* part runs the program: what a version stands for is what it holds.      *)
(*                                                                         *)
(* The program has two pointers p and q and what they point to, *p and *q, *)
(* which are in one alias class, and a volatile g.  Each block has one     *)
(* statement [op, v, w]:                                                   *)
(*   malloc   v := a new object          final  v := a field that is final *)
(*   copy     v := w                     call   v := call()                *)
(*   store    a store through v          read   a load through v           *)
(* Blocks are numbered from the entry; the dominator tree and frontiers    *)
(* are those of the definition, which Dominance shows the phase computes.  *)
(***************************************************************************)
EXTENDS Integers, Sequences, FiniteSets, SequencesExt

CONSTANTS
    Blocks,     \* 1 .. n, 1 is the first block
    Programs    \* records [succ, stmt]: a sequence of blocks and a statement for each block

VARIABLES
    prog,
    tree,       \* the dominator of each block, 0 for the first
    iter,       \* iterDomFrontier
    pc,
    renameOnly, \* SSA::runRenameOnly
    phi,        \* phiList: a phi [res, opnds] for some of the variables
    maydefs,    \* the variables in the may-def list of the statement
    def,        \* the versions that the statement defines
    use,        \* the versions that it uses
    opnd, base, \* of its may-defs
    count,      \* how many versions a variable has
    stack,      \* vstStacks
    frames,     \* the calls of RenameBB that are open: [bb, sizes, todo]
    renamed,    \* bbRenamed
    run         \* the execution: [at, env, mem, seen]

ssaVars == <<phi, maydefs, def, use, opnd, base, count, stack, frames, renamed>>
vars == <<prog, tree, iter, pc, renameOnly, ssaVars, run>>

Ptrs == {"p", "q"}
Star == [p |-> "*p", q |-> "*q"]
Stars == {"*p", "*q"}
PtrOf == [v \in Stars |-> IF v = "*p" THEN "p" ELSE "q"]
Volatile == {"g"}
Vars == Ptrs \cup Stars \cup Volatile

Stmt(b) == prog.stmt[b]
Succ(b) == prog.succ[b]
Pred(b) == SelectSeq([i \in Blocks |-> i], LAMBDA i : b \in Range(Succ(i)))

Uses(s) == CASE s.op \in {"malloc", "final"} -> {}
             [] s.op = "copy" -> {s.w}
             [] s.op = "call" -> Stars \cup Volatile
             [] s.op = "store" -> {s.v}
             [] s.op = "read" -> {s.v, Star[s.v]}

\* ssaVar of a dassign and the must-def of a call
Direct(s) == IF s.op \in {"malloc", "final", "copy", "call"} THEN {s.v} ELSE {}

MayDefs(s) == CASE s.op = "call" -> Stars \cup Volatile
                [] s.op = "store" -> Stars
                [] OTHER -> {}

Defs(b) == Direct(Stmt(b)) \cup maydefs[b]

\* Mutant: AddDefBB4Ost is not called for the may-defs.
DefBBsOfDirect(v) == {b \in Blocks : v \in Direct(Stmt(b))}

DefBBs(v) == {b \in Blocks : v \in Direct(Stmt(b)) \cup MayDefs(Stmt(b))}

(***************************************************************************)
(* Dominators by definition.                                               *)
(***************************************************************************)
ReachesWithout(g, a) ==
    LET C[k \in 0 .. Cardinality(Blocks)] ==
            IF k = 0 THEN {1} \ {a}
            ELSE LET r == C[k - 1] IN r \cup (UNION {Range(g.succ[x]) : x \in r} \ {a})
    IN  C[Cardinality(Blocks)]

Over(g) == [b \in Blocks |-> {a \in Blocks : a = b \/ b \notin ReachesWithout(g, a)}]

TreeOf(over) ==
    [b \in Blocks |-> IF b = 1 THEN 0
                      ELSE CHOOSE a \in over[b] \ {b} : over[a] = over[b] \ {b}]

IterOf(g, over) ==
    LET F == [a \in Blocks |-> {b \in Blocks : /\ a \notin over[b] \ {b}
                                 /\ \E x \in Blocks : b \in Range(g.succ[x]) /\ a \in over[x]}]
        C[k \in 0 .. Cardinality(Blocks)] ==
            IF k = 0 THEN F
            ELSE LET r == C[k - 1] IN [a \in Blocks |-> r[a] \cup UNION {F[b] : b \in r[a]}]
    IN  C[Cardinality(Blocks)]

Children(b) == SelectSeq([i \in Blocks |-> i], LAMBDA i : tree[i] = b)

Dominate(a, b) ==
    LET Up[k \in 0 .. Cardinality(Blocks)] ==
            IF k = 0 THEN b ELSE LET x == Up[k - 1] IN IF x = 0 THEN 0 ELSE tree[x]
    IN  \E k \in 0 .. Cardinality(Blocks) : Up[k] = a

(***************************************************************************)
(* Phi insertion.  A volatile variable has no phi.                         *)
(***************************************************************************)
PhiBBs(v) == UNION {iter[b] : b \in DefBBs(v)}

InsertPhiNode ==
    /\ pc = "phi" /\ pc' = "init"
    /\ phi' = [b \in Blocks |->
                 [v \in {x \in Vars \ Volatile : b \in PhiBBs(x)} |->
                    [res |-> 0, opnds |-> [i \in 1 .. Len(Pred(b)) |-> 0]]]]
    /\ UNCHANGED <<prog, tree, iter, renameOnly, maydefs, def, use, opnd, base, count, stack,
                   frames, renamed, run>>

InitRenameStack ==
    /\ pc = "init" /\ pc' = "rename"
    /\ stack' = [v \in Vars |-> <<0>>] /\ renamed' = {}
    /\ frames' = <<[bb |-> 0, sizes |-> <<>>, todo |-> <<1>>]>>
    /\ UNCHANGED <<prog, tree, iter, renameOnly, phi, maydefs, def, use, opnd, base, count, run>>

Top(v) == Last(stack[v])

\* CreateNewVersion: the version after n others, or the one that is there
NewVersion(v, old, n) == IF v \in Volatile \/ renameOnly THEN old ELSE n

(***************************************************************************)
(* RenameBB up to the recursion: the phis, the uses, the definitions and   *)
(* the operands of the phis behind.                                        *)
(***************************************************************************)
Top1(b, v) == IF v \in DOMAIN phi[b] THEN NewVersion(v, phi[b][v].res, count[v]) ELSE Top(v)

Count1(b, v) == IF v \in DOMAIN phi[b] /\ ~renameOnly THEN count[v] + 1 ELSE count[v]

DefVersion(b, v) == NewVersion(v, def[b][v], Count1(b, v))

Top2(b, v) == IF v \in Defs(b) THEN DefVersion(b, v) ELSE Top1(b, v)

Pushed(b, v) ==
    (IF v \in DOMAIN phi[b] THEN <<Top1(b, v)>> ELSE <<>>)
      \o (IF v \in Defs(b) \ Volatile THEN <<DefVersion(b, v)>> ELSE <<>>)

\* RenamePhiUseInSucc finds the first place of b in the predecessors.
RenamePhis(b) ==
    [s \in Blocks |->
       [v \in DOMAIN phi[s] |->
          [res |-> IF s = b THEN Top1(b, v) ELSE phi[s][v].res,
           opnds |-> [i \in DOMAIN phi[s][v].opnds |->
                        IF s \in Range(Succ(b)) /\ i = SelectInSeq(Pred(s), LAMBDA x : x = b)
                        THEN Top2(b, v) ELSE phi[s][v].opnds[i]]]]]

RenameBB ==
    /\ pc = "rename" /\ frames # <<>> /\ Last(frames).todo # <<>>
    /\ LET b == Head(Last(frames).todo)
           caller == [Last(frames) EXCEPT !.todo = Tail(@)]
       IN  IF b \in renamed
           THEN /\ frames' = Append(Front(frames), caller)
                /\ UNCHANGED <<phi, def, use, opnd, base, count, stack, renamed>>
           ELSE /\ renamed' = renamed \cup {b}
                /\ frames' = Front(frames) \o
                     <<caller, [bb |-> b, sizes |-> [v \in Vars |-> Len(stack[v])],
                                todo |-> Children(b)]>>
                /\ phi' = RenamePhis(b)
                /\ use' = [use EXCEPT ![b] = [v \in Uses(Stmt(b)) |-> Top1(b, v)]]
                /\ opnd' = [opnd EXCEPT ![b] = [v \in maydefs[b] |-> Top1(b, v)]]
                /\ base' = [base EXCEPT ![b] =
                              [v \in maydefs[b] \cap Stars |-> Top1(b, PtrOf[v])]]
                /\ def' = [def EXCEPT ![b] = [v \in Defs(b) |-> DefVersion(b, v)]]
                /\ stack' = [v \in Vars |-> stack[v] \o Pushed(b, v)]
                /\ count' = [v \in Vars |->
                               IF renameOnly THEN count[v] ELSE count[v] + Len(Pushed(b, v))]
    /\ UNCHANGED <<prog, tree, iter, pc, renameOnly, maydefs, run>>

\* The end of RenameBB, and of BuildSSA
Leave ==
    /\ pc = "rename" /\ frames # <<>> /\ Last(frames).todo = <<>>
    /\ frames' = Front(frames)
    /\ stack' = IF Last(frames).bb = 0 THEN stack
                ELSE [v \in Vars |-> SubSeq(stack[v], 1, Last(frames).sizes[v])]
    /\ pc' = IF Last(frames).bb = 0 THEN IF renameOnly THEN "built" ELSE "fsaa" ELSE pc
    /\ UNCHANGED <<prog, tree, iter, renameOnly, phi, maydefs, def, use, opnd, base, count,
                   renamed, run>>

(***************************************************************************)
(* FSAA.                                                                   *)
(***************************************************************************)
\* VersionSt::defBB, 0 is nullptr
DefBB(v, n) ==
    LET in == {b \in Blocks : \/ v \in Defs(b) /\ def[b][v] = n
                              \/ v \in DOMAIN phi[b] /\ phi[b][v].res = n}
    IN  IF n = 0 \/ in = {} THEN 0 ELSE CHOOSE b \in in : TRUE

\* Mutant: the copy of a pointer is a unique value.
FindUniquePointerValueDefBBOfCopy(v, n) ==
    LET b == DefBB(v, n)
    IN  IF b = 0 THEN 0
        ELSE IF v \in Direct(Stmt(b)) /\ def[b][v] = n /\ Stmt(b).op # "call" THEN b ELSE 0

FindUniquePointerValueDefBB(v, n) ==
    LET F[x \in Ptrs, m \in Nat] ==
            LET b == DefBB(x, m)
                s == Stmt(b)
            IN  IF b = 0 THEN 0
                ELSE IF x \notin Direct(s) \/ def[b][x] # m THEN 0
                ELSE IF s.op \in {"malloc", "final"} THEN b
                ELSE IF s.op = "copy" THEN F[s.w, use[b][s.w]] ELSE 0
    IN  F[v, n]

\* Mutant: Dominate without the test for the same block.
ErasedInSame(b) ==
    LET v == Stmt(b).v
        defBB == FindUniquePointerValueDefBB(v, use[b][v])
    IN  IF Stmt(b).op # "store" \/ defBB = 0 THEN {}
        ELSE {x \in maydefs[b] : LET aliased == DefBB(PtrOf[x], base[b][x])
                                 IN  aliased = 0 \/ Dominate(aliased, defBB)}

Erased(b) ==
    LET v == Stmt(b).v
        defBB == FindUniquePointerValueDefBB(v, use[b][v])
    IN  IF Stmt(b).op # "store" \/ defBB = 0 THEN {}
        ELSE {x \in maydefs[b] : LET aliased == DefBB(PtrOf[x], base[b][x])
                                 IN  aliased = 0 \/ (aliased # defBB /\ Dominate(aliased, defBB))}

FSAA ==
    /\ pc = "fsaa"
    /\ LET kept == [b \in Blocks |-> maydefs[b] \ Erased(b)]
       IN  /\ maydefs' = kept
           /\ def' = [b \in Blocks |-> [v \in Direct(Stmt(b)) \cup kept[b] |-> def[b][v]]]
           /\ pc' = IF \E b \in Blocks : Stmt(b).op = "store" /\ kept[b] = {} THEN "fatal"
                    ELSE IF kept = maydefs THEN "built" ELSE "init"
           /\ renameOnly' = (kept # maydefs)
    /\ UNCHANGED <<prog, tree, iter, phi, use, opnd, base, count, stack, frames, renamed, run>>

(***************************************************************************)
(* The run of the program.  Addresses are reused when no pointer holds     *)
(* them; a store changes what is there.  seen: what was read under a pair  *)
(* of versions of the pointer and of what it points to, until either is    *)
(* defined again.                                                          *)
(***************************************************************************)
Final == 0
Addrs == 0 .. 3
NotRunning == [at |-> 0, env |-> <<>>, mem |-> <<>>, seen |-> {}]

Outdated(defs, seen) ==
    {r \in seen : <<r.v, r.pv>> \in defs \/ <<Star[r.v], r.sv>> \in defs}

PhiDefs(b) == {<<v, phi[b][v].res>> : v \in DOMAIN phi[b]}
StmtDefs(b) == {<<v, def[b][v]>> : v \in Defs(b)}

StartRun ==
    /\ pc = "built" /\ pc' = "run"
    /\ \E env \in [Ptrs -> {Final, 1}] :
          run' = [at |-> 1, env |-> env, mem |-> [a \in Addrs |-> 0], seen |-> {}]
    /\ UNCHANGED <<prog, tree, iter, renameOnly, ssaVars>>

Results(s) ==
    CASE s.op = "malloc" -> {CHOOSE a \in Addrs \ {Final} : a \notin Range(run.env)}
      [] s.op = "final" -> {Final}
      [] s.op = "copy" -> {run.env[s.w]}
      [] s.op = "call" -> Range(run.env) \cup {Final}
      [] OTHER -> {run.env[s.v]}

Read(b) == LET v == Stmt(b).v
           IN  [v |-> v, pv |-> use[b][v], sv |-> use[b][Star[v]],
                value |-> run.mem[run.env[v]]]

RunBlock ==
    /\ pc = "run" /\ run.at # 0
    /\ \E a \in Results(Stmt(run.at)), next \in Range(Succ(run.at)) \cup {0},
          touched \in SUBSET (IF Stmt(run.at).op = "call" THEN Addrs ELSE {}) :
          LET b == run.at
              s == Stmt(b)
              stored == IF s.op = "store" THEN {run.env[s.v]} ELSE touched
              seen == (run.seen \ Outdated(StmtDefs(b), run.seen))
                        \cup (IF s.op = "read" THEN {Read(b)} ELSE {})
          IN  /\ next = 0 <=> Succ(b) = <<>>
              /\ run' = [at |-> next, env |-> [run.env EXCEPT ![s.v] = a],
                         mem |-> [x \in Addrs |->
                                    IF x \in stored THEN 1 - run.mem[x]
                                    ELSE IF s.op = "malloc" /\ x = a THEN 0 ELSE run.mem[x]],
                         seen |-> IF next = 0 THEN seen
                                  ELSE seen \ Outdated(PhiDefs(next), seen)]
    /\ UNCHANGED <<prog, tree, iter, pc, renameOnly, ssaVars>>

Stop == (pc = "fatal" \/ (pc = "run" /\ run.at = 0)) /\ UNCHANGED vars

Init ==
    /\ prog \in Programs
    /\ \E over \in {Over(prog)} : tree = TreeOf(over) /\ iter = IterOf(prog, over)
    /\ pc = "phi" /\ renameOnly = FALSE
    /\ phi = [b \in Blocks |-> <<>>]
    /\ maydefs = [b \in Blocks |-> MayDefs(Stmt(b))]
    /\ def = [b \in Blocks |-> [v \in Direct(Stmt(b)) \cup MayDefs(Stmt(b)) |-> 0]]
    /\ use = [b \in Blocks |-> <<>>] /\ opnd = use /\ base = use
    /\ count = [v \in Vars |-> 1] /\ stack = [v \in Vars |-> <<>>]
    /\ frames = <<>> /\ renamed = {} /\ run = NotRunning

Next == \/ InsertPhiNode \/ InitRenameStack \/ RenameBB \/ Leave \/ FSAA
        \/ StartRun \/ RunBlock \/ Stop

Spec == Init /\ [][Next]_vars

(***************************************************************************)
(* Properties.                                                             *)
(***************************************************************************)
TypeOK ==
    /\ pc \in {"phi", "init", "rename", "fsaa", "built", "run", "fatal"}
    /\ renamed \subseteq Blocks /\ \A v \in Vars : count[v] \in 1 .. 2 * Cardinality(Blocks) + 1
    /\ \A b \in Blocks : /\ maydefs[b] \subseteq MayDefs(Stmt(b)) /\ DOMAIN def[b] = Defs(b)
                         /\ DOMAIN use[b] \subseteq Vars
    /\ run.at \in Blocks \cup {0}

\* The versions that can be current at the start of each block, and at its end, when the
\* program runs along every path.
Starts ==
    LET Ends(c) == [b \in Blocks |-> [v \in Vars |-> IF v \in Defs(b) THEN {def[b][v]} ELSE c[b][v]]]
        C[k \in 0 .. Cardinality(Blocks)] ==
            IF k = 0 THEN [b \in Blocks |-> [v \in Vars |-> IF b = 1 THEN {0} ELSE {}]]
            ELSE LET c == C[k - 1] e == Ends(c)
                 IN  [b \in Blocks |-> [v \in Vars |->
                        IF v \in DOMAIN phi[b] THEN {phi[b][v].res}
                        ELSE c[b][v] \cup UNION {e[x][v] : x \in Range(Pred(b))}]]
    IN  C[Cardinality(Blocks)]

\* What a use, the operand of a may-def or the operand of a phi names is the one version that
\* is current there on every path, also after FSAA took may-defs away and left their phis.
NamesReach ==
    pc = "built" =>
      LET start == Starts
          End(b, v) == IF v \in Defs(b) THEN {def[b][v]} ELSE start[b][v]
      IN  \A b \in Blocks :
            /\ \A v \in DOMAIN use[b] : start[b][v] = {use[b][v]}
            /\ \A v \in maydefs[b] : start[b][v] = {opnd[b][v]}
            /\ \A v \in DOMAIN phi[b] : \A i \in DOMAIN phi[b][v].opnds :
                  End(Pred(b)[i], v) = {phi[b][v].opnds[i]}

\* Every version has one definition; a volatile variable has the initial one only.
DefinedOnce ==
    pc = "built" =>
      /\ \A v \in Vars \ Volatile :
            LET all == {<<b, "phi">> : b \in {x \in Blocks : v \in DOMAIN phi[x]}}
                         \cup {<<b, "stmt">> : b \in {x \in Blocks : v \in Defs(x)}}
                Version(d) == IF d[2] = "phi" THEN phi[d[1]][v].res ELSE def[d[1]][v]
            IN  \A d, e \in all : Version(d) # 0 /\ (Version(d) = Version(e) => d = e)
      /\ \A v \in Volatile, b \in Blocks : v \in Defs(b) => def[b][v] = 0

\* The stack of a variable holds what the blocks on the way down the tree have defined, in
\* that order: nothing of a subtree that was left, and nothing is missing.
Defined(b, v) ==
    (IF v \in DOMAIN phi[b] THEN <<phi[b][v].res>> ELSE <<>>)
      \o (IF v \in Defs(b) \ Volatile THEN <<def[b][v]>> ELSE <<>>)

StackIsThePath ==
    pc = "rename" /\ frames # <<>> =>
      \A v \in Vars :
         stack[v] = <<0>> \o FlattenSeq([i \in 1 .. Len(frames) - 1 |->
                                           Defined(frames[i + 1].bb, v)])

\* A phi is only where two different versions meet.
PhisMerge ==
    pc = "fsaa" =>
      \A b \in Blocks : \A v \in DOMAIN phi[b] :
         Cardinality(Range(phi[b][v].opnds)) > 1

\* The renaming gives every version one definition, and every use the one that reaches it.
RenamingIsSound == TypeOK /\ StackIsThePath /\ DefinedOnce /\ PhisMerge /\ NamesReach

\* What FSAA's check says: the store keeps the may-def of what it stores to.
StoreStaysDefined == pc # "fatal"

\* Two loads under the same versions of the pointer and of what it points to read the same:
\* what makes the second of them redundant for the phases behind.
ReadsAgree ==
    \A r, s \in run.seen : r.v = s.v /\ r.pv = s.pv /\ r.sv = s.sv => r.value = s.value
=============================================================================
