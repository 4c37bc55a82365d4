------------------------------ MODULE MCMeSSA ------------------------------
(***************************************************************************)
(* Instances of MeSSA: four blocks in a row, a branch that joins, a loop,  *)
(* and a loop with two entries, with every choice of statements of Stmts.  *)
(***************************************************************************)
EXTENDS MeSSA

CONSTANTS Stmts, Shapes

S(op, v, w) == [op |-> op, v |-> v, w |-> w]

MCBlocks == 1 .. 4

Row == <<<<2>>, <<3>>, <<4>>, <<>>>>
Join == <<<<2, 3>>, <<4>>, <<4>>, <<>>>>
Loop == <<<<2>>, <<3, 4>>, <<2>>, <<>>>>
Irreducible == <<<<2, 3>>, <<3>>, <<2, 4>>, <<>>>>

AllShapes == {Row, Join, Loop, Irreducible}

MCPrograms == {[succ |-> g, stmt |-> s] : g \in Shapes, s \in [MCBlocks -> Stmts]}

NewStmts == {S("malloc", "p", "p"), S("malloc", "q", "q"), S("copy", "p", "q"),
             S("store", "p", "p"), S("read", "q", "q"), S("call", "q", "q")}
\* With these ReadsAgree does not hold: a pointer read from a final field (see README.md).
FinalStmts == {S("final", "p", "p"), S("final", "q", "q"), S("store", "p", "p"),
               S("read", "q", "q")}
=============================================================================
