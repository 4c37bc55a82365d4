------------------------------ MODULE MCMeCFG ------------------------------
(***************************************************************************)
(* Instances of MeCFG: every short statement list, and lists of labelled   *)
(* blocks with every choice of their last statements.                      *)
(***************************************************************************)
EXTENDS MeCFG

CONSTANTS NumStmts, NumBlocks

Stmt(op, to) == [op |-> op, to |-> to]
L == 1 .. 2

PlainStmts ==
    {Stmt("assign", <<>>), Stmt("return", <<>>)}
      \cup {Stmt(op, <<l>>) : op \in {"label", "goto", "br"}, l \in L}
      \cup {Stmt("switch", <<1, 2>>), Stmt("switch", <<2, 2>>)}

DefinesOnce(p, l) == Cardinality({i \in DOMAIN p : p[i] = Stmt("label", <<l>>)}) = 1
Uses(p) == UNION {Range(p[i].to) : i \in DOMAIN p}
WellFormed(p) == \A l \in Uses(p) : DefinesOnce(p, l)

StmtLists(n) == {p \in [1 .. n -> PlainStmts] : WellFormed(p)}

\* a try with one handler, which is labelled 1; the statements around it vary
TryStmts == {Stmt("assign", <<>>), Stmt("maythrow", <<>>), Stmt("callassigned", <<>>),
             Stmt("throw", <<>>), Stmt("br", <<2>>), Stmt("goto", <<2>>),
             Stmt("return", <<>>)}
Label2At == 0 .. 4

Trys ==
    {SelectSeq(
        <<Stmt("assign", <<>>)>>
        \o (IF at = 0 THEN <<Stmt("label", <<2>>)>> ELSE <<>>)
        \o <<Stmt("try", h), x>> \o (IF at = 1 THEN <<Stmt("label", <<2>>)>> ELSE <<>>)
        \o <<y>> \o (IF at = 2 THEN <<Stmt("label", <<2>>)>> ELSE <<>>)
        \o <<Stmt("endtry", <<>>)>> \o (IF at = 3 THEN <<Stmt("label", <<2>>)>> ELSE <<>>)
        \o <<z, Stmt("return", <<>>), Stmt("label", <<1>>), Stmt("catch", <<>>)>>
        \o (IF at = 4 THEN <<Stmt("label", <<2>>)>> ELSE <<>>)
        \o <<w>>, LAMBDA s : s.op # "none") :
      at \in Label2At, h \in {<<>>, <<1>>}, x \in TryStmts \cup {Stmt("none", <<>>)},
      y \in TryStmts, z \in {Stmt("assign", <<>>), Stmt("br", <<2>>)},
      w \in {Stmt("assign", <<>>), Stmt("goto", <<2>>)}}

\* block i is: label i, assign, its last statement
BlockList(ends) ==
    FlattenSeq([i \in DOMAIN ends |->
        <<Stmt("label", <<i>>), Stmt("assign", <<>>)>> \o ends[i]])

Ends == {<<>>, <<Stmt("return", <<>>)>>}
          \cup {<<Stmt(op, <<l>>)>> : op \in {"goto", "br"}, l \in 1 .. NumBlocks}

Blocks == {BlockList(Append(e, <<>>)) : e \in [1 .. NumBlocks - 1 -> Ends]}

MCPrograms == UNION {StmtLists(n) : n \in 1 .. NumStmts} \cup Trys \cup Blocks
=============================================================================
