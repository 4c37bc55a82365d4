---------------------------- MODULE MCDominance ----------------------------
(***************************************************************************)
(* Instances of Dominance: every graph of NumBlocks blocks with at most    *)
(* two successors each, in ascending order, as splitcriticaledge leaves    *)
(* them (the entry has no predecessor, no edge is doubled, every block is  *)
(* reachable).  A block without successors is an exit; MoreExits adds      *)
(* exits that have a successor, as a return in a try has its handler.      *)
(* Every block reaches an exit: with a loop that is closed by a switch and *)
(* never left ComputePdomFrontiers would follow a null pointer.            *)
(***************************************************************************)
EXTENDS Dominance

CONSTANTS NumBlocks, MoreExits

MCBlocks == 1 .. NumBlocks
Real == 3 .. NumBlocks
Inner == 4 .. NumBlocks

Succs == {<<>>} \cup {<<a>> : a \in Inner}
           \cup {p \in Inner \X Inner : p[1] < p[2]}

\* A list of the members of S, from the least to the greatest or the other way round.
Listed(S, reversed) ==
    LET up == SelectSeq([i \in MCBlocks |-> i], LAMBDA i : i \in S)
    IN  IF reversed THEN Reverse(up) ELSE up

GraphOf(s, more, reversed) ==
    [succ |-> [b \in MCBlocks |-> IF b = 1 THEN <<3>> ELSE IF b = 2 THEN <<>> ELSE s[b]],
     pred |-> [b \in MCBlocks |->
                 IF b = 2 THEN Listed({a \in Real : s[a] = <<>>} \cup more, FALSE)
                 ELSE Listed({a \in Real : b \in Range(s[a])}, reversed)]]

Reach(S, Nbr(_)) ==
    LET C[k \in 0 .. NumBlocks] ==
            IF k = 0 THEN S ELSE LET p == C[k - 1] IN p \cup UNION {Nbr(a) : a \in p}
    IN  C[NumBlocks]

MCGraphs ==
    {g \in {GraphOf(s, more, reversed) :
              s \in [Real -> Succs], more \in MoreExits, reversed \in BOOLEAN} :
        /\ Reach({3}, LAMBDA b : Range(g.succ[b])) = Real
        /\ Reach({2}, LAMBDA b : Range(g.pred[b])) = Real \cup {2}}

OneMore == {{}} \cup {{b} : b \in {4}}
=============================================================================
