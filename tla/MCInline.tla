------------------------------ MODULE MCInline ------------------------------
(***************************************************************************)
(* Instances of Inline: three functions, the first calling the others in   *)
(* several ways, with every body of Bodies2 and Bodies3; and every call    *)
(* graph of four functions, of which only the order is looked at.          *)
(***************************************************************************)
EXTENDS Inline

MCFunctions == 1 .. 4

Const(x, v) == S("const", x, v, 0, 0)
Copy(x, y) == S("copy", x, y, 0, 0)
Dec(x, y) == S("dec", x, y, 0, 0)
Emit(y) == S("emit", 0, y, 0, 0)
Br(y, l) == S("brtrue", 0, y, 0, l)
Jump(l) == S("goto", 0, 0, 0, l)
Label(l) == S("label", 0, 0, 0, l)
Ret(y) == S("return", 0, y, 0, 0)
Call(f, y, x) == S("call", x, y, f, 0)

\* Symbols 1 and 2, labels 1 and 2.
LeafBodies == {
  <<Ret(1)>>,
  <<Const(2, 2), Br(1, 1), Ret(2), Label(1), Ret(1)>>,
  <<Br(1, 1), Ret(1), Label(1), Emit(1)>>,
  <<Copy(2, 1), Label(1), Br(2, 2), Ret(2), Label(2), Emit(2), Dec(2, 2), Jump(1)>> }

Calling(f) == {
  <<Call(f, 1, 2), Ret(2)>>,
  <<Dec(2, 1), Call(f, 2, 2), Label(1), Emit(2), Call(f, 1, 0)>> }

\* Recursion on a decreasing argument.
Recursive(f) == {
  <<Br(1, 1), Ret(1), Label(1), Emit(1), Dec(2, 1), Call(f, 2, 2), Ret(2)>> }

Bodies2 == LeafBodies \cup Calling(3) \cup Recursive(2) \cup Recursive(3)
Bodies3 == LeafBodies \cup {<<>>} \cup Recursive(3) \cup Recursive(2)

MainBodies == {
  <<Call(2, 1, 2), Emit(2), Call(3, 2, 1), Label(1), Emit(1), Call(2, 2, 2), Ret(2)>>,
  <<Copy(2, 1), Label(1), Call(3, 2, 0), Dec(2, 2), Br(2, 1), Call(2, 1, 1), Emit(1)>> }

Prefers == {(2 :> {} @@ 3 :> {}), (2 :> {1} @@ 3 :> {}), (2 :> {} @@ 3 :> {2}), (3 :> {})}

RunPrograms ==
  {[body |-> <<m, b2, b3, <<>>>>, symbols |-> <<2, 2, 2, 1>>, labels |-> <<2, 2, 2, 0>>,
    prefer |-> p, level |-> v, arg |-> a, runs |-> TRUE] :
      m \in MainBodies, b2 \in Bodies2, b3 \in Bodies3, p \in Prefers,
      v \in {0, 1}, a \in {1, 2}}

\* Bodies of calls only, each function calling what the graph says.
CallsOf(S1) == LET c == InOrder(S1, 4) IN [i \in DOMAIN c |-> Call(c[i], 1, 0)]

\* A function that calls itself is no different from one that does not, unless it
\* has no other caller: only function 1 does.
Graphs == {<<c1, c2, c3, c4>> : c1 \in SUBSET MCFunctions, c2 \in SUBSET {1, 3, 4},
                                c3 \in SUBSET {1, 2, 4}, c4 \in SUBSET {1, 2, 3}}

GraphPrograms ==
  {[body |-> [f \in MCFunctions |-> CallsOf(g[f])], symbols |-> <<1, 1, 1, 1>>,
    labels |-> <<0, 0, 0, 0>>, prefer |-> <<>>, level |-> 0, arg |-> 1, runs |-> FALSE] :
      g \in Graphs}

\* 2 and 3 call each other, and 3 calls a leaf: what comes into 2 has that call.
CyclePrograms ==
  {[body |-> <<m, <<Br(1, 1), Ret(1), Label(1), Dec(2, 1), Call(3, 2, 2), Ret(2)>>,
               <<Call(4, 1, 1), Call(2, 1, 2), Ret(2)>>, <<Emit(1)>>>>,
    symbols |-> <<2, 2, 2, 1>>, labels |-> <<2, 1, 0, 0>>,
    prefer |-> p, level |-> v, arg |-> a, runs |-> TRUE] :
      m \in MainBodies, p \in {(3 :> {} @@ 4 :> {}), (2 :> {} @@ 3 :> {} @@ 4 :> {})},
      v \in {0, 1}, a \in {1, 2}}

MCPrograms == RunPrograms \cup CyclePrograms \cup GraphPrograms
=============================================================================
