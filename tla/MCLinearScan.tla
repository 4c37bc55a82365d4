---------------------------- MODULE MCLinearScan ----------------------------
(***************************************************************************)
(* Instances of LinearScan: programs of four blocks and three virtual      *)
(* registers for three machine registers, one of each kind.  A row, a      *)
(* diamond, an if without else, one whose branch lies after the join, a    *)
(* loop that is tested first, and one that is tested last.                 *)
(*                                                                         *)
(* As the instruction selection leaves them: a call ends its block, its    *)
(* result is taken at the start of the next, a parameter register lives    *)
(* over no other edge, no value is read before it is written, and a block  *)
(* that closes a loop or has two successors ends in a branch.              *)
(***************************************************************************)
EXTENDS LinearScan

MCBlocks == 1 .. 4
x == 129
y == 130
z == 161    \* shares a bit of reg_used_in_bb with x
MCVRegs == {x, y, z}
R0 == 1
MCSpillRegs == <<17, 18>>

I(op, def, uses) == [op |-> op, def |-> def, uses |-> uses]
Mov(v, u) == I("op", v, <<u>>)
Add(v, a, b) == I("op", v, <<a, b>>)
Zero(v) == I("zero", v, <<>>)
Call == I("call", 0, <<R0>>)
Ret == I("ret", 0, <<R0>>)
Br(v) == I("br", 0, <<v>>)
Goto == I("br", 0, <<>>)

First == {<<Mov(x, R0), Mov(y, x)>>,
          <<Mov(x, R0), Zero(y), Mov(z, x)>>,
          <<Zero(x), Mov(y, R0), Add(z, x, y)>>,
          <<Mov(x, R0), Zero(y), Mov(R0, x), Call>>}
Middle == {<<>>,
           <<Add(x, x, y)>>,
           <<Mov(z, x), Add(y, z, x)>>,
           <<Zero(z), Add(y, y, z)>>,
           <<Mov(R0, y), Call>>,
           <<Mov(z, x), Mov(R0, z), Call>>,
           <<Mov(z, R0), Add(x, z, y)>>}
Final == {<<Add(y, x, y), Mov(R0, y), Ret>>,
          <<Mov(R0, z), Ret>>,
          <<Mov(z, R0), Add(z, z, x), Mov(R0, z), Ret>>}

Shapes == {<<<<2>>, <<3>>, <<4>>, <<>>>>,
           <<<<2, 3>>, <<4>>, <<4>>, <<>>>>,
           <<<<2, 4>>, <<3>>, <<4>>, <<>>>>,
           <<<<2, 3>>, <<4>>, <<2>>, <<>>>>,
           <<<<2>>, <<3, 4>>, <<2>>, <<>>>>,
           <<<<2>>, <<3>>, <<4, 2>>, <<>>>>}

\* The branch at the end of block b.
Closed(s, b, c) ==
    IF Len(s[b]) = 2 THEN c \o <<Br(x)>>
    ELSE IF \E t \in Range(s[b]) : t <= b THEN c \o <<Goto>>
    ELSE c

EndsInCall(c) == c # <<>> /\ Last(c).op = "call"

Programs4 ==
    {[succ |-> s, code |-> <<Closed(s, 1, a), Closed(s, 2, b), Closed(s, 3, c), d>>] :
        s \in Shapes, a \in First, b \in Middle, c \in Middle, d \in Final}

\* The registers that may not have been written when block b of p starts.
LiveIn(p) ==
    LET Before(c, r) ==    \* r is read before it is written
            \E i \in DOMAIN c : /\ r \in Range(c[i].uses)
                                /\ \A j \in 1 .. i - 1 : c[j].def # r /\ ~(r = R0 /\ c[j].op = "call")
        Writes(c, r) == \E i \in DOMAIN c : c[i].def = r \/ (r = R0 /\ c[i].op = "call")
        L[k \in 0 .. 4] ==
            IF k = 0 THEN [b \in MCBlocks |-> {r \in MCVRegs \cup {R0} : Before(p.code[b], r)}]
            ELSE LET q == L[k - 1] IN
                 [b \in MCBlocks |->
                    q[b] \cup {r \in UNION {q[t] : t \in Range(p.succ[b])} : ~Writes(p.code[b], r)}]
    IN  L[4]

Legal(p) ==
    LET in == LiveIn(p) IN
    /\ in[1] \subseteq {R0}
    /\ \A b \in MCBlocks : \A i \in DOMAIN p.code[b] :
          p.code[b][i].op = "call" => i = Len(p.code[b])
    /\ \A b, t \in MCBlocks :
          t \in Range(p.succ[b]) /\ R0 \in in[t] =>
            /\ EndsInCall(p.code[b])
            /\ p.code[t] # <<>> /\ R0 \in Range(p.code[t][1].uses)

MCPrograms == {p \in Programs4 : Legal(p)}

(* A value that is written once more by the instruction that reads it last, in a hole of x.  The
   other programs have no such instruction: what they write is read, or comes to its end at once. *)
v == 132
w == 133
z1 == 134
RewriteVRegs == {x, y, z1, v, w}
RewriteBlocks == {1}
RewritePrograms ==
    {[succ |-> <<<<>>>>,
      code |-> <<<<Mov(x, R0), Mov(y, x), Mov(z1, y), Mov(v, z1), Mov(v, v), Mov(w, y),
                   Mov(y, z1), Mov(x, y), Add(x, x, w), Add(x, x, z1), Mov(R0, x), Ret>>>>]}
=============================================================================
