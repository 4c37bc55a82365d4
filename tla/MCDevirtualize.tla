--------------------------- MODULE MCDevirtualize ---------------------------
(***************************************************************************)
(* Instances of Devirtualize: hierarchies of three classes and two         *)
(* interfaces with one short program, and programs of every kind over a    *)
(* class O and its subclass A.  As the front ends do, a program sets       *)
(* static fields from locals only.                                         *)
(***************************************************************************)
EXTENDS Devirtualize, CallTargets

CONSTANTS Bodies, Families

Orders == {<<"A", "B", "I", "J", "O">>, <<"O", "J", "I", "B", "A">>}
Declared == {None, "concrete", "abstract"}

\* B extends A or O, J extends I or nothing, and X is not in the module.
Rich == {
  [order |-> o, class |-> {"A", "B", "O"},
   super |-> [k \in Range(o) |->
                CASE k = "A" -> "O" [] k = "B" -> sb [] OTHER -> None],
   interfaces |-> [k \in Range(o) |->
                     CASE k = "A" -> ia [] k = "B" -> ib [] k = "J" -> ij [] OTHER -> {}],
   declares |-> [A |-> d[1], B |-> d[2], I |-> d[3], J |-> d[4], O |-> d[5]]] :
     o \in Orders, sb \in {"A", "O"}, ia \in {{"I"}, {"I", "J"}},
     ib \in {{}, {"J"}, {"X"}}, ij \in {{}, {"I"}},
     d \in {d \in [1 .. 5 -> Declared] : "abstract" \notin {d[1], d[5]}}}

Simple == [order |-> <<"A", "O">>, class |-> {"A", "O"},
           super |-> [A |-> "O", O |-> None], interfaces |-> [A |-> {}, O |-> {}],
           declares |-> [A |-> "concrete", O |-> "concrete"]]

MCHierarchies == {Simple} \cup (IF "rich" \in Families THEN Rich ELSE {})

S(op, x, y, c) == [op |-> op, x |-> x, y |-> y, c |-> c]
New(x, c) == S("gcmalloc", x, None, c)
Dread(x, y) == S("dread", x, y, None)
Retype(x, y) == S("retype", x, y, None)
Iread(x) == S("iread", x, None, None)
IreadOther(x) == S("ireadother", x, None, None)
Iassign(y) == S("iassign", None, y, None)
IassignOther == S("iassignother", None, None, None)
CallInit(y) == S("init", None, y, None)
Call(x, y) == S("call", x, y, None)
Vcall(x, y) == S("virtualcall", x, y, None)
Br == S("br", None, None, None)
Label == S("label", None, None, None)

Program(clinit, ctor1, ctor2, body) ==
  [clinit |-> clinit, ctor1 |-> ctor1, ctor2 |-> ctor2, body |-> body]

SetStatic == <<New("x", "A"), CallInit("x"), Dread("S", "x")>>
SetField(c) == <<New("x", c), Iassign("x")>>

ClinitStmts == {New("x", "A"), New("x", "O"), Dread("S", "x"), Dread("S", "y"), Retype("y", "x"),
                Dread("x", "y"), Call("x", "y"), CallInit("x"), Br, Label}
CtorStmts == {New("x", "A"), New("x", "O"), Iassign("x"), Iassign("y"), IassignOther,
              Retype("y", "x"), Call("x", "y"), Vcall("y", "x"), Br, Label}
BodyStmts == {Iread("x"), Dread("x", "S"), Dread("y", "x"), Dread("G", "x"), Dread("x", "G"),
              IreadOther("x"), New("y", "O"), Call("x", "y"), Call(None, "x"), Vcall("x", "y"),
              Br, Label}

Blocks(stmts) == [1 .. 3 -> stmts]
UseBoth == <<Iread("x"), Vcall(None, "x"), Dread("y", "S"), Vcall(None, "y")>>

SimplePrograms ==
  {Program(i, SetField("A"), <<>>, UseBoth) :
     i \in {<<New("x", "A")>> \o b : b \in Blocks(ClinitStmts)}}
  \cup {Program(<<>>, <<New("x", "A")>> \o b, c, UseBoth) :
          b \in Blocks(CtorStmts), c \in {SetField("A"), SetField("O")}}
  \cup {Program(SetStatic, SetField("A"), <<>>, <<New("x", "O")>> \o b \o <<Vcall(None, r)>>) :
          b \in Bodies, r \in {"x", "y"}}

RichPrograms ==
  {Program(<<>>, SetField(c), <<>>, <<Iread("x"), Vcall(None, "x")>>) : c \in {"A", "B"}}

MCProgramsOf(h) == IF h = Simple THEN SimplePrograms ELSE RichPrograms

AllBodies == Blocks(BodyStmts)
BothFamilies == {"rich"}

\* The method keeps x in a local that had the type of the final field.
OtherFieldBodies == {<<Iread("x"), Br, IreadOther("x")>>}
NoFamilies == {}
=============================================================================
