---------------------------- MODULE Devirtualize ----------------------------
(***************************************************************************)
(* IPODevirtulize (callgraph.cpp): over the counted class hierarchy, find  *)
(* the final fields that only ever hold objects of one class, and bind the *)
(* virtual calls whose receiver has such a value; then run the program, to *)
(* compare each bound call with the method its receiver would have run.    *)
(*                                                                         *)
(* One class has the code: a static initialiser, two constructors and a    *)
(* method.  x and y are locals, S a static final field, G a static field   *)
(* that is not final, and f a final field of the class.  A statement is a  *)
(* record [op, x, y, c]: destination, source or receiver, and class.       *)
(***************************************************************************)
EXTENDS KlassHierarchy

CONSTANTS
    ProgramsOf(_)   \* the programs to look at over a hierarchy

VARIABLES
    prog,      \* [clinit, ctor1, ctor2, body]: sequences of statements
    pass, at,  \* the place in Passes, and in the statements of its function
    facts,     \* [type, listed]: inferredTyidx, inferredSymbols or gcmallocSymbols
    open,      \* which of "S", "f" are still in the lists of final fields
    fieldType, \* GetElemInferredTyidx of f
    bound,     \* the method that a virtual call was replaced by
    env, heap, \* the values of the symbols and of f, while the program runs
    unseen     \* the symbols whose value came from where DoDevirtual does not look

dvVars == <<prog, pass, at, facts, open, fieldType, bound, env, heap, unseen>>
allVars == <<khVars, phase, pos, dvVars>>

Locals == {"x", "y"}
Symbols == Locals \cup {"S", "G"}
Values == hier.class \cup {None}

Passes == << <<"search", "clinit">>, <<"search", "ctor1">>, <<"search", "ctor2">>,
             <<"devirt", "clinit">>, <<"devirt", "ctor1">>, <<"devirt", "ctor2">>,
             <<"devirt", "body">>,
             <<"run", "clinit">>, <<"run", "ctor1">>, <<"run", "ctor2">>, <<"run", "body">> >>

In(mode) == pass \in DOMAIN Passes /\ Passes[pass][1] = mode
Func == Passes[pass][2]
Stmt == prog[Func][at]
AtStmt == at <= Len(prog[Func])

----------------------------------------------------------------------------
\* The lists of symbols with an inferred type; only what is listed can be reset.
SetInferredType(f, s, c) == [type |-> [f.type EXCEPT ![s] = c], listed |-> f.listed \cup {s}]

ResetInferredType(f, s) ==
  IF s \in f.listed THEN [type |-> [f.type EXCEPT ![s] = None], listed |-> f.listed \ {s}] ELSE f

ResetAllInferred(f) ==
  [type |-> [s \in Symbols |-> IF s \in f.listed THEN None ELSE f.type[s]], listed |-> {}]

ResetBoth(f, s) == ResetInferredType(ResetInferredType(f, s.x), s.y)

\* Mutant: whatever the field was given before.
AgreesAlways(c, t) == c # None

\* What a value of inferred type c makes of a final field that has type t so far.
Agrees(c, t) == c # None /\ t \in {None, c}

Dassign == {"gcmalloc", "dread", "retype", "iread", "ireadother"}

\* A static final field is set from a symbol: it has that type, or never one again.
SearchStaticFinal(s) ==
  LET c == IF s.op = "dread" THEN facts.type[s.y] ELSE None IN
  /\ facts' = [facts EXCEPT !.type["S"] = IF Agrees(c, @) THEN c ELSE None]
  /\ open' = IF Agrees(c, facts.type["S"]) THEN open ELSE open \ {"S"}

ClinitFacts(s) ==
  CASE s.op = "gcmalloc" -> SetInferredType(facts, s.x, s.c)
    [] s.op \in Dassign \ {"gcmalloc"} -> ResetInferredType(facts, s.x)
    [] s.op = "init" -> facts
    [] s.op = "call" -> ResetBoth(facts, s)
    [] OTHER -> ResetAllInferred(facts)

SearchDefInClinit ==
  /\ In("search") /\ Func = "clinit" /\ AtStmt
  /\ IF Stmt.op \in Dassign /\ Stmt.x = "S" /\ "S" \in open
     THEN SearchStaticFinal(Stmt)
     ELSE facts' = ClinitFacts(Stmt) /\ open' = open
  /\ at' = at + 1
  /\ UNCHANGED <<prog, pass, fieldType, bound, env, heap, unseen>>

CtorFacts(s) ==
  CASE s.op = "gcmalloc" -> SetInferredType(facts, s.x, s.c)
    [] s.op = "retype" -> SetInferredType(facts, s.x, facts.type[s.y])
    [] s.op \in Dassign \ {"gcmalloc", "retype"} -> ResetInferredType(facts, s.x)
    [] s.op \in {"init", "iassign", "iassignother"} -> facts
    [] s.op = "call" -> ResetBoth(facts, s)
    [] OTHER -> ResetAllInferred(facts)

\* A constructor sets the final field.
SearchField(s) ==
  LET c == IF s.op = "iassign" THEN facts.type[s.y] ELSE None IN
  /\ fieldType' = IF Agrees(c, fieldType) THEN c ELSE None
  /\ open' = IF Agrees(c, fieldType) THEN open ELSE open \ {"f"}

SearchDefInMemberMethods ==
  /\ In("search") /\ Func # "clinit" /\ AtStmt
  /\ facts' = CtorFacts(Stmt)
  /\ IF Stmt.op \in {"iassign", "iassignother"} /\ "f" \in open
     THEN SearchField(Stmt) ELSE UNCHANGED <<fieldType, open>>
  /\ at' = at + 1
  /\ UNCHANGED <<prog, pass, bound, env, heap, unseen>>

----------------------------------------------------------------------------
\* The classes from k upwards that declare the method; the first one is taken.
Declarers(k) == {a \in SuperInterfaces(k) : hier.declares[a] # None}

\* The default method of the interfaces of k, the most specific one as they come.
DefaultMethod(k) ==
  LET list == SelectSeq(Ascending(implInterfaces[k]), LAMBDA i : hier.declares[i] = "concrete")
      Upto[i \in 0 .. Len(list)] ==
        IF i = 0 THEN None
        ELSE LET b == Upto[i-1]
             IN  IF b = None \/ IsSuperKlassForInterface(b, list[i]) THEN list[i] ELSE b
  IN  Upto[Len(list)]

MethodFor(k) ==
  IF Declarers(k) # {} THEN CHOOSE a \in Declarers(k) : Declarers(k) \subseteq SuperInterfaces(a)
  ELSE DefaultMethod(k)

\* Mutant: nothing is forgotten where paths join.
DevirtFactsPastLabels(s) ==
  CASE s.op \in {"br", "label", "ireadother"} -> facts
    [] s.op = "iread" /\ fieldType # None -> SetInferredType(facts, s.x, fieldType)
    [] s.op = "dread" /\ facts.type[s.y] # None ->
         SetInferredType(facts, s.x, facts.type[s.y])
    [] OTHER -> ResetBoth(facts, s)

DevirtFacts(s) ==
  CASE s.op = "dread" ->
         IF facts.type[s.y] # None THEN SetInferredType(facts, s.x, facts.type[s.y])
         ELSE ResetInferredType(facts, s.x)
    [] s.op = "iread" ->
         IF fieldType # None THEN SetInferredType(facts, s.x, fieldType)
         ELSE ResetInferredType(facts, s.x)
    [] s.op \in {"ireadother", "br"} -> facts
    [] s.op \in {"gcmalloc", "retype"} -> ResetInferredType(facts, s.x)
    [] s.op = "virtualcall" ->
         IF facts.type[s.y] # None THEN ResetBoth(facts, s) ELSE ResetInferredType(facts, s.y)
    [] s.op = "init" -> ResetInferredType(facts, s.y)
    [] s.op = "call" -> ResetBoth(facts, s)
    [] OTHER -> ResetAllInferred(facts)

Binds(s) == s.op = "virtualcall" /\ facts.type[s.y] # None

DoDevirtual ==
  /\ In("devirt") /\ AtStmt
  /\ Binds(Stmt) => MethodFor(facts.type[Stmt.y]) # None
  /\ facts' = DevirtFacts(Stmt)
  /\ bound' = IF Binds(Stmt) THEN [bound EXCEPT ![Func][at] = MethodFor(facts.type[Stmt.y])]
              ELSE bound
  /\ at' = at + 1
  /\ UNCHANGED <<prog, pass, open, fieldType, env, heap, unseen>>

\* The return at the end of every function resets what is listed.
EndOfFunction ==
  /\ In("search") \/ In("devirt")
  /\ ~AtStmt
  /\ facts' = ResetAllInferred(facts)
  /\ pass' = pass + 1 /\ at' = 1
  /\ UNCHANGED <<prog, open, fieldType, bound, env, heap, unseen>>

----------------------------------------------------------------------------
(* The program runs: what a call returns, and what is in another object's
   field, may be any object. *)

\* Where a value comes from that DoDevirtual does not reset its type for.
Unseen(s) ==
  CASE s.op \in {"dread", "retype"} ->
         IF s.y \in unseen THEN unseen \cup {s.x} ELSE unseen \ {s.x}
    [] s.op \in {"gcmalloc", "iread"} -> unseen \ {s.x}
    [] s.op = "ireadother" -> unseen \cup {s.x}
    [] s.op \in {"call", "init"} -> (unseen \ {s.x}) \cup {"G"}
    [] s.op = "virtualcall" ->
         (IF bound[Func][at] = None THEN unseen \cup ({s.x} \ {None}) ELSE unseen \ {s.x})
           \cup {"G"}
    [] OTHER -> unseen

Assign(s, v) == env' = (IF s.x = None THEN env ELSE [env EXCEPT ![s.x] = v])

\* A call changes its result, and the static field that is not final; so may a
\* constructor, which has no result.
CallEffect(s) ==
  \E r, g \in Values :
    /\ s.x = None => r = None
    /\ s.x = "G" => g = r
    /\ env' = [t \in Symbols |-> IF t = s.x THEN r ELSE IF t = "G" THEN g ELSE env[t]]

Effect(s) ==
  \/ s.op = "gcmalloc" /\ Assign(s, s.c) /\ heap' = heap
  \/ s.op \in {"dread", "retype"} /\ Assign(s, env[s.y]) /\ heap' = heap
  \/ s.op = "iread" /\ Assign(s, heap) /\ heap' = heap
  \/ s.op = "ireadother" /\ (\E v \in Values : Assign(s, v)) /\ heap' = heap
  \/ s.op = "iassign" /\ heap' = env[s.y] /\ env' = env
  \/ s.op = "iassignother" /\ heap' \in Values /\ env' = env
  \/ s.op \in {"call", "init"} /\ CallEffect(s) /\ heap' = heap
  \/ s.op = "virtualcall" /\ env[s.y] # None /\ CallEffect(s) /\ heap' = heap
  \/ s.op \in {"br", "label"} /\ UNCHANGED <<env, heap>>

Labels == {i \in DOMAIN prog[Func] : prog[Func][i].op = "label"}

Execute ==
  /\ In("run") /\ AtStmt
  /\ Effect(Stmt)
  /\ unseen' = Unseen(Stmt)
  /\ \/ at' = at + 1
     \/ Stmt.op = "br" /\ at' \in {i \in Labels : i > at}
  /\ UNCHANGED <<prog, pass, facts, open, fieldType, bound>>

\* The initialiser is followed by one of the constructors, and that by the method.
Return ==
  /\ In("run") /\ ~AtStmt
  /\ pass' \in CASE Func = "clinit" -> {pass + 1, pass + 2}
                 [] Func = "body" -> {pass + 1}
                 [] OTHER -> {Len(Passes)}
  /\ at' = 1
  /\ env' = [s \in Symbols |-> IF s \in Locals THEN None ELSE env[s]]
  /\ unseen' = unseen \ Locals
  /\ UNCHANGED <<prog, facts, open, fieldType, bound, heap>>

----------------------------------------------------------------------------
NoProgram == [f \in {"clinit", "ctor1", "ctor2", "body"} |-> <<>>]

\* The phase starts on what the hierarchy phase left.
DevirtualFinal ==
  /\ Counted
  /\ phase' = "devirtualize"
  /\ prog' \in ProgramsOf(hier)
  /\ bound' = [f \in DOMAIN prog' |-> [i \in DOMAIN prog'[f] |-> None]]
  /\ pass' = 1
  /\ UNCHANGED <<khVars, pos, at, facts, open, fieldType, env, heap, unseen>>

Init ==
  /\ KHInit
  /\ prog = NoProgram /\ bound = NoProgram
  /\ pass = 0 /\ at = 1
  /\ facts = [type |-> [s \in Symbols |-> None], listed |-> {}]
  /\ open = {"S", "f"} /\ fieldType = None
  /\ env = [s \in Symbols |-> None] /\ heap = None
  /\ unseen = {}

Next ==
  \/ KHNext /\ UNCHANGED dvVars
  \/ DevirtualFinal
  \/ /\ \/ SearchDefInClinit \/ SearchDefInMemberMethods
        \/ DoDevirtual \/ EndOfFunction \/ Execute \/ Return
     /\ UNCHANGED <<khVars, phase, pos>>

Spec == Init /\ [][Next]_allVars

----------------------------------------------------------------------------
(* Types are names of classes, and only symbols are listed. *)
TypeOK ==
  /\ KHTypeOK
  /\ facts.type \in [Symbols -> Values] /\ facts.listed \subseteq Symbols
  /\ fieldType \in Values /\ heap \in Values /\ env \in [Symbols -> Values]
  /\ open \subseteq {"S", "f"} /\ unseen \subseteq Symbols
  /\ pass \in 0 .. Len(Passes) + 1 /\ DOMAIN prog = DOMAIN bound

\* What a class runs, when all that decides it is in the module.
RunBy(c) == IF Complete(c) /\ ~Unlinked(c) THEN Dispatch(c) ELSE {}

(* The tmpMethod that DoDevirtual asserts is not null: when a class with the
   method is complete, some method is found, and it is the one Java runs. *)
MethodIsFound ==
  In("devirt") /\ AtStmt /\ Binds(Stmt) =>
    LET c == facts.type[Stmt.y] IN RunBy(c) # {} => MethodFor(c) \in RunBy(c)

(* A final field that is given a type holds an object of it, or null, once the
   initialiser and a constructor ran: whichever ran, and whatever it called. *)
FinalTypesAreRight ==
  /\ TypeOK
  /\ In("run") /\ Func = "body" =>
       /\ fieldType # None => heap \in {None, fieldType}
       /\ facts.type["S"] # None => env["S"] \in {None, facts.type["S"]}

RunsAsBound ==
  LET c == env[Stmt.y] IN c # None /\ RunBy(c) # {} => bound[Func][at] \in RunBy(c)

AtBound == In("run") /\ AtStmt /\ Stmt.op = "virtualcall" /\ bound[Func][at] # None

(* A bound call runs the method of its receiver, unless the receiver's value
   came by one of the three ways that DoDevirtual does not look at: a field of
   another class, the result of a call left virtual, or a static field that is
   not final after a call.  There is a method to bind it to. *)
SeenCallsAreRight == MethodIsFound /\ (AtBound /\ Stmt.y \notin unseen => RunsAsBound)

(* "Devirtualize vcall of final variable" (callgraph.cpp:1761): every call that
   was bound runs the method its receiver's class has. *)
BoundCallsAreRight == AtBound => RunsAsBound
=============================================================================
