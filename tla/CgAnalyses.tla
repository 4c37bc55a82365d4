----------------------------- MODULE CgAnalyses -----------------------------
(***************************************************************************)
(* The two analyses of machine code that register allocation asks for:     *)
(* liveness (live_analysis.cpp, aarch64_live_analysis.cpp) and the edges   *)
(* that close a loop (LoopFinder::FindBackEdge in loop.cpp).               *)
(*                                                                         *)
(* A program is [succ, code]: for each block its successors and its        *)
(* instructions [op, def, uses].  Registers are numbers as in the code:    *)
(* 0 is none, R0 is 1, and a number above kMaxRegNum is a virtual          *)
(* register.  Blocks are numbered in the order of the list, 1 is first.    *)
(* There are no exception edges here and every block can be reached.       *)
(***************************************************************************)
EXTENDS Integers, Sequences, FiniteSets, SequencesExt

CONSTANTS
    Blocks,      \* 1 .. n
    Programs,
    ParamRegs    \* the registers a call takes its arguments and leaves its result in

kMaxRegNum == 100

(* The blocks are numbered, and a program has a sequence of successors and one of
   instructions for each; from the first block every other is reached. *)
Instruction == [op : STRING, def : Nat, uses : Seq(Nat)]

ASSUME CgAnalysesAssumption ==
    /\ IsFiniteSet(Blocks) /\ Blocks = 1 .. Cardinality(Blocks) /\ 1 \in Blocks
    /\ \A p \in Programs :
         /\ p.succ \in [Blocks -> Seq(Blocks)]
         /\ p.code \in [Blocks -> Seq(Instruction)]
         /\ \A S \in SUBSET Blocks :
              1 \in S /\ (\A b \in S : Range(p.succ[b]) \subseteq S) => S = Blocks

VARIABLES
    prog,
    phase,
    at,                    \* the block at which the phase is
    livein, liveout,       \* livein_regno, liveout_regno
    livein_change,
    insertuse,
    haschange,
    dfs_bbs, visited, level, parent,   \* of LoopFinder; parent is its sorted_bbs
    loop_succs

liveVars == <<livein, liveout, livein_change, insertuse, haschange>>
loopVars == <<dfs_bbs, visited, level, parent, loop_succs>>

Succs(b) == Range(prog.succ[b])
Preds(b) == {p \in Blocks : b \in Succs(p)}
Code(b) == prog.code[b]

----------------------------------------------------------------------------
(* Liveness. *)

Defs(insn) == IF insn.op = "call" THEN ParamRegs ELSE {insn.def} \ {0}

\* use_regno and def_regno, collected from the last instruction to the first.
DefUse(b) ==
    LET c == Code(b)
        F[i \in 1 .. Len(c) + 1] ==
            IF i = Len(c) + 1 THEN [use |-> {}, def |-> {}]
            ELSE LET after == F[i + 1] IN
                 [use |-> (after.use \ Defs(c[i])) \cup Range(c[i].uses),
                  def |-> (after.def \cup Defs(c[i])) \ Range(c[i].uses)]
    IN  F[1]

\* Mutant: a change in the last round is not seen.
ComputeBBLivenessOnce(b) ==
    LET new  == UNION {livein[s] : s \in {s \in Succs(b) : ~insertuse[s]}}
        out  == liveout[b] \cup new
        du   == DefUse(b)
        in   == (livein[b] \cup du.use \cup out) \ du.def
    IN  /\ liveout' = [liveout EXCEPT ![b] = out]
        /\ livein' = [livein EXCEPT ![b] = in]
        /\ insertuse' = [insertuse EXCEPT ![b] = TRUE]
        /\ livein_change' = [livein_change EXCEPT ![b] = in # livein[b]]
        /\ haschange' = (haschange \/ in # livein[b])

\* A successor that did not change in its last visit is passed over.
ComputeBBLiveness(b) ==
    LET new  == UNION {livein[s] : s \in {s \in Succs(b) : livein_change[s]}}
        out  == liveout[b] \cup new
        du   == DefUse(b)
        in   == IF out # liveout[b] \/ ~insertuse[b]
                THEN (livein[b] \cup out \cup (IF insertuse[b] THEN {} ELSE du.use)) \ du.def
                ELSE livein[b]
        more == Cardinality(in) > Cardinality(livein[b])
    IN  /\ liveout' = [liveout EXCEPT ![b] = out]
        /\ livein' = [livein EXCEPT ![b] = in]
        /\ insertuse' = [insertuse EXCEPT ![b] = TRUE]
        /\ livein_change' = [livein_change EXCEPT ![b] = more]
        /\ haschange' = (haschange \/ more)

\* One block of the loop over the blocks, last to first.
AnalysisLive ==
    /\ phase = "live" /\ at > 0
    /\ ComputeBBLiveness(at)
    /\ at' = at - 1
    /\ UNCHANGED <<prog, phase, loopVars>>

\* do ... while (haschange)
NextIteration ==
    /\ phase = "live" /\ at = 0
    /\ IF haschange
       THEN /\ at' = Cardinality(Blocks) /\ haschange' = FALSE
            /\ UNCHANGED phase
       ELSE /\ phase' = "loop" /\ at' = 1
            /\ UNCHANGED haschange
    /\ UNCHANGED <<prog, livein, liveout, livein_change, insertuse, loopVars>>

----------------------------------------------------------------------------
(* The edges that close a loop: a depth-first search with a stack, in which a
   block has a level while it is on the path from the first block. *)

\* Mutant: only the block itself leaves the path.
ItselfBelow(b, stop) == {b}

\* The blocks from b up its parents, as far as below the block stop.
PathBelow(b, stop) ==
    LET Up[k \in 0 .. Cardinality(Blocks)] ==
            IF k = 0 THEN {b}
            ELSE Up[k - 1] \cup ({parent[q] : q \in Up[k - 1]} \ {0, stop})
    IN  Up[Cardinality(Blocks)]

\* The stack without the blocks on its top that have been visited.
Unvisited(stack, seen) ==
    LET tops == {i \in DOMAIN stack : stack[i] \notin seen}
    IN  IF tops = {} THEN <<>> ELSE SubSeq(stack, 1, CHOOSE i \in tops : \A j \in tops : j <= i)

\* The successors of b that have not been visited, from the last to the first.
Unseen(b, seen) ==
    LET S == prog.succ[b]
        U[i \in 0 .. Len(S)] ==
            IF i = 0 THEN <<>>
            ELSE IF S[i] \in seen THEN U[i - 1] ELSE <<S[i]>> \o U[i - 1]
    IN  U[Len(S)]

FindBackEdge ==
    /\ phase = "loop" /\ dfs_bbs # <<>>
    /\ LET bb    == Last(dfs_bbs)
           seen  == visited \cup {bb}
           mine  == IF level[bb] = 0 THEN 1 ELSE level[bb]
           new   == Unseen(bb, seen)
           stack == Unvisited(Front(dfs_bbs) \o new, seen)
           lv    == [b \in Blocks |-> IF b \in Range(new) THEN mine + 1
                                      ELSE IF b = bb THEN mine ELSE level[b]]
           par   == [b \in Blocks |-> IF b \in Range(new) THEN bb ELSE parent[b]]
           next  == parent[Last(stack)]
       IN  /\ visited' = seen
           /\ parent' = par
           /\ loop_succs' = [loop_succs EXCEPT ![bb] =
                {s \in Succs(bb) \cap seen : lv[s] # 0 /\ mine >= lv[s]}]
           /\ dfs_bbs' = stack
           /\ level' = IF new = <<>> /\ stack # <<>>
                       THEN LET gone == IF next = 0 THEN {bb} ELSE PathBelow(bb, next)
                            IN  [b \in Blocks |-> IF b \in gone THEN 0 ELSE lv[b]]
                       ELSE lv
    /\ UNCHANGED <<prog, phase, at, liveVars>>

AnalysesDone == phase = "loop" /\ dfs_bbs = <<>>

InitAnalyses ==
    /\ prog \in Programs
    /\ phase = "live" /\ at = Cardinality(Blocks) /\ haschange = FALSE
    /\ livein = [b \in Blocks |-> {}] /\ liveout = [b \in Blocks |-> {}]
    /\ livein_change = [b \in Blocks |-> TRUE] /\ insertuse = [b \in Blocks |-> FALSE]
    /\ dfs_bbs = <<1>> /\ visited = {} /\ level = [b \in Blocks |-> 0]
    /\ parent = [b \in Blocks |-> 0] /\ loop_succs = [b \in Blocks |-> {}]

NextAnalyses == AnalysisLive \/ NextIteration \/ FindBackEdge

----------------------------------------------------------------------------
(* Properties *)

\* The blocks from which S is reached over edges that leave the blocks of Through.
Reaching(S, Through) ==
    LET R[k \in 0 .. Cardinality(Blocks)] ==
            IF k = 0 THEN S
            ELSE LET r == R[k - 1] IN r \cup {b \in Through : Succs(b) \cap r # {}}
    IN  R[Cardinality(Blocks)]

LiveAtStart(r) ==
    Reaching({b \in Blocks : r \in DefUse(b).use},
             {b \in Blocks : \A insn \in Range(Code(b)) : r \notin Defs(insn)})

(* A register is live at the start of a block exactly if some path from there
   reads it before it is written: the flags with which the iteration passes over
   successors lose nothing. *)
LivenessIsExact ==
    phase # "live" =>
      /\ \A b \in Blocks : liveout[b] = UNION {livein[s] : s \in Succs(b)}
      /\ \A r \in (UNION Range(livein)) \cup UNION {DefUse(b).use : b \in Blocks} :
           {b \in Blocks : r \in livein[b]} = LiveAtStart(r)
=============================================================================
