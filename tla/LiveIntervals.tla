---------------------------- MODULE LiveIntervals ----------------------------
(***************************************************************************)
(* The first half of the linear-scan register allocator                    *)
(* (LSRALinearScanRegAllocator, aarch64_reg_alloc.cpp): the order of the   *)
(* blocks, the numbering of the instructions, the live interval of every   *)
(* virtual register with its ranges and holes, and the intervals that are  *)
(* spilled before allocation starts because too many overlap.              *)
(*                                                                         *)
(* A physical register that is written, or comes in with a block, has      *)
(* short intervals of its own, kept in a queue per parameter register.     *)
(***************************************************************************)
EXTENDS CgAnalyses

CONSTANTS
    VRegs,       \* the virtual registers of the programs
    OverlapNums, \* the values of CGOptions::overlapNum
    ManyPreds    \* the number of predecessors of SearchForStraightLineBBs, 5

IsVirtual(r) == r > kMaxRegNum

ASSUME VirtualRegisters ==
    /\ IsFiniteSet(VRegs) /\ VRegs \subseteq Nat /\ \A v \in VRegs : IsVirtual(v)
    /\ \A p \in Programs : \A b \in Blocks : \A insn \in Range(p.code[b]) :
         \A r \in {insn.def} \cup Range(insn.uses) : IsVirtual(r) => r \in VRegs

VARIABLES
    visited_bbs, sorted_bbs, worklist, sortedCnt, done,
    insns,       \* the instructions in order; an index is the id of the code
    first_id,    \* of each block that has instructions
    LI,          \* LI_
    queue,       \* int_param_queue
    spilled      \* the intervals whose stk_slot is SPILLED

orderVars == <<visited_bbs, sorted_bbs, worklist, sortedCnt, done>>
intervalVars == <<insns, first_id, LI, queue, spilled>>

----------------------------------------------------------------------------
(* The order of the blocks. *)

AllPredBBVisited(b, seen) == \A p \in Preds(b) : b \in loop_succs[p] \/ p \in seen

\* The straight line of unvisited blocks after b; the blocks from b on.
MarkStraightLineBBInBFS(b, seen) ==
    LET L[k \in 0 .. Cardinality(Blocks)] ==
            IF k = 0 THEN <<b>>
            ELSE LET p == L[k - 1]
                     s == prog.succ[Last(p)]
                 IN  IF Len(s) = 1 /\ s[1] \notin seen \cup Range(p) /\ Cardinality(Preds(s[1])) = 1
                     THEN Append(p, s[1])
                     ELSE p
    IN  L[Cardinality(Blocks)]

\* The branch of an `if' that comes directly after it, when the other is a join of many.
SearchForStraightLineBBs(b, seen) ==
    {c \in Succs(b) \ seen :
        /\ Len(prog.succ[b]) = 2 /\ Len(prog.succ[c]) = 1
        /\ Cardinality(Preds(c)) = 1
        /\ \E o \in Succs(b) \ {c} : Cardinality(Preds(o)) > ManyPreds}

\* The successors of b to search next; one pushed counts as visited for those after it.
PushedSuccs(b, seen) ==
    LET S == prog.succ[b]
        P[i \in 0 .. Len(S)] ==
            IF i = 0 THEN <<>>
            ELSE LET now == seen \cup Range(P[i - 1]) IN
                 IF S[i] \notin now /\ AllPredBBVisited(S[i], now)
                 THEN Append(P[i - 1], S[i]) ELSE P[i - 1]
    IN  P[Len(S)]

\* One round of the loop of BFS.
BFSStep ==
    /\ phase = "order" /\ worklist # <<>>
    /\ LET line   == MarkStraightLineBBInBFS(Head(worklist), visited_bbs)
           seen1  == visited_bbs \cup Range(line)
           cand   == SearchForStraightLineBBs(Last(line), seen1)
           more   == IF cand = {} THEN <<>>
                     ELSE MarkStraightLineBBInBFS(CHOOSE c \in cand : TRUE, seen1)
           run    == line \o more
           seen2  == seen1 \cup Range(more)
           pushed == PushedSuccs(Last(run), seen2)
       IN  /\ sorted_bbs' = sorted_bbs \o run
           /\ worklist' = Tail(worklist) \o pushed
           /\ visited_bbs' = seen2 \cup Range(pushed)
    /\ UNCHANGED <<prog, phase, at, liveVars, loopVars, sortedCnt, done, intervalVars>>

\* The sweep over the list of blocks goes on to the next at which a search starts.
StartBFS ==
    LET ready == {b \in Blocks \ visited_bbs : b >= at /\ AllPredBBVisited(b, visited_bbs)}
    IN  /\ phase = "order" /\ worklist = <<>> /\ ready # {}
        /\ LET b == CHOOSE b \in ready : \A c \in ready : b <= c
           IN  /\ worklist' = <<b>>
               /\ visited_bbs' = visited_bbs \cup {b}
               /\ at' = b + 1
        /\ UNCHANGED <<prog, phase, liveVars, loopVars, sorted_bbs, sortedCnt, done,
                       intervalVars>>

(* The end of a sweep.  Two sweeps in a row without progress end the compiler;
   a sweep that found every block visited is the last. *)
NextSweep ==
    /\ phase = "order" /\ worklist = <<>>
    /\ \A b \in Blocks \ visited_bbs : b >= at => ~AllPredBBVisited(b, visited_bbs)
    /\ sortedCnt' = Len(sorted_bbs)
    /\ done' = (done \/ sortedCnt = Len(sorted_bbs))
    /\ phase' = IF sortedCnt # Len(sorted_bbs) THEN "order"
                ELSE IF done THEN "exit"
                ELSE IF visited_bbs = Blocks THEN "intervals" ELSE "order"
    /\ at' = 1
    /\ UNCHANGED <<prog, liveVars, loopVars, visited_bbs, sorted_bbs, worklist, intervalVars>>

----------------------------------------------------------------------------
(* Live intervals.  No interval has first_def 0. *)

NoInterval == [first_def |-> 0, last_use |-> 0, ref_count |-> 0, result_count |-> 0,
               multi_use_in_bb |-> FALSE, holes |-> {}]

IsParam(r) == r \in ParamRegs

(* reg_used_in_bb, one bit of a 64-bit word for each register, is tested and set with
   1 << bit, an int: a shift by more than 31 is undefined, and is taken modulo 32 by
   the machines the compiler runs on. *)
UsedInBB(used, r) == \E s \in used : s \div 64 = r \div 64 /\ s % 32 = r % 32

\* SetupLiveInterval; before: the register was seen earlier in the block.
UseInterval(li, n, before) ==
    [li EXCEPT !.last_use = n, !.ref_count = @ + 1,
               !.multi_use_in_bb = @ \/ before]

DefInterval(li, n, before) ==
    [li EXCEPT !.first_def = IF @ = 0 THEN n ELSE @,
               !.last_use = IF li.first_def = 0 \/ @ < n THEN n + 1 ELSE @,
               !.ref_count = @ + 1, !.result_count = @ + 1,
               !.multi_use_in_bb = @ \/ before]

(* An operand of instruction n, virtual or (RecordPhysRegs) physical; st is [LI, queue, used],
   used the virtual registers seen in the block. *)
SetupUse(st, u, n) ==
    IF IsVirtual(u)
    THEN [st EXCEPT !.LI[u] = UseInterval(@, n, UsedInBB(st.used, u)), !.used = @ \cup {u}]
    ELSE [st EXCEPT !.queue[u][Len(st.queue[u])].phys_use = n]

SetupDef(st, d, n) ==
    IF IsVirtual(d)
    THEN [st EXCEPT !.LI[d] = DefInterval(@, n, UsedInBB(st.used, d)), !.used = @ \cup {d}]
    ELSE IF IsParam(d)
    THEN [st EXCEPT !.queue[d] = Append(@, [regno |-> d, first_def |-> n, phys_use |-> n])]
    ELSE st

\* The operands from the last to the first, which is the destination.
SetupLiveInterval(st, insn, n) ==
    LET u == insn.uses
        U[i \in 0 .. Len(u)] ==
            IF i = 0 THEN st ELSE LET s == U[i - 1] IN SetupUse(s, u[Len(u) + 1 - i], n)
    IN  SetupDef(U[Len(u)], insn.def, n)

\* One block of the loop of ComputeLiveInterval.
ComputeLiveInterval ==
    /\ phase = "intervals" /\ at <= Len(sorted_bbs)
    /\ LET b    == sorted_bbs[at]
           c    == Code(b)
           n0   == Len(insns)
           come == [r \in ParamRegs |->
                      IF c # <<>> /\ r \in livein[b]
                      THEN Append(queue[r], [regno |-> r, first_def |-> n0 + 1, phys_use |-> n0 + 1])
                      ELSE queue[r]]
           S[i \in 0 .. Len(c)] ==
               IF i = 0 THEN [LI |-> LI, queue |-> come, used |-> {}]
               ELSE LET s == S[i - 1] IN SetupLiveInterval(s, c[i], n0 + i)
           st   == S[Len(c)]
           here == {r \in ParamRegs : /\ c # <<>> /\ r \in liveout[b] /\ st.queue[r] # <<>>
                                      /\ Last(st.queue[r]).first_def > n0}
           code == [i \in 1 .. Len(c) |->
                      [bb |-> b, op |-> c[i].op, def |-> c[i].def, uses |-> c[i].uses]]
       IN  /\ insns' = insns \o code
           /\ first_id' = [first_id EXCEPT ![b] = n0 + 1]
           /\ LI' = [v \in VRegs |->
                       IF v \in liveout[b] /\ c # <<>> /\ st.LI[v].first_def # 0
                       THEN [st.LI[v] EXCEPT !.last_use = n0 + Len(c)] ELSE st.LI[v]]
           /\ queue' = [r \in ParamRegs |->
                          IF r \in here
                          THEN Append(Front(st.queue[r]),
                                      [Last(st.queue[r]) EXCEPT !.phys_use = n0 + Len(c) + 1])
                          ELSE st.queue[r]]
    /\ at' = at + 1
    /\ UNCHANGED <<prog, phase, liveVars, loopVars, orderVars, spilled>>

----------------------------------------------------------------------------
(* Intervals to spill before allocation. *)

\* The order of the set active (ActiveCmp).
ActiveBefore(v, w) ==
    \/ LI[v].last_use < LI[w].last_use
    \/ LI[v].last_use = LI[w].last_use /\ LI[v].first_def <= LI[w].first_def

Span(v) == IF LI[v].last_use > LI[v].first_def THEN LI[v].last_use - LI[v].first_def
           ELSE LI[v].first_def - LI[v].last_use

\* priority = ref_count / Span
LowerPriority(v, w) == LI[v].ref_count * Span(w) < LI[w].ref_count * Span(v)

\* The first in the order of active among those of the lowest priority, below 100.
FindLowestPrioInActive(act) ==
    LET low == {v \in act : /\ LI[v].ref_count < 100 * Span(v)
                            /\ \A w \in act : ~LowerPriority(w, v)}
    IN  {v \in low : \A w \in low : ActiveBefore(v, w)}

\* [active, spilled] after instruction n
LiveIntervalAnalysisAt(st, n, overlapNum) ==
    LET d    == insns[n].def
        kept == {v \in st.active : LI[v].last_use > n}
        act  == IF IsVirtual(d) /\ LI[d].first_def = n THEN kept \cup {d} ELSE kept
        Cut[k \in 0 .. Cardinality(VRegs)] ==
            IF k = 0 THEN act
            ELSE LET a == Cut[k - 1] IN
                 IF Cardinality(a) > overlapNum THEN a \ FindLowestPrioInActive(a) ELSE a
        left == Cut[Cardinality(VRegs)]
    IN  [active |-> left, spilled |-> st.spilled \cup (act \ left)]

PreSpilled(overlapNum) ==
    LET A[n \in 0 .. Len(insns)] ==
            IF n = 0 THEN [active |-> {}, spilled |-> {}]
            ELSE LET a == A[n - 1] IN LiveIntervalAnalysisAt(a, n, overlapNum)
    IN  A[Len(insns)].spilled

----------------------------------------------------------------------------
(* Ranges, from the last instruction to the first, and the holes between them. *)

AddRange(r, from, to) ==
    IF r = <<>> THEN <<<<from, to>>>>
    ELSE LET h == Head(r) IN
         IF to < h[1] THEN <<<<from, to>>>> \o r
         ELSE IF from < h[1] THEN <<<<from, IF to >= h[2] THEN to ELSE h[2]>>>> \o Tail(r)
         ELSE r

Ranges(v) ==
    LET R[k \in 0 .. Len(insns)] ==
            IF k = 0 THEN <<>>
            ELSE LET n    == Len(insns) + 1 - k
                     b    == insns[n].bb
                     p    == R[k - 1]
                     last == n = Len(insns) \/ insns[n + 1].bb # b
                     out  == IF last /\ v \in liveout[b] THEN AddRange(p, first_id[b], n + 1) ELSE p
                     def  == IF insns[n].def = v /\ out # <<>>
                             THEN <<<<n, Head(out)[2]>>>> \o Tail(out) ELSE out
                 IN  IF v \in Range(insns[n].uses) THEN AddRange(def, first_id[b], n) ELSE def
    IN  R[Len(insns)]

\* The holes of more than two instructions.
Holes(v) ==
    LET r == Ranges(v)
        h == {<<r[i][2], r[i + 1][1]>> : i \in 1 .. Len(r) - 1}
    IN  {p \in h : p[2] - p[1] > 2}

\* LiveIntervalAnalysis and BuildIntervalRanges.
BuildIntervalRanges ==
    /\ phase = "intervals" /\ at > Len(sorted_bbs)
    /\ \E overlapNum \in OverlapNums : spilled' = PreSpilled(overlapNum)
    /\ LI' = [v \in VRegs |-> [LI[v] EXCEPT !.holes = Holes(v)]]
    /\ phase' = "pool" /\ at' = 1
    /\ UNCHANGED <<prog, liveVars, loopVars, orderVars, insns, first_id, queue>>

StartOrder ==
    /\ AnalysesDone
    /\ phase' = "order" /\ at' = 1
    /\ UNCHANGED <<prog, liveVars, loopVars, orderVars, intervalVars>>

InitIntervals ==
    /\ InitAnalyses
    /\ visited_bbs = {} /\ sorted_bbs = <<>> /\ worklist = <<>> /\ sortedCnt = 0 /\ done = FALSE
    /\ insns = <<>> /\ first_id = [b \in Blocks |-> 0]
    /\ LI = [v \in VRegs |-> NoInterval] /\ queue = [r \in ParamRegs |-> <<>>]
    /\ spilled = {}

NextIntervals ==
    \/ NextAnalyses /\ UNCHANGED <<orderVars, intervalVars>>
    \/ StartOrder \/ StartBFS \/ BFSStep \/ NextSweep
    \/ ComputeLiveInterval \/ BuildIntervalRanges

----------------------------------------------------------------------------
(* Properties *)

(* The blocks are put in an order in which a block comes after all blocks it can be
   reached from, those that are on a cycle with it over an edge that closes a loop
   excepted: no value is used before it is defined, and the search never gives up. *)
BlocksAreOrdered ==
    /\ phase # "exit"
    /\ phase = "intervals" =>
         /\ Len(sorted_bbs) = Cardinality(Blocks) /\ Range(sorted_bbs) = Blocks
         /\ \A i, j \in DOMAIN sorted_bbs :
              sorted_bbs[j] \in Succs(sorted_bbs[i]) =>
                IF sorted_bbs[j] \in loop_succs[sorted_bbs[i]]
                THEN sorted_bbs[j] \in Reaching({sorted_bbs[i]}, Blocks)
                ELSE i < j
=============================================================================
