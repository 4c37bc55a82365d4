----------------------------- MODULE LinearScan -----------------------------
(***************************************************************************)
(* The second half of the linear-scan register allocator                   *)
(* (aarch64_reg_alloc.cpp): the scan, instruction by instruction, that     *)
(* gives every interval a register or spills it, and FinalizeRegisters,    *)
(* which rewrites the instructions and inserts the saves and reloads.      *)
(*                                                                         *)
(* The emitted code is then run symbolically.  A place is a register or a  *)
(* spill slot (a negative number); holds relates a place to the virtual    *)
(* and parameter registers of the source whose present value it has.       *)
(*                                                                         *)
(* Integer registers only; no catch or cleanup blocks.                     *)
(***************************************************************************)
EXTENDS LiveIntervals

CONSTANTS
    CallerRegs, CalleeRegs,   \* besides ParamRegs, the registers to allocate
    SpillRegs,                \* int_spill_reg_set
    Modes,                    \* "normal", "fast" (fast_alloc), "all" (spill_all)
    doCalleeToSpill           \* BOOLEAN in -O2

ASSUME RegistersAreApart ==
    /\ ParamRegs \cup CallerRegs \cup CalleeRegs \subseteq 1 .. kMaxRegNum
    /\ ParamRegs \cap CallerRegs = {} /\ ParamRegs \cap CalleeRegs = {}
    /\ CallerRegs \cap CalleeRegs = {}
    /\ \A i \in DOMAIN SpillRegs : SpillRegs[i] \notin ParamRegs \cup CallerRegs \cup CalleeRegs

RZR == 33

VARIABLES
    mode,
    ra,      \* the state of the scan
    fin,     \* the state of FinalizeRegisters
    out,     \* the emitted code of each block
    holds,
    right    \* whether every operand read so far had its value

scanVars == <<mode, ra>>
emitVars == <<fin, out>>
runVars == <<holds, right>>
vars == <<prog, phase, at, liveVars, loopVars, orderVars, intervalVars, scanVars, emitVars,
          runVars>>

Least(S) == CHOOSE r \in S : \A s \in S : r <= s
ParamOf(st) == st.free \cap ParamRegs
CallerOf(st) == st.free \cap CallerRegs
CalleeOf(st) == st.free \cap CalleeRegs

InitFreeRegPool ==
    /\ phase = "pool"
    /\ mode' \in Modes
    /\ ra' = [free     |-> ParamRegs \cup CallerRegs \cup CalleeRegs,
              assigned |-> [v \in VRegs |-> 0],      \* assigned_reg
              spilled  |-> spilled,                  \* stk_slot = SPILLED
              save     |-> {},                       \* should_save
              parent   |-> [v \in VRegs |-> 0],      \* li_parent
              child    |-> [v \in VRegs |-> 0],      \* li_child
              active   |-> {},                       \* virtual registers
              params   |-> {},                       \* intervals of parameter registers in active
              queue    |-> queue,
              last     |-> [r \in ParamRegs |-> <<>>],   \* last_int_param_li
              cnt      |-> [r \in CalleeRegs |-> 0]]     \* callee_use_cnt
    /\ phase' = "allocate" /\ at' = 1
    /\ UNCHANGED <<prog, liveVars, loopVars, orderVars, intervalVars, emitVars, runVars>>

----------------------------------------------------------------------------
(* The scan. *)

\* Mutant: an interval in a hole gives its register back as every other.
RetireChildToo(st, n) ==
    LET back   == {r \in ParamRegs : st.last[r] # <<>>}
        used   == {p \in st.params : p.phys_use <= n}
        gone   == {v \in st.active : LI[v].last_use <= n}
    IN  [st EXCEPT
                !.queue  = [r \in ParamRegs |-> st.last[r] \o st.queue[r]],
                !.last   = [r \in ParamRegs |-> <<>>],
                !.params = @ \ used,
                !.active = @ \ gone,
                !.free   = @ \cup back \cup {p.regno : p \in used} \cup {st.assigned[v] : v \in gone} ,
                !.child  = [v \in VRegs |-> IF st.child[v] \in gone THEN 0 ELSE st.child[v]],
                !.parent = [v \in VRegs |-> IF v \in gone THEN 0 ELSE st.parent[v]]]

\* Parameter registers set aside for the last instruction come back; intervals that end do.
RetireFromActive(st, n) ==
    LET back   == {r \in ParamRegs : st.last[r] # <<>>}
        used   == {p \in st.params : p.phys_use <= n}
        gone   == {v \in st.active : LI[v].last_use <= n}
        owners == {v \in gone : st.parent[v] = 0 /\ st.assigned[v] # 0}
    IN  IF mode = "all" THEN st
        ELSE [st EXCEPT
                !.queue  = [r \in ParamRegs |-> st.last[r] \o st.queue[r]],
                !.last   = [r \in ParamRegs |-> <<>>],
                !.params = @ \ used,
                !.active = @ \ gone,
                !.free   = @ \cup back \cup {p.regno : p \in used} \cup {st.assigned[v] : v \in owners},
                !.child  = [v \in VRegs |-> IF st.child[v] \in gone THEN 0 ELSE st.child[v]],
                !.parent = [v \in VRegs |-> IF v \in gone THEN 0 ELSE st.parent[v]]]

GetRegFromSet(st, v, S) ==
    [st EXCEPT !.assigned[v] = Least(S), !.free = @ \ {Least(S)}]

\* The interval of v lies in a hole of that of h.
InHole(v, h) == \E p \in LI[h].holes : p[1] <= LI[v].first_def /\ p[2] >= LI[v].last_use

HasHole(st, v) ==
    {h \in st.active : h \notin st.spilled /\ st.child[h] = 0 /\ st.assigned[h] # 0 /\ InHole(v, h)}

FillInHole(st, v) ==
    LET S == HasHole(st, v) IN
    IF S = {} THEN st
    ELSE LET h == CHOOSE h \in S : \A w \in S : ActiveBefore(h, w)
         IN  [st EXCEPT !.child[h] = v, !.parent[v] = h, !.assigned[v] = st.assigned[h],
                        !.save = IF st.assigned[h] \in CalleeRegs THEN @ \ {v} ELSE @]

\* Mutant: a value that comes into the block of the call is enough.
CrossesLiveIn(v, n) ==
    \E c \in n + 1 .. Len(insns) :
        /\ insns[c].op = "call" /\ v \in livein[insns[c].bb]
        /\ LI[v].first_def < c /\ c < LI[v].last_use

\* A call after n at which v is live.
Crosses(v, n) ==
    \E c \in n + 1 .. Len(insns) :
        /\ insns[c].op = "call" /\ v \in liveout[insns[c].bb]
        /\ LI[v].first_def < c /\ c < LI[v].last_use

\* assigned_reg stays 0 when there is none.
FindAvailablePhyReg(st, v, n) ==
    LET saved   == [st EXCEPT !.save = @ \cup {v}]
        unsaved == [st EXCEPT !.save = @ \ {v}]
        hole    == FillInHole(saved, v)
    IN  IF mode = "fast"
        THEN IF CalleeOf(st) # {} THEN GetRegFromSet(unsaved, v, CalleeOf(st))
             ELSE IF CallerOf(st) # {} THEN GetRegFromSet(saved, v, CallerOf(st))
             ELSE unsaved
        ELSE IF Crosses(v, n)
        THEN IF CalleeOf(st) # {} THEN GetRegFromSet(unsaved, v, CalleeOf(st))
             ELSE IF LI[v].multi_use_in_bb /\ CallerOf(st) # {} THEN GetRegFromSet(saved, v, CallerOf(st))
             ELSE IF LI[v].multi_use_in_bb /\ ParamOf(st) # {} THEN GetRegFromSet(saved, v, ParamOf(st))
             ELSE IF hole.assigned[v] # 0 THEN hole ELSE unsaved
        ELSE IF ParamOf(st) # {} THEN GetRegFromSet(st, v, ParamOf(st))
             ELSE IF CallerOf(st) # {} THEN GetRegFromSet(st, v, CallerOf(st))
             ELSE IF CalleeOf(st) # {} THEN GetRegFromSet(st, v, CalleeOf(st))
             ELSE FillInHole(st, v)

Counted(st, v) ==
    IF st.assigned[v] \in CalleeRegs THEN [st EXCEPT !.cnt[st.assigned[v]] = @ + 1] ELSE st

\* [st, got]: got is FALSE where the code returns a null pointer.
AssignPhysRegs(st, v, n) ==
    IF mode = "all" THEN [st |-> st, got |-> FALSE]
    ELSE IF st.assigned[v] # 0 THEN [st |-> Counted(st, v), got |-> v \notin st.spilled]
    ELSE IF v \in st.spilled THEN [st |-> st, got |-> FALSE]
    ELSE LET f == FindAvailablePhyReg(st, v, n)
         IN  [st |-> Counted(f, v), got |-> f.assigned[v] # 0]

SetOperandSpill(st, v) == [st EXCEPT !.spilled = @ \cup {v}]

\* A parameter register that will be written while v is live is kept from v.
InsertParamToActive(st, v) ==
    LET fd   == LI[v].first_def
        Over(p) == p.first_def <= fd /\ p.phys_use <= fd
        Left(q) == LET keep == {i \in DOMAIN q : \E j \in 1 .. i : ~Over(q[j])}
                   IN  SubSeq(q, Len(q) - Cardinality(keep) + 1, Len(q))
        q    == [r \in ParamRegs |-> Left(st.queue[r])]
        hold == {r \in ParamRegs \cap st.free :
                    q[r] # <<>> /\ Head(q[r]).first_def < LI[v].last_use /\ Head(q[r]).phys_use > fd}
    IN  [st EXCEPT !.queue = [r \in ParamRegs |-> IF r \in hold THEN Tail(q[r]) ELSE q[r]],
                   !.last  = [r \in ParamRegs |-> IF r \in hold THEN <<Head(q[r])>> ELSE st.last[r]],
                   !.free  = @ \ hold]

\* There is no register for v: an active interval of less worth gives its own.
HandleSpillForInsn(st, v, n) ==
    LET low == FindLowestPrioInActive(st.active)
        w   == CHOOSE w \in low : TRUE
        try == AssignPhysRegs([st EXCEPT !.free = @ \cup {st.assigned[w]}], v, n)
    IN  IF \/ low = {} \/ v \in st.spilled \/ LI[v].first_def # n
        THEN SetOperandSpill(st, v)
        ELSE IF \/ st.parent[w] # 0 \/ st.child[w] # 0
                \/ LowerPriority(v, w) \/ LI[v].ref_count < LI[w].ref_count
                \/ st.assigned[w] \notin CalleeRegs
        THEN SetOperandSpill(st, v)
        ELSE IF ~try.got
        THEN SetOperandSpill([try.st EXCEPT !.free = @ \ {st.assigned[w]}], v)
        ELSE [try.st EXCEPT !.active = (@ \ {w}) \cup {v}, !.spilled = @ \cup {w}]

\* OpndNeedAllocation for a parameter register that is written.
ActivateParam(st, r, n) ==
    IF mode # "all" /\ st.queue[r] # <<>> /\ Head(st.queue[r]).first_def = n
    THEN [st EXCEPT !.free = @ \ {r}, !.params = @ \cup {Head(st.queue[r])},
                    !.queue[r] = Tail(@)]
    ELSE st

AssignDef(st, v, n) ==
    LET held == IF mode = "fast" THEN st ELSE InsertParamToActive(st, v)
        r    == AssignPhysRegs(held, v, n)
    IN  IF r.got THEN [r.st EXCEPT !.active = @ \cup {v}] ELSE HandleSpillForInsn(r.st, v, n)

AssignUse(st, v, n) ==
    LET r == AssignPhysRegs(st, v, n)
    IN  IF ~IsVirtual(v) THEN st ELSE IF r.got THEN r.st ELSE SetOperandSpill(r.st, v)

AssignPhysRegsForInsn(st, n) ==
    LET d   == insns[n].def
        u   == insns[n].uses
        def == IF IsVirtual(d) THEN AssignDef(st, d, n)
               ELSE IF IsParam(d) THEN ActivateParam(st, d, n) ELSE st
        U[i \in 0 .. Len(u)] == IF i = 0 THEN def ELSE LET p == U[i - 1] IN AssignUse(p, u[i], n)
    IN  U[Len(u)]

\* One instruction of the loop of AllocateRegisters.
AllocateInsn ==
    /\ phase = "allocate" /\ at <= Len(insns)
    /\ ra' = AssignPhysRegsForInsn(RetireFromActive(ra, at), at)
    /\ at' = at + 1
    /\ UNCHANGED <<prog, phase, mode, liveVars, loopVars, orderVars, intervalVars, emitVars, runVars>>

----------------------------------------------------------------------------
(* FinalizeRegisters.  fin is [assigned, spilled, mask, slot, freed, slots, saved]:
   what a block has in its caller-saved registers (int_bb_def_mask), the slot of each
   register, the slots to use again, how many there are, the callee-saved registers
   that the prologue saves.  An emitted instruction is [op, to, name, from, reads]:
   places, and the registers of the source they stand for. *)

shouldOptIntCallee ==
    doCalleeToSpill /\ Cardinality({r \in CalleeRegs \cap 19 .. 27 : ra.cnt[r] # 0}) % 2 = 1

StartFinalize ==
    /\ phase = "allocate" /\ at > Len(insns)
    /\ fin' = [assigned |-> ra.assigned, spilled |-> ra.spilled, mask |-> {},
               slot |-> [v \in VRegs |-> 0], freed |-> {}, slots |-> 0,
               \* AddtoCalleeSaved in AssignPhysRegs
               saved |-> IF doCalleeToSpill THEN {} ELSE {r \in CalleeRegs : ra.cnt[r] # 0}]
    /\ phase' = "finalize" /\ at' = 1
    /\ UNCHANGED <<prog, mode, ra, out, liveVars, loopVars, orderVars, intervalVars, runVars>>

GetOrCreatSpillMem(f, v) ==
    IF f.slot[v] # 0 THEN f
    ELSE IF f.freed # {} THEN [f EXCEPT !.slot[v] = Least(f.freed), !.freed = @ \ {Least(f.freed)}]
    ELSE [f EXCEPT !.slot[v] = -(f.slots + 1), !.slots = @ + 1]

\* Mutant: the slot is given back at the first use.
FreeSpillRegMemEarly(f, v, n) == [f EXCEPT !.freed = @ \cup {f.slot[v]}]

\* The slot of v is free after the last instruction of its interval.
FreeSpillRegMem(f, v, n) ==
    IF LI[v].last_use = n THEN [f EXCEPT !.freed = @ \cup {f.slot[v]}] ELSE f

Load(f, v, reg) ==
    [op |-> "copy", to |-> reg, name |-> 0, from |-> <<f.slot[v]>>, reads |-> <<v>>]
Store(f, v, reg) ==
    [op |-> "copy", to |-> f.slot[v], name |-> 0, from |-> <<reg>>, reads |-> <<v>>]
StoreZero(f, v) ==
    [op |-> "op", to |-> f.slot[v], name |-> v, from |-> <<>>, reads |-> <<>>]

\* The head of GetReplaceOpnd: a callee-saved register for one write and one read is not worth it.
ReplaceCallee(f, v) ==
    LET reg == f.assigned[v] IN
    IF reg \notin CalleeRegs THEN f
    ELSE IF shouldOptIntCallee /\ ra.cnt[reg] = 2 /\ LI[v].result_count = 1 /\ LI[v].ref_count = 2
    THEN [f EXCEPT !.spilled = @ \cup {v}, !.assigned[v] = 0]
    ELSE [f EXCEPT !.saved = @ \cup {reg}]

\* GetReplaceOpnd of a source operand; e is [f, code, from, spillIdx].
ReplaceUse(e, u, n) ==
    LET f   == ReplaceCallee(e.f, u)
        reg == f.assigned[u]
        m   == GetOrCreatSpillMem(f, u)
        sp  == SpillRegs[e.spillIdx]
    IN  IF ~IsVirtual(u) THEN [e EXCEPT !.from = Append(@, u)]
        ELSE IF u \in ra.save
        \* InsertCallerSave
        THEN IF reg \in f.mask THEN [e EXCEPT !.f = f, !.from = Append(@, reg)]
             ELSE [e EXCEPT !.f = [FreeSpillRegMem(m, u, n) EXCEPT !.mask = @ \cup {reg}],
                            !.code = Append(@, Load(m, u, reg)), !.from = Append(@, reg)]
        ELSE IF u \in f.spilled
        \* SpillOperand
        THEN [e EXCEPT !.f = [FreeSpillRegMem(m, u, n) EXCEPT !.assigned[u] = sp],
                       !.code = Append(@, Load(m, u, sp)), !.from = Append(@, sp),
                       !.spillIdx = @ + 1]
        ELSE [e EXCEPT !.f = f, !.from = Append(@, reg)]

\* GetReplaceOpnd of the destination, and the removal of an instruction that writes zero.
ReplaceDef(e, n) ==
    LET d    == insns[n].def
        f    == ReplaceCallee(e.f, d)
        m    == GetOrCreatSpillMem(f, d)
        zero == insns[n].op = "zero"
        Insn(to) == [op |-> insns[n].op, to |-> to, name |-> d, from |-> e.from,
                     reads |-> insns[n].uses]
        sp   == SpillRegs[1]
    IN  IF ~IsVirtual(d) THEN [e EXCEPT !.code = Append(@, Insn(d))]
        ELSE IF d \in ra.save
        THEN [e EXCEPT !.f = [FreeSpillRegMem(m, d, n) EXCEPT
                                !.mask = IF zero THEN @ \ {f.assigned[d]} ELSE @ \cup {f.assigned[d]}],
                       !.code = @ \o (IF zero THEN <<StoreZero(m, d)>>
                                      ELSE <<Insn(f.assigned[d]), Store(m, d, f.assigned[d])>>)]
        ELSE IF d \in f.spilled
        THEN [e EXCEPT !.f = [FreeSpillRegMem(m, d, n) EXCEPT
                                !.assigned[d] = IF zero THEN RZR ELSE sp],
                       !.code = @ \o (IF zero THEN <<StoreZero(m, d)>>
                                      ELSE <<Insn(sp), Store(m, d, sp)>>)]
        ELSE [e EXCEPT !.f = f, !.code = Append(@, Insn(f.assigned[d]))]

\* One instruction of the loop of FinalizeRegisters.
FinalizeInsn ==
    /\ phase = "finalize" /\ at <= Len(insns)
    /\ LET b == insns[at].bb
           u == insns[at].uses
           f == IF at = first_id[b] THEN [fin EXCEPT !.mask = {}] ELSE fin
           U[i \in 0 .. Len(u)] ==
               IF i = 0 THEN [f |-> f, code |-> <<>>, from |-> <<>>, spillIdx |-> 1]
               ELSE LET p == U[i - 1] IN ReplaceUse(p, u[i], at)
           e == ReplaceDef(U[Len(u)], at)
       IN  /\ fin' = e.f
           /\ out' = [out EXCEPT ![b] = @ \o e.code]
    /\ at' = at + 1
    /\ UNCHANGED <<prog, phase, liveVars, loopVars, orderVars, intervalVars, scanVars, runVars>>

----------------------------------------------------------------------------
(* The emitted code runs. *)

StartRun ==
    /\ phase = "finalize" /\ at > Len(insns)
    /\ phase' = "run" /\ at' = 1
    /\ holds' = {<<r, r>> : r \in ParamRegs}
    /\ UNCHANGED <<prog, liveVars, loopVars, orderVars, intervalVars, scanVars, emitVars, right>>

\* A call keeps the callee-saved registers and the frame, and leaves a result.
Effect(h, m) ==
    IF m.op = "copy"
    THEN {p \in h : p[1] # m.to} \cup {<<m.to, p[2]>> : p \in {p \in h : p[1] = m.from[1]}}
    ELSE IF m.op = "call"
    THEN {p \in h : (p[1] \in CalleeRegs \/ p[1] < 0) /\ p[2] \notin ParamRegs}
           \cup {<<r, r>> : r \in ParamRegs}
    ELSE IF m.to = 0 THEN h
    ELSE {p \in h : p[1] # m.to /\ p[2] # m.name} \cup {<<m.to, m.name>>}

ReadsRight(h, m) == \A i \in DOMAIN m.from : <<m.from[i], m.reads[i]>> \in h

RunBlock ==
    /\ phase = "run" /\ at # 0
    /\ LET c == out[at]
           H[i \in 0 .. Len(c)] == IF i = 0 THEN holds ELSE LET h == H[i - 1] IN Effect(h, c[i])
       IN  /\ holds' = H[Len(c)]
           /\ right' = (right /\ \A i \in DOMAIN c : ReadsRight(H[i - 1], c[i]))
    /\ IF Succs(at) = {} THEN at' = 0 ELSE at' \in Succs(at)
    /\ UNCHANGED <<prog, phase, liveVars, loopVars, orderVars, intervalVars, scanVars, emitVars>>

Init ==
    /\ InitIntervals
    /\ mode = "" /\ ra = <<>> /\ fin = <<>>
    /\ out = [b \in Blocks |-> <<>>]
    /\ holds = {} /\ right = TRUE

Next ==
    \/ NextIntervals /\ UNCHANGED <<scanVars, emitVars, runVars>>
    \/ InitFreeRegPool \/ AllocateInsn \/ StartFinalize \/ FinalizeInsn
    \/ StartRun \/ RunBlock

Spec == Init /\ [][Next]_vars

----------------------------------------------------------------------------
(* Properties *)

(* On every path through the emitted code every operand is read from a place that
   has the value the source instruction would read: over calls, over the edges of
   loops, from slots that were given to another register meanwhile. *)
EveryReadIsRight == right

(* The prologue saves every callee-saved register the code writes. *)
CalleeRegistersAreSaved ==
    phase = "run" => \A b \in Blocks : \A m \in Range(out[b]) : m.to \in CalleeRegs => m.to \in fin.saved

CodeIsRight == EveryReadIsRight /\ CalleeRegistersAreSaved

TypeOK ==
    phase \in {"allocate", "finalize", "run"} =>
      /\ mode \in Modes
      /\ ra.free \subseteq ParamRegs \cup CallerRegs \cup CalleeRegs
      /\ ra.active \subseteq VRegs /\ ra.spilled \subseteq VRegs /\ ra.save \subseteq VRegs
      /\ \A v \in VRegs : /\ ra.assigned[v] \in {0} \cup ParamRegs \cup CallerRegs \cup CalleeRegs
                          /\ ra.parent[v] \in {0} \cup VRegs /\ ra.child[v] \in {0} \cup VRegs
      /\ \A r \in ParamRegs : Len(ra.last[r]) <= 1

(* Between two instructions a register is free, set aside for a parameter, or held
   by an interval that has not ended; of two intervals that are live at once and hold the
   same, one lies in a hole of the other. *)
RegistersAreKept ==
    TypeOK /\ ((phase = "allocate" /\ mode # "all") =>
      LET n == at - 1
          live == {v \in ra.active : LI[v].last_use > n}
      IN  /\ \A r \in ParamRegs \cup CallerRegs \cup CalleeRegs :
               \/ r \in ra.free
               \/ \E v \in ra.active : ra.assigned[v] = r
               \/ \E p \in ra.params : p.regno = r
               \/ r \in ParamRegs /\ ra.last[r] # <<>>
          /\ \A v \in live :
               /\ ra.assigned[v] \notin ra.free
               /\ \A w \in live \ {v} :
                    ra.assigned[v] = ra.assigned[w] => InHole(v, w) \/ InHole(w, v))
=============================================================================
