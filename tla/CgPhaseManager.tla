--------------------------- MODULE CgPhaseManager ---------------------------
(***************************************************************************)
(* The pipeline of the code generator (maple_be/src/cg/cg_phase_manager.cpp *)
(* and the function loop of cg_driver.cpp).  Some phases are optimisations *)
(* and can be skipped, the others are needed to get assembly at all; emit  *)
(* is run by the driver after the loop over the others.                    *)
(*                                                                         *)
(* A phase is the sequence of the steps of its Run that touch what phases  *)
(* share: cached analysis results, the code, the super blocks and the      *)
(* reaching definitions hung on the function.                              *)
(***************************************************************************)
EXTENDS Integers, Sequences, SequencesExt

CONSTANTS
  Options,   \* the command lines: a set of records, see OptionType
  MaxFuncs   \* bound: functions of the module that have a body

\* The optimisations and extras that have an option of their own (CGOptions::do...);
\* genEH counts as off for a program in C.
Flags == {"genEH", "doEbo", "doPrePeephole", "doIco", "doCfgo", "doStoreLoadOpt",
          "doGlobalOpt", "doPreSchedule", "doPeephole", "genCfi", "insertYieldpoint",
          "doSchedule", "doLiveAnalysisEh"}

OptionType ==
  [optim_level : 0 .. 2, java : BOOLEAN, on : SUBSET Flags, skipPhases : SUBSET STRING,
   skipFrom : STRING, skipAfter : STRING, useRange : BOOLEAN, range : Nat \X Nat]

\* Declared with CGFUNCPHASE_CANSKIP.
CanSkip == {"cfgo", "postcfgo", "ebo", "ebo1", "postebo", "prescheduling", "scheduling",
            "ico", "storeloadopt", "optlocalref", "globalopt", "prepeephole",
            "prepeephole1", "peephole0", "peephole"}

\* Without the phases that cannot be skipped there is no assembly.
ASSUME CgPhaseManagerAssumption ==
  /\ MaxFuncs \in Nat
  /\ \A o \in Options : /\ o.optim_level \in 0 .. 2 /\ o.java \in BOOLEAN
                        /\ o.on \subseteq Flags /\ o.skipPhases \subseteq CanSkip

\* Registered with FUNCAPHASE.
Analyses == {"live", "liveeh", "reachdef", "loop", "loopnoeh"}

VARIABLES
  opt,            \* CGOptions
  phaseSeq,       \* phaseSequence, filled by AddPhases
  funcs,          \* rangeNum: functions compiled so far
  at,             \* "driver", "loop" (in Run) or "emit" (in Emit)
  inRange,        \* CGOptions::inRange
  it,             \* position in the phase sequence
  skipFromFlag, skipAfterFlag,
  phase,          \* the phase being run, or ""
  todo,           \* the steps it has still to take
  cache,          \* analysisResults of the function: identity of a result, 0: none
  made,           \* identities given to results so far
  madeFor,        \* history: the code each analysis was last run on
  fn,             \* the CGFunc
  ran             \* history: the phases run on the function
cmd == <<opt, phaseSeq>>
mgrVars == <<cmd, funcs, at, inRange, it, skipFromFlag, skipAfterFlag, phase, ran>>
vars == <<mgrVars, todo, cache, made, madeFor, fn>>

None == [a \in Analyses |-> 0]

\* A fresh CGFunc: code counts its changes, rd is the result its instructions point
\* into, pseudo tells that reachdef has added instructions, sbb that blocks are merged.
NewCGFunc(hasBBs) == [hasBBs |-> hasBBs, code |-> 0, rd |-> 0, pseudo |-> FALSE, sbb |-> 0]

When(c, phases) == IF c THEN phases ELSE <<>>
On(flag, phases) == When(flag \in opt.on, phases)

ADDPHASE(p) == When(p \notin opt.skipPhases, <<p>>)

AddPhasesToStoreLoadOpt ==
  ADDPHASE("layoutstackframe") \o ADDPHASE("createstartendlabel")
  \o On("genEH", ADDPHASE("buildehfunc")) \o ADDPHASE("handlefunction")
  \o When(opt.java, ADDPHASE("optlocalref"))
  \o ADDPHASE("movevregargs") \o ADDPHASE("moveregargs")
  \o On("doEbo", ADDPHASE("ebo")) \o On("doPrePeephole", ADDPHASE("prepeephole"))
  \o On("doIco", ADDPHASE("ico")) \o On("doCfgo", ADDPHASE("cfgo"))
  \o When(opt.java, On("doStoreLoadOpt", ADDPHASE("storeloadopt")))

AddPhasesToPreSchedule ==
  On("doGlobalOpt", ADDPHASE("globalopt")) \o On("doPrePeephole", ADDPHASE("prepeephole1"))
  \o On("doEbo", ADDPHASE("ebo1"))
  \o On("doPreSchedule", ADDPHASE("merge") \o ADDPHASE("prescheduling") \o ADDPHASE("split"))

AddPhasesFromRegAlloc ==
  ADDPHASE("regalloc") \o ADDPHASE("generateproepilog")
  \o ADDPHASE("offsetadjustforfplr") \o ADDPHASE("dbgfixcallframeoffsets")
  \o On("doPeephole", ADDPHASE("peephole0")) \o On("doEbo", ADDPHASE("postebo"))
  \o On("doCfgo", ADDPHASE("postcfgo")) \o On("doPeephole", ADDPHASE("peephole"))
  \o On("genCfi", ADDPHASE("gencfi"))
  \o When(opt.java, On("insertYieldpoint", ADDPHASE("yieldpoint")))
  \o On("doSchedule", ADDPHASE("merge") \o ADDPHASE("scheduling") \o ADDPHASE("split"))
  \o ADDPHASE("fixshortbranch")

AddPhases ==
  AddPhasesToStoreLoadOpt \o AddPhasesToPreSchedule \o AddPhasesFromRegAlloc
  \o ADDPHASE("emit")

PhaseSeqEnd == Len(phaseSeq) + 1

-----------------------------------------------------------------------------
(* What the phases do. *)

Get(a)     == [do |-> "get", a |-> a]       \* GetAnalysisResult
Use(a)     == [do |-> "use", a |-> a]       \* a look at what the analysis left
Invalid(a) == [do |-> "invalid", a |-> a]   \* InvalidAnalysisResult
Step(s)    == [do |-> s, a |-> ""]

O2 == opt.optim_level >= 2

\* An optimisation of the code that asks for the live ranges.
WithLive(asks) ==
  When(asks, <<Get("live"), Use("live")>>) \o <<Step("change"), Invalid("live")>>

CgDoEbo == {WithLive(O2)}             \* ebo1 and postebo alike
CgDoPrePeepHole == {WithLive(O2)}
CgDoPeepHole0 == {WithLive(O2)}
CgDoPeepHole == {WithLive(O2)}
CgDoIco == {WithLive(TRUE)}
CgDoPreScheduling == {WithLive(TRUE)}
CgDoScheduling == {WithLive(TRUE)}

CgDoPrePeepHole1 == {<<Step("ifRD"), Step("change")>>}
ClearRD == <<Step("clearRD"), Invalid("live"), Invalid("reachdef")>>

\* Both leave when there are no reaching definitions.
NeedRD == When(O2, <<Get("reachdef")>>) \o <<Step("needRD")>>
CgDoStoreLoadOpt ==
  {NeedRD \o <<Get("loopnoeh"), Use("loopnoeh"), Step("change"), Invalid("loopnoeh")>>}
CgDoGlobalOpt == {NeedRD \o <<Step("change")>> \o ClearRD}

\* Until the allocator needs no more registers to be spilled: one round or two.
CgDoRegAlloc ==
  LET live  == IF "doLiveAnalysisEh" \in opt.on THEN "liveeh" ELSE "live"
      round == When(O2, <<Get(live)>>) \o <<Get("loop"), Use("loop")>>
               \o When(O2, <<Use(live)>>) \o <<Step("change"), Invalid("liveeh"),
                           Invalid("live"), Invalid("loop")>>
  IN  {round, round \o round}

CgDoMerge == {<<Step("merge")>>}
CgDoSplit == {<<Step("ifSBB")>>}
CgDoEmission == {<<>>}
OtherPhases == {<<Step("change")>>}

\* Mutant: the blocks are left merged.
CgDoReachingDefinitionMerged ==
  {<<Step("noRD")>>,
   <<Step("addPseudo"), Step("merge"), Get("live"), Get("loopnoeh"), Use("live"),
     Use("loopnoeh"), Step("setRD"), Invalid("live"), Invalid("loopnoeh")>>}

\* The analyses.  A function that is too big gets no reaching definitions.
CgDoReachingDefinition ==
  {<<Step("noRD")>>,
   <<Step("addPseudo"), Step("merge"), Get("live"), Get("loopnoeh"), Use("live"),
     Use("loopnoeh"), Step("setRD"), Invalid("live"), Invalid("loopnoeh"), Step("split")>>}
Analysis(a) == IF a = "reachdef" THEN CgDoReachingDefinition ELSE {<<>>}

\* The phases that ask for results or touch what others share.
Phases ==
  [ebo |-> CgDoEbo, ebo1 |-> CgDoEbo, postebo |-> CgDoEbo, ico |-> CgDoIco,
   prepeephole |-> CgDoPrePeepHole, prepeephole1 |-> CgDoPrePeepHole1,
   peephole0 |-> CgDoPeepHole0, peephole |-> CgDoPeepHole,
   prescheduling |-> CgDoPreScheduling, scheduling |-> CgDoScheduling,
   storeloadopt |-> CgDoStoreLoadOpt, globalopt |-> CgDoGlobalOpt,
   regalloc |-> CgDoRegAlloc, merge |-> CgDoMerge, split |-> CgDoSplit,
   emit |-> CgDoEmission]

\* What a Run of the phase may do: without basic blocks nothing is run but emit.
Runs(p) ==
  IF ~fn.hasBBs THEN {<<>>} ELSE IF p \in DOMAIN Phases THEN Phases[p] ELSE OtherPhases

-----------------------------------------------------------------------------
Init ==
  /\ opt \in Options /\ phaseSeq = AddPhases
  /\ funcs = 0 /\ at = "driver" /\ inRange = FALSE
  /\ it = 1 /\ skipFromFlag = FALSE /\ skipAfterFlag = FALSE
  /\ phase = "" /\ todo = <<>>
  /\ cache = None /\ made = 0 /\ madeFor = None
  /\ fn = NewCGFunc(TRUE) /\ ran = <<>>

StartFunc ==
  /\ at = "driver" /\ funcs < MaxFuncs
  /\ \E hasBBs \in BOOLEAN : fn' = NewCGFunc(hasBBs)
  /\ inRange' = (inRange \/ (opt.useRange /\ funcs \in opt.range[1] .. opt.range[2]))
  /\ at' = "loop" /\ it' = 1 /\ skipFromFlag' = FALSE /\ skipAfterFlag' = FALSE
  /\ made' = 0 /\ madeFor' = None /\ ran' = <<>>
  /\ UNCHANGED <<cmd, funcs, phase, todo, cache>>

InLoop == at = "loop" /\ phase = "" /\ it < PhaseSeqEnd

\* Mutant: --skip-from passes over every phase up to emit.
UnskippableLast(i) == Len(phaseSeq)

\* The first position from i on of a phase that cannot be skipped.
Unskippable(i) ==
  LET needed == {j \in i .. Len(phaseSeq) : phaseSeq[j] \notin CanSkip}
  IN  IF needed = {} THEN PhaseSeqEnd ELSE CHOOSE j \in needed : \A k \in needed : j <= k

\* emit is left to the driver.
LeaveEmit ==
  /\ InLoop /\ phaseSeq[it] = "emit"
  /\ it' = it + 1
  /\ UNCHANGED <<cmd, funcs, at, inRange, skipFromFlag, skipAfterFlag, phase, ran, todo,
                 cache, made, madeFor, fn>>

\* The head of the loop's body, up to the phase that is to be run.
SkipFrom ==
  /\ InLoop /\ phaseSeq[it] # "emit"
  /\ skipFromFlag' = (skipFromFlag \/ phaseSeq[it] = opt.skipFrom)
  /\ it' = IF skipFromFlag' THEN Unskippable(it) ELSE it
  /\ phase' = phaseSeq[it']

RangePhases == {"ebo", "ebo1", "postebo", "ico", "cfgo", "peephole0", "peephole"}
OutOfRange(p) == opt.useRange /\ ~inRange /\ p \in RangePhases

PassOver ==
  /\ InLoop /\ phaseSeq[it] # "emit"
  /\ skipFromFlag' = (skipFromFlag \/ phaseSeq[it] = opt.skipFrom)
  /\ ~skipFromFlag' /\ OutOfRange(phaseSeq[it])
  /\ it' = it + 1
  /\ UNCHANGED <<cmd, funcs, at, inRange, skipAfterFlag, phase, ran, todo, cache, made,
                 madeFor, fn>>

RunFuncPhase ==
  /\ SkipFrom
  /\ ~OutOfRange(phase')
  /\ todo' \in Runs(phase')
  /\ ran' = Append(ran, phase')
  /\ UNCHANGED <<cmd, funcs, at, inRange, skipAfterFlag, cache, made, madeFor, fn>>

\* Mutant: the flag of --skip-after is tested before the phase is compared with it.
PhaseReturnsStale ==
  /\ at = "loop" /\ phase # "" /\ todo = <<>>
  /\ skipAfterFlag' = (skipAfterFlag \/ phase = opt.skipAfter)
  /\ it' = IF skipAfterFlag THEN Unskippable(it + 1) ELSE it + 1
  /\ phase' = ""
  /\ UNCHANGED <<cmd, funcs, at, inRange, skipFromFlag, ran, todo, cache, made, madeFor, fn>>

\* The tail of the loop's body, with the increment of the iterator.
PhaseReturns ==
  /\ at = "loop" /\ phase # "" /\ todo = <<>>
  /\ skipAfterFlag' = (skipAfterFlag \/ phase = opt.skipAfter)
  /\ it' = IF skipAfterFlag' THEN Unskippable(it + 1) ELSE it + 1
  /\ phase' = ""
  /\ UNCHANGED <<cmd, funcs, at, inRange, skipFromFlag, ran, todo, cache, made, madeFor, fn>>

\* Run returns; the driver calls Emit.
Emit ==
  /\ at = "loop" /\ phase = "" /\ it = PhaseSeqEnd
  /\ at' = "emit" /\ phase' = "emit"
  /\ todo' \in Runs("emit")
  /\ ran' = Append(ran, "emit")
  /\ UNCHANGED <<cmd, funcs, inRange, it, skipFromFlag, skipAfterFlag, cache, made,
                 madeFor, fn>>

EndFunc ==
  /\ at = "emit" /\ todo = <<>>
  /\ at' = "driver" /\ phase' = ""
  /\ cache' = None
  /\ funcs' = funcs + 1 /\ inRange' = FALSE
  /\ UNCHANGED <<cmd, it, skipFromFlag, skipAfterFlag, ran, todo, made, madeFor, fn>>

-----------------------------------------------------------------------------
(* Steps of the phase being run. *)
Ready(do) == todo # <<>> /\ Head(todo).do = do
Arg == Head(todo).a

GetAnalysisResult ==
  /\ Ready("get")
  /\ IF cache[Arg] # 0 THEN todo' = Tail(todo)
     ELSE \E run \in Analysis(Arg) : todo' = run \o <<[do |-> "made", a |-> Arg]>> \o Tail(todo)
  /\ UNCHANGED <<mgrVars, cache, made, madeFor, fn>>

Made ==
  /\ Ready("made")
  /\ made' = made + 1
  /\ cache' = [cache EXCEPT ![Arg] = made']
  /\ madeFor' = [madeFor EXCEPT ![Arg] = fn.code]
  /\ todo' = Tail(todo)
  /\ UNCHANGED <<mgrVars, fn>>

\* Mutant: the live ranges are kept.
InvalidAnalysisResultButLive ==
  /\ Ready("invalid")
  /\ cache' = [cache EXCEPT ![Arg] = IF Arg = "live" THEN @ ELSE 0]
  /\ todo' = Tail(todo)
  /\ UNCHANGED <<mgrVars, made, madeFor, fn>>

InvalidAnalysisResult ==
  /\ Ready("invalid")
  /\ cache' = [cache EXCEPT ![Arg] = 0]
  /\ todo' = Tail(todo)
  /\ UNCHANGED <<mgrVars, made, madeFor, fn>>

\* Where a Run goes on depends on the function.
Branch ==
  /\ \/ Ready("ifRD") /\ todo' = When(fn.rd # 0, ClearRD) \o Tail(todo)
     \/ Ready("ifSBB") /\ todo' = When(fn.sbb # 0, <<Step("split")>>) \o Tail(todo)
     \/ Ready("needRD") /\ todo' = IF fn.rd = 0 \/ cache["reachdef"] = 0
                                   THEN <<Invalid("reachdef")>> ELSE Tail(todo)
  /\ UNCHANGED <<mgrVars, cache, made, madeFor, fn>>

\* What steps do to the function; the result reachdef sets is the one it will return.
Effect(do) ==
  CASE do = "change"    -> [fn EXCEPT !.code = @ + 1]
    [] do = "addPseudo" -> [fn EXCEPT !.code = @ + 1, !.pseudo = TRUE]
    [] do = "merge"     -> [fn EXCEPT !.sbb = @ + 1]
    [] do = "split"     -> [fn EXCEPT !.sbb = 0]
    [] do = "noRD"      -> [fn EXCEPT !.rd = 0]
    [] do = "setRD"     -> [fn EXCEPT !.rd = made + 1]
    [] do = "clearRD"   -> [fn EXCEPT !.rd = 0, !.code = @ + 1, !.pseudo = FALSE]

Act ==
  /\ \E do \in {"change", "addPseudo", "merge", "split", "noRD", "setRD", "clearRD"} :
       Ready(do) /\ fn' = Effect(do)
  /\ todo' = Tail(todo)
  /\ UNCHANGED <<mgrVars, cache, made, madeFor>>

Look ==
  /\ Ready("use")
  /\ todo' = Tail(todo)
  /\ UNCHANGED <<mgrVars, cache, made, madeFor, fn>>

Next ==
  \/ StartFunc \/ LeaveEmit \/ PassOver \/ RunFuncPhase \/ PhaseReturns \/ Emit \/ EndFunc
  \/ GetAnalysisResult \/ Made \/ InvalidAnalysisResult \/ Branch \/ Act \/ Look

Spec == Init /\ [][Next]_vars

-----------------------------------------------------------------------------
(* Properties. *)

TypeOK ==
  /\ funcs \in 0 .. MaxFuncs /\ at \in {"driver", "loop", "emit"}
  /\ {inRange, skipFromFlag, skipAfterFlag, fn.hasBBs, fn.pseudo} \subseteq BOOLEAN
  /\ it \in 1 .. PhaseSeqEnd
  /\ phase \in ToSet(phaseSeq) \cup {""} /\ ToSet(ran) \subseteq ToSet(phaseSeq)
  /\ made \in Nat /\ cache \in [Analyses -> 0 .. made]
  /\ {fn.code, fn.rd, fn.sbb} \subseteq Nat

\* Those of a sequence of phases that cannot be skipped, in their order.
Needed(phases) ==
  LET upTo[i \in 0 .. Len(phases)] ==
        IF i = 0 THEN <<>>
        ELSE IF phases[i] \in CanSkip THEN upTo[i - 1]
        ELSE Append(upTo[i - 1], phases[i])
  IN  upTo[Len(phases)]

\* Whatever is skipped, the phases that cannot be skipped have each run once, in their
\* order, when a function is done with, emit as the last of them.
NeededPhasesRun == at = "driver" /\ funcs > 0 => Needed(ran) = Needed(phaseSeq)

\* A phase that looks at what an analysis left sees the analysis of the present code,
\* and not of what the code was before another phase changed it.
AnalysisIsCurrent == Ready("use") => cache[Arg] # 0 /\ madeFor[Arg] = fn.code

\* The result the instructions' chains point into is not deleted under them.
ReachingDefinitionIsCached ==
  at # "driver" /\ fn.rd # 0 /\ todo = <<>> => cache["reachdef"] = fn.rd

\* Blocks are merged once, by merge or by reachdef, and are themselves again when
\* registers are allocated and code is emitted.
BlocksAreSplit == fn.sbb \in {0, 1} /\ (phase \in {"regalloc", "emit"} => fn.sbb = 0)

\* The instructions reachdef adds are gone when registers are allocated, unless the
\* phase that would remove them was skipped or switched off.
PseudoInsnsAreRemoved ==
  phase = "regalloc" /\ ~skipFromFlag /\ ~skipAfterFlag
    /\ {"globalopt", "prepeephole1"} \cap ToSet(phaseSeq) # {} => ~fn.pseudo

\* No result is left for the next CGFunc, which may lie at the same address.
LeavesNothingBehind == at = "driver" => cache = None /\ ~inRange

\* No phase works on an analysis that is missing, of former code or of another function.
AnalysesAreSound ==
  TypeOK /\ AnalysisIsCurrent /\ ReachingDefinitionIsCached /\ LeavesNothingBehind

\* What the analyses and the optimisations did to the code for their own use is undone
\* before the phases that could not work with it.
CodeIsRestored == BlocksAreSplit /\ PseudoInsnsAreRemoved

Started == phase = "" /\ phase' # "" /\ phase' \in CanSkip

\* No optimisation is run from the phase named by --skip-from on, or after the one
\* named by --skip-after was run.
SkipsTheRest ==
  [][Started => /\ \A i \in 1 .. it' : phaseSeq[i] # opt.skipFrom
                /\ opt.skipAfter \notin ToSet(ran)]_vars

\* The phases that look at the range run on a function exactly if it is in the range
\* and nothing else skips them.
RangeIsObeyed ==
  at = "emit" /\ fn.hasBBs /\ opt.skipFrom = "" /\ opt.skipAfter = "" =>
    \A p \in RangePhases \cap ToSet(phaseSeq) :
      p \in ToSet(ran) <=> (opt.useRange => funcs \in opt.range[1] .. opt.range[2])

\* The skip options and the range take away exactly the phases they name.
OptionsAreObeyed == SkipsTheRest /\ []RangeIsObeyed
=============================================================================
