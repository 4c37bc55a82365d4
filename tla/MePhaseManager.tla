--------------------------- MODULE MePhaseManager ---------------------------
(***************************************************************************)
(* The pipeline of the middle end (maple_me/src/me_phase_manager.cpp): the *)
(* manager runs the phases of a sequence on one function after the other.  *)
(* A phase asks the analysis result manager (maple_phase/include/phase.h)  *)
(* for results, which are cached until somebody invalidates them; a phase  *)
(* that changed the control flow graph makes the manager start over.       *)
(*                                                                         *)
(* A phase is a sequence of the steps that touch what phases share: the    *)
(* cache, the graph and the code of the function.  What it computes is     *)
(* left out.  Results of module phases never change here and are left out. *)
(***************************************************************************)
EXTENDS Integers, Sequences, SequencesExt

CONSTANTS
  Options,   \* the command lines: a set of records, see OptionType
  MaxFuncs   \* bound: functions compiled one after the other

OptionType ==
  [o2 : BOOLEAN, java : BOOLEAN, noRC : BOOLEAN, rcLowering : BOOLEAN,
   skipPhases : SUBSET STRING, skipFrom : STRING, skipAfter : STRING]

\* Without emit there is no output, after --skip-after=emit the loop would not end, and
\* may2dassign and rclowering need the IRMap one of three phases asks for.
ASSUME MePhaseManagerAssumption ==
  /\ MaxFuncs \in Nat
  /\ \A o \in Options : /\ {o.o2, o.java, o.noRC, o.rcLowering} \subseteq BOOLEAN
                        /\ "emit" \notin o.skipPhases /\ o.skipAfter # "emit"
                        /\ ~({"hprop", "symrename", "hdse"} \subseteq o.skipPhases)

\* Registered with FUNCAPHASE and returning a result.
Analyses == {"dominance", "ssatab", "aliasclass", "irmapbuild", "mepredict",
             "identloops", "bblayout", "delegaterc"}

VARIABLES
  opt,             \* MeOption
  funcs,           \* functions taken up so far
  pass,            \* 0: between functions; 1, 2: in the first, second loop
  it,              \* position in the phase sequence
  phaseName, prevPhaseName,
  changecfgphase,  \* the phase that made the manager start over, or ""
  isCFGChanged,    \* phases whose flag of that name is set
  stack,           \* the Run calls in progress, the innermost one last
  cache,           \* analysisResults of the function: identity of a result, 0: none
  made,            \* identities given to results so far
  domCfg,          \* history: the graph the latest dominance result was made for
  fn,              \* the MeFunction and its code
  ran              \* history: <<pass, phase>> run by the manager on the function
mgrVars == <<opt, funcs, pass, it, phaseName, prevPhaseName, changecfgphase, ran>>
vars == <<mgrVars, isCFGChanged, stack, cache, made, domCfg, fn>>

None == [a \in Analyses |-> 0]

\* A fresh MeFunction after Prepare: hasBBs is NumBBs() > 0, cfg counts the changes
\* of its graph, versMp and code are "live" or how often they were deleted since.
NewMeFunction(hasBBs) ==
  [hasBBs |-> hasBBs, cfg |-> 0, irMap |-> 0, meSSATab |-> 0, versMp |-> "live",
   code |-> "live"]

-----------------------------------------------------------------------------
(* What the phases do. *)

Get(a)     == [do |-> "get", a |-> a]       \* GetAnalysisResult
Invalid(a) == [do |-> "invalid", a |-> a]   \* InvalidAnalysisResult
Step(s)    == [do |-> s, a |-> ""]

\* Each phase by the name of its class: the sequences of steps one Run may take.
DOM     == <<Get("dominance")>>
SSA     == <<Get("ssatab")>>
IR      == <<Get("irmapbuild")>>
Changed == <<Step("changeCFG"), Invalid("dominance")>>

MeDoDominance == {<<>>}
MeDoSSATab == {<<>>}
MeDoAliasClass == {SSA}
MeDoIrMapBuild == {DOM \o <<Step("freeStmts")>>}
MeDoMeLoop == {DOM}
MeDoPredict == {IR \o DOM \o <<Invalid("identloops"), Get("identloops")>>}
\* a branch may be retargeted without a new block
MeDoBBLayout == {<<>>, <<Step("changeCFG")>>, Changed}
MeDoDelegateRC == {DOM \o <<Step("useIrMap")>>}
MeDoLoopCanon == {DOM, DOM \o Changed}
MeDoSplitCEdge == {<<>>, <<Step("changeCFG"), Step("invalidAll")>>}
MeDoSSA == {DOM \o SSA}
MeDoDSE == {DOM \o SSA, DOM \o SSA \o Changed}
MeDoFSAA == {SSA \o DOM}
MeDoMeProp == {DOM \o IR}
MeDoSymRename == {SSA \o IR}
MeDohDSE == {DOM \o IR \o <<Invalid("dominance")>>, DOM \o IR \o Changed}
MeDoMay2Dassign == {<<Step("useIrMap")>>}
MeDoCondBasedNPC == {DOM}
MeDoCondBasedRC == DOM
\* EmitMapleir writes the changed function
MeDoCfgOpt == {IR, IR \o <<Step("changeCFG"), Step("setChangeCFG"), Get("bblayout"),
                           Step("newCode")>>}
\* nothing beyond the limit of functions
MeDoSSAEPre == {<<>>, DOM \o IR}
MeDoStmtPre == {DOM \o IR}
\* delegaterc and condbasedrc are options of their own
MeDoAnalyzeRC ==
  LET base == DOM \o <<Get("aliasclass")>> \o IR
      more == {<<>>, <<Get("delegaterc")>>, MeDoCondBasedRC,
               <<Get("delegaterc")>> \o MeDoCondBasedRC}
  IN  {base \o m : m \in IF opt.rcLowering THEN more ELSE {<<>>}}
MeDoRCLowering == {<<Step("useIrMap")>>}
MeDoSSARename2Preg == {IR \o <<Get("aliasclass")>>}
\* nothing beyond the limit of functions
MeDoSSALPre == {<<>>, DOM \o IR \o <<Get("identloops")>>}

\* The registered phases by name.
Phases ==
  [dominance |-> MeDoDominance, ssatab |-> MeDoSSATab, aliasclass |-> MeDoAliasClass,
   irmapbuild |-> MeDoIrMapBuild, identloops |-> MeDoMeLoop, mepredict |-> MeDoPredict,
   bblayout |-> MeDoBBLayout, delegaterc |-> MeDoDelegateRC, loopcanon |-> MeDoLoopCanon,
   splitcriticaledge |-> MeDoSplitCEdge, ssa |-> MeDoSSA, dse |-> MeDoDSE,
   fsaa |-> MeDoFSAA, hprop |-> MeDoMeProp, symrename |-> MeDoSymRename,
   hdse |-> MeDohDSE, may2dassign |-> MeDoMay2Dassign, condbasednpc |-> MeDoCondBasedNPC,
   cfgopt |-> MeDoCfgOpt, epre |-> MeDoSSAEPre, stmtpre |-> MeDoStmtPre,
   analyzerc |-> MeDoAnalyzeRC, rclowering |-> MeDoRCLowering,
   rename2preg |-> MeDoSSARename2Preg, lpre |-> MeDoSSALPre]

\* Mutant: a phase that works on the IRMap is not in the list.
kHssaPhasesFewer ==
  {"hprop", "hdse", "epre", "lpre", "stmtpre", "analyzerc", "rclowering",
   "condbasednpc", "may2dassign", "cfgopt", "symrename"}

kHssaPhases ==
  {"irMap", "hprop", "hssa", "hdse", "ssadevirt", "ea", "epre", "lpre", "stmtpre",
   "rename2preg", "ti", "analyzerc", "spre", "rclowering", "delegaterc", "condbasedrc",
   "condbasednpc", "may2dassign", "pregrename", "bdcopt", "syncselect", "cfgopt",
   "placementrc", "symrename"}

\* emit: from the IRMap after the phases that work on it, else the statements.
MeDoEmission(prev) ==
  IF prev \in kHssaPhases
  THEN <<Get("mepredict"), Get("bblayout"), Step("newCode")>>
  ELSE <<Get("bblayout"), Step("keepStmts")>>

\* What a Run of the phase may do.  Without basic blocks nothing is run but emit and
\* rename2preg, and they touch nothing that is modelled.
Runs(p, prev) ==
  IF ~fn.hasBBs THEN {<<>>} ELSE IF p = "emit" THEN {MeDoEmission(prev)} ELSE Phases[p]

When(c, phases) == IF c THEN phases ELSE <<>>

ADDPHASE(p) == When(p \notin opt.skipPhases, <<p>>)

\* AddPhases.
PhaseSeq ==
  When(opt.o2, ADDPHASE("loopcanon") \o ADDPHASE("splitcriticaledge"))
  \o ADDPHASE("ssatab") \o ADDPHASE("aliasclass") \o ADDPHASE("ssa") \o ADDPHASE("dse")
  \o ADDPHASE("fsaa") \o ADDPHASE("hprop") \o ADDPHASE("symrename") \o ADDPHASE("hdse")
  \o When(opt.java, ADDPHASE("may2dassign") \o ADDPHASE("condbasednpc"))
  \o When(opt.o2 /\ opt.java, ADDPHASE("cfgopt"))
  \o When(opt.o2, ADDPHASE("epre") \o When(opt.java, ADDPHASE("stmtpre")))
  \o When(opt.java /\ ~opt.noRC,
          ADDPHASE("analyzerc") \o When(opt.rcLowering, ADDPHASE("rclowering")))
  \o ADDPHASE("rename2preg") \o When(opt.o2, ADDPHASE("lpre")) \o ADDPHASE("emit")

LastPhase == Len(PhaseSeq)

-----------------------------------------------------------------------------
Init ==
  /\ opt \in Options
  /\ funcs = 0 /\ pass = 0 /\ it = 1
  /\ phaseName = "" /\ prevPhaseName = "" /\ changecfgphase = ""
  /\ isCFGChanged = {} /\ stack = <<>>
  /\ cache = None /\ made = 0 /\ domCfg = 0
  /\ fn = NewMeFunction(TRUE) /\ ran = {}

(* RunMainOpt up to the first loop. *)
StartFunc ==
  /\ pass = 0 /\ funcs < MaxFuncs
  /\ funcs' = funcs + 1
  /\ \E hasBBs \in BOOLEAN : fn' = NewMeFunction(hasBBs)
  /\ \E hasSetjmp \in BOOLEAN : pass' = IF hasSetjmp THEN 0 ELSE 1
  /\ it' = 1 /\ phaseName' = "" /\ changecfgphase' = "" /\ ran' = {}
  /\ made' = 0 /\ domCfg' = 0
  /\ UNCHANGED <<opt, prevPhaseName, isCFGChanged, stack, cache>>

InLoop == pass > 0 /\ stack = <<>> /\ it <= LastPhase

\* The second loop passes over the phase that changed the graph.
PassOver ==
  /\ InLoop /\ pass = 2 /\ PhaseSeq[it] = changecfgphase
  /\ it' = it + 1
  /\ UNCHANGED <<opt, funcs, pass, phaseName, prevPhaseName, changecfgphase, ran,
                 isCFGChanged, stack, cache, made, domCfg, fn>>

\* Mutant: skipFrom is looked at in the first loop only.
RunFuncPhaseFirst ==
  /\ InLoop /\ ~(pass = 2 /\ PhaseSeq[it] = changecfgphase)
  /\ it' = IF pass = 1 /\ PhaseSeq[it] = opt.skipFrom THEN LastPhase ELSE it
  /\ prevPhaseName' = phaseName
  /\ phaseName' = PhaseSeq[it']
  /\ ran' = ran \cup {<<pass, phaseName'>>}
  /\ \E run \in Runs(phaseName', phaseName) :
       stack' = <<[phase |-> phaseName', todo |-> run, held |-> None]>>
  /\ UNCHANGED <<opt, funcs, pass, changecfgphase, isCFGChanged, cache, made, domCfg, fn>>

\* skipFrom sends the loop to the last phase before it runs the phase at hand.
RunFuncPhase ==
  /\ InLoop /\ ~(pass = 2 /\ PhaseSeq[it] = changecfgphase)
  /\ it' = IF PhaseSeq[it] = opt.skipFrom THEN LastPhase ELSE it
  /\ prevPhaseName' = phaseName
  /\ phaseName' = PhaseSeq[it']
  /\ ran' = ran \cup {<<pass, phaseName'>>}
  /\ \E run \in Runs(phaseName', phaseName) :
       stack' = <<[phase |-> phaseName', todo |-> run, held |-> None]>>
  /\ UNCHANGED <<opt, funcs, pass, changecfgphase, isCFGChanged, cache, made, domCfg, fn>>

-----------------------------------------------------------------------------
(* Steps of the innermost run. *)
Frame == Last(stack)
Ready(do) == stack # <<>> /\ Frame.todo # <<>> /\ Head(Frame.todo).do = do
Arg == Head(Frame.todo).a

\* The frame after its step; got are the results it holds pointers to.
Done(frame, got) == [frame EXCEPT !.todo = Tail(@), !.held = got]
Proceed == stack' = Append(Front(stack), Done(Frame, Frame.held))

GetHit ==
  /\ Ready("get") /\ cache[Arg] # 0
  /\ stack' = Append(Front(stack), Done(Frame, [Frame.held EXCEPT ![Arg] = cache[Arg]]))
  /\ UNCHANGED <<mgrVars, isCFGChanged, cache, made, domCfg, fn>>

GetMiss ==
  /\ Ready("get") /\ cache[Arg] = 0
  /\ \E run \in Runs(Arg, "") :
       stack' = Append(stack, [phase |-> Arg, todo |-> run, held |-> None])
  /\ UNCHANGED <<mgrVars, isCFGChanged, cache, made, domCfg, fn>>

\* The Run of an analysis returns and leaves a new result in the cache.
Result(p) ==
  /\ made' = made + 1
  /\ cache' = [cache EXCEPT ![p] = made']
  /\ domCfg' = IF p = "dominance" THEN fn.cfg ELSE domCfg
  /\ fn' = [fn EXCEPT !.irMap = IF p = "irmapbuild" THEN made' ELSE @,
                      !.meSSATab = IF p = "ssatab" THEN made' ELSE @]

\* Mutant: the result is not put into the cache.
GetReturnsUncached ==
  /\ Len(stack) > 1 /\ Frame.todo = <<>>
  /\ made' = made + 1
  /\ LET caller == stack[Len(stack) - 1]
     IN  stack' = Append(Front(Front(stack)),
                         Done(caller, [caller.held EXCEPT ![Frame.phase] = made']))
  /\ UNCHANGED <<mgrVars, isCFGChanged, cache, domCfg, fn>>

GetReturns ==
  /\ Len(stack) > 1 /\ Frame.todo = <<>>
  /\ Result(Frame.phase)
  /\ LET caller == stack[Len(stack) - 1]
     IN  stack' = Append(Front(Front(stack)),
                         Done(caller, [caller.held EXCEPT ![Frame.phase] = made']))
  /\ UNCHANGED <<mgrVars, isCFGChanged>>

\* A phase invalidates a result it has no more use for.
InvalidAnalysisResult ==
  /\ Ready("invalid")
  /\ cache' = [cache EXCEPT ![Arg] = 0]
  /\ stack' = Append(Front(stack), Done(Frame, [Frame.held EXCEPT ![Arg] = 0]))
  /\ UNCHANGED <<mgrVars, isCFGChanged, made, domCfg, fn>>

InvalidAllResults ==
  /\ Ready("invalidAll")
  /\ cache' = None
  /\ stack' = Append(Front(stack), Done(Frame, None))
  /\ UNCHANGED <<mgrVars, isCFGChanged, made, domCfg, fn>>

\* The last thing a phase does with the dominance it holds.
ChangeCFG ==
  /\ Ready("changeCFG")
  /\ fn' = [fn EXCEPT !.cfg = @ + 1]
  /\ stack' = Append(Front(stack), Done(Frame, [Frame.held EXCEPT !["dominance"] = 0]))
  /\ UNCHANGED <<mgrVars, isCFGChanged, cache, made, domCfg>>

SetChangeCFG ==
  /\ Ready("setChangeCFG")
  /\ isCFGChanged' = isCFGChanged \cup {Frame.phase}
  /\ Proceed
  /\ UNCHANGED <<mgrVars, cache, made, domCfg, fn>>

Delete(pool) == IF pool = "live" THEN "deleted" ELSE "deleted twice"

\* irmapbuild deletes the input code and the versions.
FreeStmts ==
  /\ Ready("freeStmts")
  /\ fn' = [fn EXCEPT !.code = Delete(@), !.versMp = Delete(@)]
  /\ Proceed
  /\ UNCHANGED <<mgrVars, isCFGChanged, cache, made, domCfg>>

\* The function is written anew from the IRMap, its former code deleted.
NewCode ==
  /\ Ready("newCode")
  /\ fn' = [fn EXCEPT !.code = "live"]
  /\ Proceed
  /\ UNCHANGED <<mgrVars, isCFGChanged, cache, made, domCfg>>

\* Uses of the function's statements, or of its IRMap through func->irMap.
Use ==
  /\ Ready("keepStmts") \/ Ready("useIrMap")
  /\ Proceed
  /\ UNCHANGED <<mgrVars, isCFGChanged, cache, made, domCfg, fn>>

-----------------------------------------------------------------------------
(* RunFuncPhase returns to the loop. *)
PhaseReturns == Len(stack) = 1 /\ Frame.todo = <<>>

AddResult ==
  IF Frame.phase \in Analyses /\ fn.hasBBs THEN Result(Frame.phase)
  ELSE UNCHANGED <<cache, made, domCfg, fn>>

\* Mutant: the iterator is moved back once more.
NextPhaseOneMore ==
  /\ PhaseReturns /\ ~(pass = 1 /\ Frame.phase \in isCFGChanged)
  /\ AddResult
  /\ it' = IF phaseName = opt.skipAfter THEN LastPhase - 1 ELSE it + 1
  /\ stack' = <<>>
  /\ UNCHANGED <<opt, funcs, pass, phaseName, prevPhaseName, changecfgphase, ran, isCFGChanged>>

\* skipAfter sends the loop to the last phase after the phase it names.
NextPhase ==
  /\ PhaseReturns /\ ~(pass = 1 /\ Frame.phase \in isCFGChanged)
  /\ AddResult
  /\ it' = IF phaseName = opt.skipAfter THEN LastPhase ELSE it + 1
  /\ stack' = <<>>
  /\ UNCHANGED <<opt, funcs, pass, phaseName, prevPhaseName, changecfgphase, ran, isCFGChanged>>

\* The first loop is left, its results invalidated and the second one begun, on a new
\* MeFunction for the code the phase has written.
StartOver ==
  /\ PhaseReturns /\ pass = 1 /\ Frame.phase \in isCFGChanged
  /\ changecfgphase' = Frame.phase
  /\ isCFGChanged' = isCFGChanged \ {Frame.phase}
  /\ cache' = None /\ made' = 0 /\ domCfg' = 0
  /\ fn' = [NewMeFunction(TRUE) EXCEPT !.code = fn.code]
  /\ pass' = 2 /\ it' = 1 /\ stack' = <<>>
  /\ UNCHANGED <<opt, funcs, phaseName, prevPhaseName, ran>>

EndFunc ==
  /\ pass > 0 /\ stack = <<>> /\ it > LastPhase
  /\ cache' = None
  /\ pass' = 0
  /\ UNCHANGED <<opt, funcs, it, phaseName, prevPhaseName, changecfgphase, ran,
                 isCFGChanged, stack, made, domCfg, fn>>

Next ==
  \/ StartFunc \/ PassOver \/ RunFuncPhase \/ NextPhase \/ StartOver \/ EndFunc
  \/ GetHit \/ GetMiss \/ GetReturns \/ InvalidAnalysisResult \/ InvalidAllResults
  \/ ChangeCFG \/ SetChangeCFG \/ FreeStmts \/ NewCode \/ Use

Spec == Init /\ [][Next]_vars

\* The loop is sequential code: it goes on while it can.
FairSpec == Spec /\ WF_vars(Next)

-----------------------------------------------------------------------------
(* Properties. *)

\* Types of the manager, the cache and the MeFunction; no pool is deleted twice.
TypeOK ==
  /\ opt \in Options
  /\ funcs \in 0 .. MaxFuncs /\ pass \in 0 .. 2 /\ it \in 1 .. LastPhase + 1
  /\ {phaseName, prevPhaseName, changecfgphase} \subseteq ToSet(PhaseSeq) \cup {""}
  /\ isCFGChanged \subseteq ToSet(PhaseSeq)
  /\ \A i \in DOMAIN stack :
       /\ stack[i].phase \in DOMAIN Phases \cup {"emit"}
       /\ stack[i].held \in [Analyses -> 0 .. made]
  /\ made \in Nat /\ cache \in [Analyses -> 0 .. made]
  /\ fn.cfg \in Nat /\ domCfg \in 0 .. fn.cfg
  /\ {fn.irMap, fn.meSSATab} \subseteq 0 .. made

\* The versions and the code of a function are in one pool each, which irmapbuild
\* deletes: it must run once per MeFunction, so nobody may invalidate its result.
DeletedOnce == fn.versMp # "deleted twice" /\ fn.code # "deleted twice"

\* The results a running phase holds pointers to are not invalidated by what it
\* calls; and func->irMap and func->meSSATab, which bblayout, emit and delegaterc
\* use without asking, are those of the cache.
NoDanglingResult ==
  /\ \A i \in DOMAIN stack : \A a \in Analyses : stack[i].held[a] \in {0, cache[a]}
  /\ pass > 0 /\ fn.irMap # 0 => cache["irmapbuild"] = fn.irMap
  /\ pass > 0 /\ fn.meSSATab # 0 => cache["ssatab"] = fn.meSSATab
  /\ Ready("useIrMap") \/ Ready("newCode") => fn.irMap # 0

\* A phase that works on dominance never works on that of a former graph.
DominanceIsCurrent ==
  \A i \in DOMAIN stack : stack[i].held["dominance"] # 0 => domCfg = fn.cfg

\* emit chooses its source by the name of the phase before it: it takes the
\* statements only if they are still there and no IRMap has replaced them.
EmitsWhatThereIs == Ready("keepStmts") => fn.code = "live" /\ fn.irMap = 0

\* Whichever phases were skipped or run again, a phase works on the function as it is now.
InputsAreCurrent == DominanceIsCurrent /\ EmitsWhatThereIs

\* A function that was taken up has its code when it is done with, whatever phases
\* were skipped, and no flag and no result is left for the next MeFunction, which may
\* lie at the same address.
LeavesNothingBehind ==
  pass = 0 => fn.code = "live" /\ cache = None /\ isCFGChanged = {}

\* What the phases of a function share is made once, is there while it is used, and is
\* gone when the function is done with.
MemoryIsSound == TypeOK /\ DeletedOnce /\ NoDanglingResult /\ LeavesNothingBehind

Started == stack = <<>> /\ stack' # <<>>

\* A phase runs once in a loop, and the one that changed the graph once in both; and in
\* one loop nothing but emit runs from the phase named by --skip-from on or after the
\* one named by --skip-after.
SkipsTheRest ==
  [][Started =>
       /\ <<pass, phaseName'>> \notin ran /\ phaseName' # changecfgphase
       /\ phaseName' # "emit" =>
            /\ <<pass, opt.skipAfter>> \notin ran
            /\ \A i \in 1 .. it : PhaseSeq[i] # opt.skipFrom]_vars

\* A function is done with in the end.
FunctionIsDone == pass # 0 ~> pass = 0
=============================================================================
