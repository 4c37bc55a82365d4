-------------------------- MODULE MCCgPhaseManager --------------------------
EXTENDS CgPhaseManager

AtO0 == {"genEH", "genCfi", "insertYieldpoint", "doLiveAnalysisEh"}
AtO1 == AtO0 \cup {"doEbo", "doCfgo", "doIco"}
AtO2 == AtO1 \cup {"doPrePeephole", "doPeephole", "doStoreLoadOpt", "doGlobalOpt"}

Levels == {<<0, AtO0>>, <<1, AtO1>>, <<2, AtO2>>,
           <<2, AtO2 \cup {"doPreSchedule", "doSchedule"}>>,
           <<2, (AtO2 \cup {"doSchedule"}) \ {"doGlobalOpt", "doLiveAnalysisEh"}>>,
           <<2, AtO2 \ {"doPrePeephole", "genCfi"}>>}

NoRange == <<1, 0>>

Command(levels, skipPhases, skipFrom, skipAfter, ranges) ==
  {[optim_level |-> l[1], java |-> j, on |-> l[2], skipPhases |-> s, skipFrom |-> f,
    skipAfter |-> a, useRange |-> r # NoRange, range |-> r] :
     l \in levels, j \in BOOLEAN, s \in skipPhases, f \in skipFrom, a \in skipAfter,
     r \in ranges}

Named == {"optlocalref", "ebo", "storeloadopt", "globalopt", "prepeephole1", "regalloc",
          "peephole", "fixshortbranch"}

MCOptions ==
  Command(Levels, {{}, {"ebo1", "globalopt"}}, Named \cup {""}, {""}, {NoRange})
  \cup Command(Levels, {{}}, {"", "postebo"}, Named, {NoRange})
  \cup Command(Levels, {{}}, {"", "ico"}, {"", "layoutstackframe"}, {<<0, 0>>, <<1, 3>>})
=============================================================================
