-------------------------- MODULE MCMePhaseManager --------------------------
EXTENDS MePhaseManager

\* Java with and without -O2 and reference counting, another language with -O2.
Base == [o2 : BOOLEAN, java : {TRUE}, noRC : BOOLEAN, rcLowering : BOOLEAN]
        \cup [o2 : {TRUE}, java : {FALSE}, noRC : {TRUE}, rcLowering : {TRUE}]

Named == {"loopcanon", "ssatab", "fsaa", "hprop", "hdse", "may2dassign", "cfgopt",
          "rename2preg", "emit"}

Skipping(skipPhases, skipFrom, skipAfter) ==
  {[o2 |-> b.o2, java |-> b.java, noRC |-> b.noRC, rcLowering |-> b.rcLowering,
    skipPhases |-> s, skipFrom |-> f, skipAfter |-> a] :
     b \in Base, s \in skipPhases, f \in skipFrom, a \in skipAfter}

\* Not emit after --skip-after: the loop over the phases would not end.
MCOptions ==
  Skipping({{}, {"hdse", "lpre"}}, Named \cup {""}, {"", "hdse"})
  \cup Skipping({{}}, {""}, {"splitcriticaledge", "cfgopt", "rename2preg"})
=============================================================================
