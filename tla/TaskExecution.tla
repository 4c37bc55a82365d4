---------------------------- MODULE TaskExecution ----------------------------
(***************************************************************************)
(* What a user of MplScheduler is promised, threads and locks left out: a  *)
(* batch of tasks is opened, run in any order, each task finished after it *)
(* has been run (in id order if so asked), and the call returns when all   *)
(* of them are finished.                                                   *)
(***************************************************************************)
EXTENDS Integers

CONSTANT MaxTasks   \* bound: tasks in a batch

VARIABLES
  phase,     \* "idle", "open", "running", "returned"
  added,     \* the ids of the batch
  inOrder,   \* finish in id order
  ran, done  \* ids whose Run, whose Finish has returned

vars == <<phase, added, inOrder, ran, done>>

Init == phase = "idle" /\ added = {} /\ inOrder = FALSE /\ ran = {} /\ done = {}

Goto(from, to) == phase = from /\ phase' = to

Clear ==
  /\ Goto("idle", "open") \/ Goto("returned", "idle")
  /\ added' = {} /\ inOrder' = FALSE /\ ran' = {} /\ done' = {}

Add ==
  /\ Goto("open", "open")
  /\ \E n \in 1 .. MaxTasks : added = 0 .. n - 2 /\ added' = 0 .. n - 1
  /\ UNCHANGED <<inOrder, ran, done>>

\* A batch started without threads returns at once and does nothing.
Start ==
  /\ Goto("open", "running") \/ Goto("open", "returned")
  /\ inOrder' \in BOOLEAN
  /\ UNCHANGED <<added, ran, done>>

Run ==
  /\ Goto("running", "running")
  /\ \E t \in added \ ran : ran' = ran \cup {t}
  /\ UNCHANGED <<added, inOrder, done>>

Finish ==
  /\ Goto("running", "running")
  /\ \E t \in ran \ done :
       /\ inOrder => \A u \in added : u < t => u \in done
       /\ done' = done \cup {t}
  /\ UNCHANGED <<added, inOrder, ran>>

Return ==
  /\ Goto("running", "returned")
  /\ done = added
  /\ UNCHANGED <<added, inOrder, ran, done>>

Next == Clear \/ Add \/ Start \/ Run \/ Finish \/ Return

Spec == Init /\ [][Next]_vars
=============================================================================
