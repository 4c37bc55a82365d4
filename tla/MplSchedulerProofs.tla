------------------------- MODULE MplSchedulerProofs -------------------------
(***************************************************************************)
(* Theorems about MplScheduler for any set of workers and any bounds.      *)
(*                                                                         *)
(* The safety properties follow from one inductive invariant, IInv, which  *)
(* says where each task is: not yet claimed, in the hands of exactly one   *)
(* worker, waiting in tbTaskIdsToFinish, or finished.                      *)
(***************************************************************************)
EXTENDS MplScheduler, TLAPS

\* The worker holds a task it has claimed and neither finished nor handed over.
Holds(w) == workerPc[w] \in {"run", "finish", "taskIdFinish"}

\* A held task was claimed, by this worker only, and is where its pc says.
HeldInv ==
  /\ \A w \in Workers : Holds(w) =>
       /\ workerTask[w] < taskIdToRun
       /\ workerTask[w] \notin tbTaskIdsToFinish
       /\ finishCount[workerTask[w]] = 0
       /\ runCount[workerTask[w]] = IF workerPc[w] = "run" THEN 0 ELSE 1
  /\ \A v, w \in Workers :
       Holds(v) /\ Holds(w) /\ workerTask[v] = workerTask[w] => v = w

CountInv ==
  /\ \A t \in Tasks : runCount[t] <= 1 /\ finishCount[t] <= runCount[t]
  /\ \A t \in Tasks : t >= taskIdToRun => runCount[t] = 0

\* No claimed task is forgotten.
CoverInv ==
  \A t \in Tasks : t < taskIdToRun =>
    \/ \E w \in Workers : Holds(w) /\ workerTask[w] = t
    \/ t \in tbTaskIdsToFinish
    \/ finishCount[t] = 1

\* A task in the set was run; it is finished only while it is being removed.
SetInv ==
  \A t \in tbTaskIdsToFinish :
    /\ t < taskIdToRun
    /\ runCount[t] = 1
    /\ finishCount[t] = 1 <=> (finishPc = "remove" /\ t = finishTask)

FinishInv ==
  /\ finishPc \in {"finish", "remove"} => finishTask \in tbTaskIdsToFinish
  /\ finishPc = "finish" => finishTask = taskIdExpected
  /\ finishPc = "first" => tbTaskIdsToFinish # {}
  /\ finishPc = "exited" /\ mainPc \in {"join", "joinFinish"} => nTasksFinish >= numberTasks
  /\ finishPc \notin {"none", "exited"} => isSchedulerSeq /\ mainPc \in {"join", "joinFinish"}

\* In sequential mode the finished tasks are a prefix, and both counters its end.
SeqInv ==
  /\ isSchedulerSeq => nTasksFinish = taskIdExpected
  /\ isSchedulerSeq => \A t \in Tasks : finishCount[t] = 1 <=> t < taskIdExpected
  /\ ~isSchedulerSeq => tbTaskIdsToFinish = {}
  /\ \A w \in Workers : workerPc[w] \in {"taskIdFinish", "signal"} => isSchedulerSeq
  /\ \A w \in Workers : workerPc[w] = "finish" => ~isSchedulerSeq

\* Where the owner is says which threads exist and how far they are.
OwnerInv ==
  /\ mainPc \in {"idle", "adding"} =>
       /\ taskIdToRun = 0 /\ ~isSchedulerSeq
       /\ taskIdExpected = 0 /\ nTasksFinish = 0
  /\ mainPc \in {"idle", "adding", "returned"} =>
       \A w \in Workers : workerPc[w] \in {"none", "exited"}
  /\ mainPc = "idle" => numberTasks = 0
  /\ mainPc \in {"spawn", "spawnFinish", "join", "joinFinish"} =>
       /\ nthreads # {}
       /\ \A w \in Workers \ nthreads : workerPc[w] = "none"
       /\ \A w \in Workers : workerPc[w] = "exited" => taskIdToRun = numberTasks
  /\ mainPc \in {"spawnFinish", "join", "joinFinish"} =>
       \A w \in nthreads : workerPc[w] # "none"
  /\ mainPc = "join" /\ isSchedulerSeq => finishPc # "none"
  /\ mainPc = "joinFinish" =>
       /\ isSchedulerSeq /\ finishPc # "none"
       /\ \A w \in nthreads : workerPc[w] = "exited"
  /\ mainPc = "spawnFinish" => isSchedulerSeq
  /\ mainPc \in {"spawn", "spawnFinish"} => finishPc = "none"
  /\ mainPc = "returned" /\ nthreads # {} =>
       \A t \in 0 .. numberTasks - 1 : finishCount[t] = 1

IInv == /\ TypeOK /\ HeldInv /\ CountInv /\ CoverInv
        /\ SetInv /\ FinishInv /\ SeqInv /\ OwnerInv

\* The initial state satisfies the inductive invariant.
LEMMA InitIInv == Init => IInv
<1> SUFFICES ASSUME Init PROVE IInv
  OBVIOUS
<1> USE SchedulerAssumption
    DEF IInv, TypeOK, Tasks, Holds, HeldInv, CountInv, CoverInv, SetInv, FinishInv,
        SeqInv, OwnerInv, ownerVars, workerVars, finishVars, shared
<1>1. TypeOK
  <2>1. /\ numberTasks \in 0 .. MaxTasks /\ taskIdToRun \in 0 .. numberTasks
        /\ runs \in 0 .. MaxRuns
    BY DEF Init
  <2>2. runCount \in [Tasks -> Nat] /\ finishCount \in [Tasks -> Nat]
    BY DEF Init
  <2>3. /\ workerTask \in [Workers -> Nat] /\ finishTask \in Nat
        /\ taskIdExpected \in Nat /\ nTasksFinish \in Nat
    BY DEF Init
  <2>4. workerPc \in [Workers -> {"none"}]
    BY DEF Init
  <2> QED
    BY <2>1, <2>2, <2>3, <2>4 DEF Init
<1>2. HeldInv
  BY DEF Init
<1>3. CountInv
  BY DEF Init
<1>4. CoverInv
  BY DEF Init
<1>5. SetInv
  BY DEF Init
<1>6. FinishInv
  BY DEF Init
<1>7. SeqInv
  BY DEF Init
<1>8. OwnerInv
  BY DEF Init
<1> QED
  BY <1>1, <1>2, <1>3, <1>4, <1>5, <1>6, <1>7, <1>8

\* Every step of every thread preserves the inductive invariant.
LEMMA StepIInv == IInv /\ [Next]_vars => IInv'
<1> SUFFICES ASSUME IInv, [Next]_vars PROVE IInv'
  OBVIOUS
<1> USE SchedulerAssumption
    DEF IInv, TypeOK, Tasks, Holds, HeldInv, CountInv, CoverInv, SetInv, FinishInv,
        SeqInv, OwnerInv, ownerVars, workerVars, finishVars, shared
<1>1. ASSUME Reset PROVE IInv'
  <2>1. TypeOK'
    <3>1. numberTasks' \in 0 .. MaxTasks /\ taskIdToRun' \in 0 .. numberTasks'
      BY <1>1 DEF Reset
    <3>2. runCount' \in [Tasks -> Nat] /\ finishCount' \in [Tasks -> Nat]
      BY <1>1 DEF Reset
    <3> QED
      BY <1>1, <3>1, <3>2 DEF Reset
  <2>2. HeldInv'
    BY <1>1 DEF Reset
  <2>3. CountInv'
    BY <1>1 DEF Reset
  <2>4. CoverInv'
    BY <1>1 DEF Reset
  <2>5. SetInv'
    BY <1>1 DEF Reset
  <2>6. FinishInv'
    BY <1>1 DEF Reset
  <2>7. SeqInv'
    BY <1>1 DEF Reset
  <2>8. OwnerInv'
    BY <1>1 DEF Reset
  <2> QED
    BY <2>1, <2>2, <2>3, <2>4, <2>5, <2>6, <2>7, <2>8
<1>2. ASSUME AddTask PROVE IInv'
  BY <1>2 DEF AddTask
<1>3. ASSUME NEW threads \in SUBSET Workers, NEW seq \in BOOLEAN,
             RunTask(threads, seq)
      PROVE IInv'
  BY <1>3 DEF RunTask
<1>4. ASSUME NEW w \in Workers, SpawnWorker(w) PROVE IInv'
  BY <1>4, ZenonT(40) DEF SpawnWorker
<1>5. ASSUME SpawnFinish PROVE IInv'
  BY <1>5 DEF SpawnFinish
<1>6. ASSUME Join PROVE IInv'
  <2>1. TypeOK'
    BY <1>6 DEF Join
  <2>2. HeldInv'
    BY <1>6 DEF Join
  <2>3. CountInv'
    BY <1>6 DEF Join
  <2>4. CoverInv'
    BY <1>6 DEF Join
  <2>5. SetInv'
    BY <1>6 DEF Join
  <2>6. FinishInv'
    BY <1>6 DEF Join
  <2>7. SeqInv'
    BY <1>6 DEF Join
  <2>8. ASSUME mainPc' = "returned", NEW t \in 0 .. numberTasks - 1
        PROVE  finishCount[t] = 1
    <3>1. t \in Tasks
      OBVIOUS
    <3>2. CASE mainPc = "joinFinish" /\ finishPc = "exited"
      BY <3>1, <3>2
    <3>3. CASE mainPc = "join" /\ ~isSchedulerSeq /\ \A w \in nthreads : workerPc[w] = "exited"
      <4>1. \A w \in Workers : ~Holds(w)
        BY <3>3
      <4>2. t < taskIdToRun
        BY <3>3
      <4> QED
        BY <3>1, <3>3, <4>1, <4>2 DEF CoverInv
    <3> QED
      BY <1>6, <2>8, <3>2, <3>3 DEF Join
  <2>9. OwnerInv'
    BY <1>6, <2>8 DEF Join
  <2> QED
    BY <2>1, <2>2, <2>3, <2>4, <2>5, <2>6, <2>7, <2>9
<1>7. ASSUME NEW w \in Workers, GetTaskToRun(w) PROVE IInv'
  <2>1. CASE taskIdToRun < numberTasks
    <3>0. /\ workerPc[w] = "getTask" /\ taskIdToRun \in Tasks
          /\ workerPc' = [workerPc EXCEPT ![w] = "run"]
          /\ workerTask' = [workerTask EXCEPT ![w] = taskIdToRun]
          /\ taskIdToRun' = taskIdToRun + 1
          /\ UNCHANGED <<ownerVars, runCount, finishVars, shared>>
      BY <1>7, <2>1 DEF GetTaskToRun, WorkerGoto
    <3>1. TypeOK'
      BY <2>1, <3>0
    <3>2. HeldInv'
      <4>1. \A v \in Workers : v # w => workerPc'[v] = workerPc[v] /\ workerTask'[v] = workerTask[v]
        BY <3>0
      <4>2. workerPc'[w] = "run" /\ workerTask'[w] = taskIdToRun
        BY <3>0
      <4>3. runCount[taskIdToRun] = 0 /\ finishCount[taskIdToRun] = 0 /\ taskIdToRun \notin tbTaskIdsToFinish
        BY <3>0
      <4>4. HeldInv /\ taskIdToRun \in Nat /\ workerTask \in [Workers -> Nat]
        OBVIOUS
      <4> HIDE DEF IInv
      <4>5. ASSUME NEW v \in Workers, Holds(v)', v # w
            PROVE  /\ workerTask'[v] < taskIdToRun
                   /\ workerTask'[v] \notin tbTaskIdsToFinish
                   /\ finishCount[workerTask'[v]] = 0
                   /\ runCount[workerTask'[v]] = IF workerPc'[v] = "run" THEN 0 ELSE 1
        BY <4>1, <4>4, <4>5
      <4>6. ASSUME NEW v \in Workers, NEW u \in Workers, Holds(v)', Holds(u)',
                   workerTask'[v] = workerTask'[u]
            PROVE  v = u
        BY <4>1, <4>2, <4>4, <4>5, <4>6
      <4>7. ASSUME NEW v \in Workers, Holds(v)'
            PROVE  /\ workerTask'[v] < taskIdToRun + 1
                   /\ workerTask'[v] \notin tbTaskIdsToFinish
                   /\ finishCount[workerTask'[v]] = 0
                   /\ runCount[workerTask'[v]] = IF workerPc'[v] = "run" THEN 0 ELSE 1
        <5>1. CASE v = w
          BY <4>2, <4>3, <4>4, <5>1
        <5>2. CASE v # w
          <6>1. workerTask'[v] < taskIdToRun /\ workerTask'[v] \in Nat
            BY <4>1, <4>4, <4>5, <4>7, <5>2
          <6> QED
            BY <4>4, <4>5, <4>7, <5>2, <6>1
        <5> QED
          BY <5>1, <5>2
      <4> QED
        BY <3>0, <4>6, <4>7
    <3>3. CountInv'
      BY <2>1, <3>0
    <3>4. CoverInv'
      <4>1. \A v \in Workers : v # w => workerPc'[v] = workerPc[v] /\ workerTask'[v] = workerTask[v]
        BY <3>0
      <4>2. Holds(w)' /\ workerTask'[w] = taskIdToRun /\ ~Holds(w)
        BY <3>0
      <4>3. CoverInv /\ taskIdToRun \in Nat
        OBVIOUS
      <4> HIDE DEF IInv
      <4> SUFFICES ASSUME NEW t \in Tasks, t < taskIdToRun + 1,
                          t \notin tbTaskIdsToFinish, finishCount[t] # 1
                   PROVE  \E v \in Workers : Holds(v)' /\ workerTask'[v] = t
        BY <3>0
      <4>4. CASE t = taskIdToRun
        BY <4>2, <4>4
      <4>5. CASE t < taskIdToRun
        <5>1. PICK v \in Workers : Holds(v) /\ workerTask[v] = t
          BY <4>3, <4>5
        <5> QED
          BY <4>1, <4>2, <5>1
      <4> QED
        BY <4>3, <4>4, <4>5
    <3>5. SetInv'
      BY <2>1, <3>0
    <3>6. FinishInv'
      BY <2>1, <3>0
    <3>7. SeqInv'
      BY <2>1, <3>0
    <3>8. OwnerInv'
      <4>1. /\ mainPc \in {"spawn", "spawnFinish", "join"}
            /\ \A v \in Workers : workerPc[v] # "exited" /\ w \in nthreads
        BY <2>1, <3>0
      <4>2. \A v \in Workers : workerPc'[v] = IF v = w THEN "run" ELSE workerPc[v]
        BY <3>0
      <4> QED
        BY <3>0, <4>1, <4>2
    <3> QED
      BY <3>1, <3>2, <3>3, <3>4, <3>5, <3>6, <3>7, <3>8
  <2>2. CASE ~(taskIdToRun < numberTasks)
    <3>0. /\ workerPc[w] = "getTask"
          /\ workerPc' = [workerPc EXCEPT ![w] = "exited"]
          /\ UNCHANGED <<ownerVars, workerTask, taskIdToRun, runCount, finishVars, shared>>
      BY <1>7, <2>2 DEF GetTaskToRun, WorkerGoto
    <3>1. TypeOK'
      BY <3>0
    <3>2. HeldInv'
      <4>1. \A v \in Workers : Holds(v)' => Holds(v) /\ workerPc'[v] = workerPc[v]
        BY <3>0
      <4> QED
        BY <3>0, <4>1
    <3>3. CountInv'
      BY <2>2, <3>0
    <3>4. CoverInv'
      <4>1. \A v \in Workers : Holds(v) => Holds(v)'
        BY <3>0
      <4> QED
        BY <3>0, <4>1
    <3>5. SetInv'
      BY <2>2, <3>0
    <3>6. FinishInv'
      BY <2>2, <3>0
    <3>7. SeqInv'
      BY <2>2, <3>0
    <3>8. OwnerInv'
      BY <2>2, <3>0
    <3> QED
      BY <3>1, <3>2, <3>3, <3>4, <3>5, <3>6, <3>7, <3>8
  <2> QED
    BY <2>1, <2>2
<1>8. ASSUME NEW w \in Workers, RunOneTask(w) PROVE IInv'
  <2>0. Holds(w) /\ workerTask[w] \in Tasks
    BY <1>8 DEF RunOneTask, WorkerGoto
  <2>1. TypeOK'
    BY <1>8, <2>0 DEF RunOneTask, WorkerGoto
  <2>2. HeldInv'
    BY <1>8, <2>0 DEF RunOneTask, WorkerGoto
  <2>3. CountInv'
    <3>1. \A t \in Tasks : runCount'[t] = IF t = workerTask[w] THEN 1 ELSE runCount[t]
      BY <1>8, <2>0 DEF RunOneTask, WorkerGoto
    <3>2. finishCount[workerTask[w]] = 0 /\ finishCount' = finishCount
      BY <1>8 DEF RunOneTask, WorkerGoto
    <3>3. workerTask[w] < taskIdToRun /\ taskIdToRun' = taskIdToRun
      BY <1>8, <2>0 DEF RunOneTask, WorkerGoto
    <3> SUFFICES ASSUME NEW t \in Tasks
                 PROVE  /\ runCount'[t] <= 1 /\ finishCount'[t] <= runCount'[t]
                        /\ t >= taskIdToRun' => runCount'[t] = 0
      OBVIOUS
    <3>0. CountInv /\ taskIdToRun \in Nat
      OBVIOUS
    <3> HIDE DEF IInv
    <3>4. CASE t = workerTask[w]
      BY <2>0, <3>0, <3>1, <3>2, <3>3, <3>4
    <3>5. CASE t # workerTask[w]
      BY <3>0, <3>1, <3>2, <3>3, <3>5
    <3> QED
      BY <3>4, <3>5
  <2>4. CoverInv'
    BY <1>8, <2>0 DEF RunOneTask, WorkerGoto
  <2>5. SetInv'
    BY <1>8, <2>0 DEF RunOneTask, WorkerGoto
  <2>6. FinishInv'
    BY <1>8, <2>0 DEF RunOneTask, WorkerGoto
  <2>7. SeqInv'
    BY <1>8, <2>0 DEF RunOneTask, WorkerGoto
  <2>8. OwnerInv'
    BY <1>8, <2>0, ZenonT(40) DEF RunOneTask, WorkerGoto
  <2> QED
    BY <2>1, <2>2, <2>3, <2>4, <2>5, <2>6, <2>7, <2>8
<1>9. ASSUME NEW w \in Workers, FinishInWorker(w) PROVE IInv'
  <2>0. Holds(w) /\ workerTask[w] \in Tasks
    BY <1>9 DEF FinishInWorker, WorkerGoto
  <2>1. TypeOK'
    <3>1. finishCount' \in [Tasks -> Nat]
      BY <1>9, <2>0 DEF FinishInWorker, WorkerGoto
    <3>2. workerPc' \in [Workers -> {"none", "getTask", "run", "finish", "taskIdFinish",
                                     "signal", "exited"}]
      BY <1>9 DEF FinishInWorker, WorkerGoto
    <3> QED
      BY <1>9, <3>1, <3>2 DEF FinishInWorker, WorkerGoto
  <2>2. HeldInv'
    BY <1>9, <2>0 DEF FinishInWorker, WorkerGoto
  <2>3. CountInv'
    BY <1>9, <2>0 DEF FinishInWorker, WorkerGoto
  <2>4. CoverInv'
    BY <1>9, <2>0 DEF FinishInWorker, WorkerGoto
  <2>5. SetInv'
    BY <1>9, <2>0 DEF FinishInWorker, WorkerGoto
  <2>6. FinishInv'
    BY <1>9, <2>0 DEF FinishInWorker, WorkerGoto
  <2>7. SeqInv'
    BY <1>9, <2>0 DEF FinishInWorker, WorkerGoto
  <2>8. OwnerInv'
    BY <1>9, <2>0 DEF FinishInWorker, WorkerGoto
  <2> QED
    BY <2>1, <2>2, <2>3, <2>4, <2>5, <2>6, <2>7, <2>8
<1>10. ASSUME NEW w \in Workers, TaskIdFinish(w) PROVE IInv'
  <2>0. Holds(w) /\ workerTask[w] \in Tasks
    BY <1>10 DEF TaskIdFinish, WorkerGoto
  <2>1. TypeOK'
    BY <1>10, <2>0 DEF TaskIdFinish, WorkerGoto
  <2>2. HeldInv'
    BY <1>10, <2>0 DEF TaskIdFinish, WorkerGoto
  <2>3. CountInv'
    BY <1>10, <2>0 DEF TaskIdFinish, WorkerGoto
  <2>4. CoverInv'
    BY <1>10, <2>0 DEF TaskIdFinish, WorkerGoto
  <2>5. SetInv'
    <3>1. /\ workerTask[w] < taskIdToRun /\ runCount[workerTask[w]] = 1
          /\ finishCount[workerTask[w]] = 0 /\ workerTask[w] \notin tbTaskIdsToFinish
      BY <1>10, <2>0 DEF TaskIdFinish, WorkerGoto
    <3>2. finishPc = "remove" => workerTask[w] # finishTask
      BY <3>1
    <3> QED
      BY <1>10, <3>1, <3>2 DEF TaskIdFinish, WorkerGoto
  <2>6. FinishInv'
    BY <1>10, <2>0 DEF TaskIdFinish, WorkerGoto
  <2>7. SeqInv'
    BY <1>10, <2>0 DEF TaskIdFinish, WorkerGoto
  <2>8. OwnerInv'
    BY <1>10, <2>0, ZenonT(40) DEF TaskIdFinish, WorkerGoto
  <2> QED
    BY <2>1, <2>2, <2>3, <2>4, <2>5, <2>6, <2>7, <2>8
<1>11. ASSUME NEW w \in Workers, SignalFinish(w) PROVE IInv'
  BY <1>11, ZenonT(40) DEF SignalFinish, WorkerGoto
<1>12. ASSUME FinishStart PROVE IInv'
  BY <1>12 DEF FinishStart, FinishGoto
<1>13. ASSUME FinishOuterTest PROVE IInv'
  <2>1. TypeOK'
    BY <1>13 DEF FinishOuterTest, FinishGoto
  <2>2. HeldInv'
    BY <1>13 DEF FinishOuterTest, FinishGoto
  <2>3. CountInv'
    BY <1>13 DEF FinishOuterTest, FinishGoto
  <2>4. CoverInv'
    BY <1>13 DEF FinishOuterTest, FinishGoto
  <2>5. SetInv'
    BY <1>13 DEF FinishOuterTest, FinishGoto
  <2>6. FinishInv'
    BY <1>13 DEF FinishOuterTest, FinishGoto
  <2>7. SeqInv'
    BY <1>13 DEF FinishOuterTest, FinishGoto
  <2>8. OwnerInv'
    BY <1>13 DEF FinishOuterTest, FinishGoto
  <2> QED
    BY <2>1, <2>2, <2>3, <2>4, <2>5, <2>6, <2>7, <2>8
<1>14. ASSUME FinishPauseTest PROVE IInv'
  BY <1>14 DEF FinishPauseTest, FinishGoto
<1>15. ASSUME FinishWait PROVE IInv'
  BY <1>15 DEF FinishWait, FinishGoto
<1>16. ASSUME SpuriousWakeup PROVE IInv'
  BY <1>16 DEF SpuriousWakeup, FinishGoto
<1>17. ASSUME GetTaskIdsFinishSize PROVE IInv'
  BY <1>17 DEF GetTaskIdsFinishSize, FinishGoto
<1>18. ASSUME FinishPause PROVE IInv'
  BY <1>18 DEF FinishPause, FinishGoto
<1>19. ASSUME GetTaskFinishFirst PROVE IInv'
  BY <1>19, SMTT(40) DEF GetTaskFinishFirst
<1>20. ASSUME FinishFirst PROVE IInv'
  <2>0. finishTask \in Tasks /\ finishTask = taskIdExpected /\ finishCount[finishTask] = 0
    BY <1>20 DEF FinishFirst
  <2>1. TypeOK'
    BY <1>20, <2>0 DEF FinishFirst
  <2>2. HeldInv'
    BY <1>20, <2>0 DEF FinishFirst
  <2>3. CountInv'
    BY <1>20, <2>0 DEF FinishFirst
  <2>4. CoverInv'
    BY <1>20, <2>0 DEF FinishFirst
  <2>5. SetInv'
    BY <1>20, <2>0 DEF FinishFirst
  <2>6. FinishInv'
    BY <1>20, <2>0 DEF FinishFirst
  <2>7. SeqInv'
    BY <1>20, <2>0 DEF FinishFirst
  <2>8. OwnerInv'
    BY <1>20, <2>0 DEF FinishFirst
  <2> QED
    BY <2>1, <2>2, <2>3, <2>4, <2>5, <2>6, <2>7, <2>8
<1>21. ASSUME RemoveTaskFinish PROVE IInv'
  BY <1>21 DEF RemoveTaskFinish
<1>22. CASE UNCHANGED vars
  <2>1. TypeOK'
    BY <1>22 DEF vars
  <2>2. HeldInv'
    BY <1>22 DEF vars
  <2>3. CountInv'
    BY <1>22 DEF vars
  <2>4. CoverInv'
    BY <1>22 DEF vars
  <2>5. SetInv'
    BY <1>22 DEF vars
  <2>6. FinishInv'
    BY <1>22 DEF vars
  <2>7. SeqInv'
    BY <1>22 DEF vars
  <2>8. OwnerInv'
    BY <1>22 DEF vars
  <2> QED
    BY <2>1, <2>2, <2>3, <2>4, <2>5, <2>6, <2>7, <2>8
<1> HIDE DEF IInv
<1> QED
  BY <1>1, <1>2, <1>3, <1>4, <1>5, <1>6, <1>7, <1>8, <1>9, <1>10, <1>11,
     <1>12, <1>13, <1>14, <1>15, <1>16, <1>17, <1>18, <1>19, <1>20, <1>21, <1>22
     DEF Next, Spawn, ThreadMain, ThreadFinish

\* The inductive invariant holds in every reachable state of the thread pool.
THEOREM IInvHolds == Spec => []IInv
  BY InitIInv, StepIInv, PTL DEF Spec

\* Type correctness: every variable of the scheduler keeps its type.
THEOREM TypeCorrect == Spec => []TypeOK
<1>1. IInv => TypeOK
  BY DEF IInv
<1> QED
  BY <1>1, IInvHolds, PTL

\* No task is run or finished twice, or finished before it was run, for any number
\* of workers and tasks.
THEOREM RunsExactlyOnce == Spec => []ExactlyOnce
<1>1. IInv => ExactlyOnce
  BY DEF IInv, CountInv, ExactlyOnce
<1> QED
  BY <1>1, IInvHolds, PTL

\* In sequential mode ThreadFinish finishes in the order of the ids.
THEOREM FinishesInOrder == Spec => []FinishedInOrder
<1>1. IInv => FinishedInOrder
  <2> SUFFICES ASSUME IInv, isSchedulerSeq, NEW t \in Tasks, NEW u \in Tasks,
                      t < u, finishCount[u] > 0
               PROVE  finishCount[t] > 0
    BY DEF FinishedInOrder
  <2> USE SchedulerAssumption
  <2>1. finishCount[u] = 1
    BY DEF IInv, CountInv, TypeOK
  <2>2. u < taskIdExpected /\ taskIdExpected \in Nat
    BY <2>1 DEF IInv, SeqInv, TypeOK
  <2> QED
    BY <2>2 DEF IInv, SeqInv, Tasks
<1> QED
  BY <1>1, IInvHolds, PTL

\* RunTask with at least one thread returns only after every task was run and
\* finished.
THEOREM ReturnsDone == Spec => []ReturnsWhenAllDone
<1>1. IInv => ReturnsWhenAllDone
  <2> SUFFICES ASSUME IInv, mainPc = "returned", nthreads # {},
                      NEW t \in 0 .. numberTasks - 1
               PROVE  runCount[t] = 1 /\ finishCount[t] = 1
    BY DEF ReturnsWhenAllDone
  <2> USE SchedulerAssumption
  <2>1. t \in Tasks /\ finishCount[t] = 1
    BY DEF IInv, OwnerInv, TypeOK, Tasks
  <2> QED
    BY <2>1 DEF IInv, CountInv, TypeOK
<1> QED
  BY <1>1, IInvHolds, PTL

\* ThreadFinish never takes the first element of an empty set.
THEOREM FirstExists == Spec => []FirstIsNotNull
<1>1. IInv => FirstIsNotNull
  BY DEF IInv, FinishInv, FirstIsNotNull
<1> QED
  BY <1>1, IInvHolds, PTL

-----------------------------------------------------------------------------
(* The thread pool implements TaskExecution. *)

\* The initial state of the pool is an initial state of TaskExecution.
LEMMA InitRefines == Init => Abstract!Init
  BY SchedulerAssumption DEF Init, Abstract!Init, Tasks

\* Every step of the pool is a step of TaskExecution or changes nothing there.
LEMMA StepRefines == IInv /\ IInv' /\ [Next]_vars => [Abstract!Next]_Abstract!vars
<1> SUFFICES ASSUME IInv, IInv', [Next]_vars PROVE [Abstract!Next]_Abstract!vars
  OBVIOUS
<1> USE SchedulerAssumption
<1>1. ASSUME Reset PROVE Abstract!Clear
  BY <1>1 DEF Reset, Abstract!Clear, Abstract!Goto, Tasks
<1>2. ASSUME AddTask PROVE Abstract!Add
  <2>1. /\ numberTasks \in Nat /\ numberTasks' = numberTasks + 1
        /\ numberTasks + 1 \in 1 .. MaxTasks
    BY <1>2 DEF AddTask, IInv, TypeOK
  <2>2. /\ 0 .. numberTasks - 1 = 0 .. (numberTasks + 1) - 2
        /\ 0 .. numberTasks' - 1 = 0 .. (numberTasks + 1) - 1
    BY <2>1
  <2> QED
    BY <1>2, <2>1, <2>2 DEF AddTask, shared, workerVars, Abstract!Add, Abstract!Goto
<1>3. ASSUME NEW threads \in SUBSET Workers, NEW seq \in BOOLEAN, RunTask(threads, seq)
      PROVE  Abstract!Start
  BY <1>3 DEF RunTask, shared, Abstract!Start, Abstract!Goto
<1>4. ASSUME NEW w \in Workers, RunOneTask(w) PROVE Abstract!Run
  <2>1. /\ workerTask[w] \in 0 .. numberTasks - 1 /\ workerTask[w] \in Tasks
        /\ runCount[workerTask[w]] = 0
    BY <1>4 DEF RunOneTask, WorkerGoto, IInv, TypeOK, HeldInv, Holds, Tasks
  <2>2. \A t \in Tasks : runCount'[t] = IF t = workerTask[w] THEN 1 ELSE runCount[t]
    BY <1>4, <2>1 DEF RunOneTask, IInv, TypeOK
  <2>3. {t \in Tasks : runCount'[t] = 1} = {t \in Tasks : runCount[t] = 1} \cup {workerTask[w]}
    BY <2>1, <2>2
  <2>4. mainPc \notin {"idle", "adding", "returned"}
    BY <1>4 DEF RunOneTask, WorkerGoto, IInv, OwnerInv
  <2> QED
    BY <1>4, <2>1, <2>3, <2>4
       DEF RunOneTask, WorkerGoto, ownerVars, shared, Abstract!Run, Abstract!Goto, IInv, TypeOK
<1>5. ASSUME NEW t \in Tasks, runCount[t] = 1, finishCount[t] = 0,
             finishCount' = [finishCount EXCEPT ![t] = @ + 1],
             isSchedulerSeq => \A u \in Tasks : u < t => finishCount[u] = 1,
             mainPc \notin {"idle", "adding", "returned"},
             UNCHANGED <<ownerVars, runCount>>, t < numberTasks
      PROVE  Abstract!Finish
  <2>1. \A u \in Tasks : finishCount'[u] = IF u = t THEN 1 ELSE finishCount[u]
    BY <1>5 DEF IInv, TypeOK
  <2>2. {u \in Tasks : finishCount'[u] = 1} = {u \in Tasks : finishCount[u] = 1} \cup {t}
    BY <2>1
  <2>3. 0 .. numberTasks - 1 \subseteq Tasks
    BY DEF IInv, TypeOK, Tasks
  <2>4. isSchedulerSeq => \A u \in 0 .. numberTasks - 1 :
                            u < t => u \in {v \in Tasks : finishCount[v] = 1}
    BY <1>5, <2>3
  <2>5. t \in {u \in Tasks : runCount[u] = 1} \ {u \in Tasks : finishCount[u] = 1}
    BY <1>5
  <2> QED
    BY <1>5, <2>2, <2>4, <2>5 DEF ownerVars, Abstract!Finish, Abstract!Goto
<1>6. ASSUME NEW w \in Workers, FinishInWorker(w) PROVE Abstract!Finish
  <2>1. /\ workerTask[w] \in Tasks /\ workerTask[w] < numberTasks /\ ~isSchedulerSeq
        /\ runCount[workerTask[w]] = 1 /\ finishCount[workerTask[w]] = 0
    BY <1>6 DEF FinishInWorker, WorkerGoto, IInv, TypeOK, HeldInv, Holds, SeqInv, Tasks
  <2>2. mainPc \notin {"idle", "adding", "returned"}
    BY <1>6 DEF FinishInWorker, WorkerGoto, IInv, OwnerInv
  <2> QED
    BY <1>5, <1>6, <2>1, <2>2 DEF FinishInWorker, WorkerGoto
<1>7. ASSUME FinishFirst PROVE Abstract!Finish
  <2>1. /\ finishTask \in Tasks /\ finishTask < numberTasks
        /\ runCount[finishTask] = 1 /\ finishCount[finishTask] = 0
    BY <1>7 DEF FinishFirst, IInv, TypeOK, CountInv, SetInv, FinishInv, Tasks
  <2>2. \A u \in Tasks : u < finishTask => finishCount[u] = 1
    BY <1>7, <2>1 DEF FinishFirst, IInv, FinishInv, SeqInv
  <2>3. mainPc \notin {"idle", "adding", "returned"}
    BY <1>7 DEF FinishFirst, IInv, FinishInv
  <2> QED
    BY <1>5, <1>7, <2>1, <2>2, <2>3 DEF FinishFirst, workerVars
<1>8. ASSUME Join PROVE Abstract!Return \/ UNCHANGED Abstract!vars
  <2>1. CASE mainPc' = "returned"
    <3>1. nthreads' # {} /\ mainPc \in {"join", "joinFinish"}
      BY <1>8, <2>1 DEF Join, IInv, OwnerInv
    <3>2. \A t \in 0 .. numberTasks - 1 : finishCount[t] = 1
      BY <1>8, <2>1, <3>1 DEF Join, shared, IInv, OwnerInv
    <3>3. {t \in Tasks : finishCount[t] = 1} = 0 .. numberTasks - 1
      <4>1. 0 .. numberTasks - 1 \subseteq Tasks
        BY DEF IInv, TypeOK, Tasks
      <4>2. ASSUME NEW t \in Tasks, t >= numberTasks PROVE finishCount[t] # 1
        <5>1. t >= taskIdToRun
          BY <4>2 DEF IInv, TypeOK, Tasks
        <5>2. runCount[t] = 0 /\ finishCount[t] <= runCount[t]
          BY <5>1 DEF IInv, CountInv
        <5> QED
          BY <5>2
      <4>3. \A t \in Tasks : t < numberTasks => t \in 0 .. numberTasks - 1
        BY DEF IInv, TypeOK, Tasks
      <4>4. \A t \in Tasks : t < numberTasks \/ t >= numberTasks
        BY DEF IInv, TypeOK, Tasks
      <4> QED
        BY <3>2, <4>1, <4>2, <4>3, <4>4
    <3> QED
      BY <1>8, <2>1, <3>1, <3>3
         DEF Join, workerVars, shared, Abstract!Return, Abstract!Goto
  <2>2. CASE mainPc' # "returned"
    BY <1>8, <2>2 DEF Join, workerVars, shared, Abstract!vars
  <2> QED
    BY <2>1, <2>2
<1>9. ASSUME Spawn \/ (\E w \in Workers : GetTaskToRun(w) \/ TaskIdFinish(w) \/ SignalFinish(w))
      PROVE  UNCHANGED Abstract!vars
  BY <1>9 DEF Spawn, SpawnWorker, SpawnFinish, GetTaskToRun, TaskIdFinish, SignalFinish,
              WorkerGoto, ownerVars, workerVars, shared, Abstract!vars
<1>10. ASSUME \/ FinishStart \/ FinishOuterTest \/ FinishPauseTest \/ FinishWait
              \/ SpuriousWakeup \/ GetTaskIdsFinishSize \/ FinishPause
              \/ GetTaskFinishFirst \/ RemoveTaskFinish
       PROVE  UNCHANGED Abstract!vars
  BY <1>10 DEF FinishStart, FinishOuterTest, FinishPauseTest, FinishWait, SpuriousWakeup,
               GetTaskIdsFinishSize, FinishPause, GetTaskFinishFirst, RemoveTaskFinish,
               FinishGoto, ownerVars, workerVars, shared, Abstract!vars
<1>11. CASE UNCHANGED vars
  BY <1>11 DEF vars, ownerVars, workerVars, shared, Abstract!vars
<1> QED
  BY <1>1, <1>2, <1>3, <1>4, <1>6, <1>7, <1>8, <1>9, <1>10, <1>11
     DEF Next, ThreadMain, ThreadFinish, Abstract!Next

\* The thread pool implements its abstract specification, for any workers, bounds
\* and interleaving.
THEOREM ImplementsTaskExecutionProved == Spec => ImplementsTaskExecution
  BY InitRefines, StepRefines, IInvHolds, PTL DEF Spec, ImplementsTaskExecution, Abstract!Spec

=============================================================================
