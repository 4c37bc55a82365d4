---------------------------- MODULE MplScheduler ----------------------------
(***************************************************************************)
(* The thread pool of the compiler (maple_util/src/mpl_scheduler.cpp) as   *)
(* FuncOptimizeIterator::RunParallel drives it (maple_phase): reset, add   *)
(* one task per function, RunTask(nthreads, seq), reset.                   *)
(*                                                                         *)
(* A worker thread is ThreadMain.  With seq = FALSE it runs a task and     *)
(* finishes it itself; with seq = TRUE it only hands the finished id over, *)
(* and one more thread, ThreadFinish, finishes the tasks in id order.      *)
(*                                                                         *)
(* A critical section is one action: what it guards is read and written    *)
(* nowhere else without its mutex, with one exception, statusFinish, whose *)
(* unlocked accesses (ThreadFinish's first store, its loop test) are       *)
(* actions of their own.                                                   *)
(***************************************************************************)
EXTENDS Integers

CONSTANTS
  Workers,     \* the threads RunTask may start, 0 .. nthreads-1 in the code
  MaxTasks,    \* bound: tasks added between two resets
  MaxRuns      \* bound: RunParallel calls on one scheduler object

ASSUME SchedulerAssumption == MaxTasks \in Nat /\ MaxRuns \in Nat

Tasks == 0 .. MaxTasks - 1

VARIABLES
  mainPc,             \* where the thread that owns the scheduler is
  runs,               \* RunTask calls made
  nthreads,           \* the set of workers this RunTask starts
  numberTasks,        \* = taskIdForAdd = size of tbTasks
  isSchedulerSeq,
  taskIdToRun,        \* next task to hand to a worker
  workerPc, workerTask,
  taskIdExpected,     \* next id ThreadFinish may finish
  nTasksFinish,       \* tasks finished by ThreadFinish
  finishPc, finishTask,
  tbTaskIdsToFinish,  \* ids run and waiting for ThreadFinish
  statusFinish,
  runCount,           \* history: how often Run of a task has returned
  finishCount         \* history: how often Finish of a task has returned

ownerVars  == <<mainPc, runs, nthreads, numberTasks, isSchedulerSeq>>
workerVars == <<workerPc, workerTask, taskIdToRun, runCount>>
finishVars == <<finishPc, finishTask, taskIdExpected, nTasksFinish>>
shared     == <<tbTaskIdsToFinish, statusFinish, finishCount>>
vars == <<ownerVars, workerVars, finishVars, shared>>

TypeOK ==
  /\ mainPc \in {"idle", "adding", "spawn", "spawnFinish", "join", "joinFinish",
                 "returned"}
  /\ runs \in 0 .. MaxRuns
  /\ nthreads \subseteq Workers
  /\ numberTasks \in 0 .. MaxTasks
  /\ isSchedulerSeq \in BOOLEAN
  /\ taskIdToRun \in 0 .. numberTasks
  /\ workerPc \in [Workers -> {"none", "getTask", "run", "finish", "taskIdFinish",
                               "signal", "exited"}]
  /\ workerTask \in [Workers -> Nat]
  /\ taskIdExpected \in Nat
  /\ nTasksFinish \in Nat
  /\ finishPc \in {"none", "start", "outer", "pauseTest", "wait", "waiting", "size",
                   "pause", "first", "finish", "remove", "exited"}
  /\ finishTask \in Nat
  /\ tbTaskIdsToFinish \subseteq Tasks
  /\ statusFinish \in {"kThreadRun", "kThreadPause"}
  /\ runCount \in [Tasks -> Nat]
  /\ finishCount \in [Tasks -> Nat]

Init ==
  /\ mainPc = "idle" /\ runs = 0 /\ nthreads = {}
  /\ numberTasks = 0 /\ isSchedulerSeq = FALSE /\ taskIdToRun = 0
  /\ workerPc = [w \in Workers |-> "none"] /\ workerTask = [w \in Workers |-> 0]
  /\ taskIdExpected = 0 /\ nTasksFinish = 0
  /\ finishPc = "none" /\ finishTask = 0
  /\ tbTaskIdsToFinish = {} /\ statusFinish = "kThreadRun"
  /\ runCount = [t \in Tasks |-> 0] /\ finishCount = [t \in Tasks |-> 0]

-----------------------------------------------------------------------------
(* The owner of the scheduler. *)

\* Mutant: taskIdToRun is not rewound.
ResetKeepsCursor ==
  /\ \/ mainPc = "idle" /\ mainPc' = "adding"
     \/ mainPc = "returned" /\ mainPc' = "idle"
  /\ numberTasks' = 0 /\ isSchedulerSeq' = FALSE
  /\ taskIdExpected' = 0 /\ nTasksFinish' = 0 /\ tbTaskIdsToFinish' = {}
  /\ runCount' = [t \in Tasks |-> 0] /\ finishCount' = [t \in Tasks |-> 0]
  /\ UNCHANGED <<runs, nthreads, taskIdToRun, workerPc, workerTask, finishPc,
                 finishTask, statusFinish>>

\* Reset as RunParallel calls it, before it adds tasks and after RunTask.
\* statusFinish keeps the value the last run left.
Reset ==
  /\ \/ mainPc = "idle" /\ mainPc' = "adding"
     \/ mainPc = "returned" /\ mainPc' = "idle"
  /\ numberTasks' = 0 /\ isSchedulerSeq' = FALSE /\ taskIdToRun' = 0
  /\ taskIdExpected' = 0 /\ nTasksFinish' = 0
  /\ tbTaskIdsToFinish' = {}
  /\ runCount' = [t \in Tasks |-> 0] /\ finishCount' = [t \in Tasks |-> 0]
  /\ UNCHANGED <<runs, nthreads, workerPc, workerTask, finishPc, finishTask,
                 statusFinish>>

AddTask ==
  /\ mainPc = "adding" /\ numberTasks < MaxTasks
  /\ numberTasks' = numberTasks + 1
  /\ UNCHANGED <<mainPc, runs, nthreads, isSchedulerSeq, workerVars, finishVars, shared>>

\* With nthreads = 0 RunTask starts no thread and returns.
RunTask(threads, seq) ==
  /\ mainPc = "adding" /\ runs < MaxRuns
  /\ runs' = runs + 1
  /\ nthreads' = threads /\ isSchedulerSeq' = seq
  /\ IF threads = {}
     THEN mainPc' = "returned" /\ UNCHANGED taskIdExpected
     ELSE mainPc' = "spawn" /\ taskIdExpected' = 0
  /\ workerPc' = [w \in Workers |-> "none"] /\ workerTask' = [w \in Workers |-> 0]
  /\ finishPc' = "none" /\ finishTask' = 0
  /\ UNCHANGED <<numberTasks, taskIdToRun, runCount, nTasksFinish, shared>>

\* The loop that starts the workers; a started worker runs from here on.
SpawnWorker(w) ==
  /\ mainPc = "spawn" /\ w \in nthreads /\ workerPc[w] = "none"
  /\ workerPc' = [workerPc EXCEPT ![w] = "getTask"]
  /\ mainPc' = IF \E v \in nthreads \ {w} : workerPc[v] = "none" THEN "spawn"
               ELSE IF isSchedulerSeq THEN "spawnFinish" ELSE "join"
  /\ UNCHANGED <<runs, nthreads, numberTasks, isSchedulerSeq, workerTask, taskIdToRun,
                 runCount, finishVars, shared>>

SpawnFinish ==
  /\ mainPc = "spawnFinish"
  /\ mainPc' = "join" /\ finishPc' = "start"
  /\ UNCHANGED <<runs, nthreads, numberTasks, isSchedulerSeq, workerVars, finishTask,
                 taskIdExpected, nTasksFinish, shared>>

\* Mutant: the owner does not wait for ThreadFinish.
JoinWorkersOnly ==
  /\ mainPc = "join" /\ \A w \in nthreads : workerPc[w] = "exited"
  /\ mainPc' = "returned"
  /\ UNCHANGED <<runs, nthreads, numberTasks, isSchedulerSeq, workerVars, finishVars,
                 shared>>

\* Mutant: the owner joins one worker instead of all.
JoinOneWorker ==
  /\ \/ /\ mainPc = "join" /\ \E w \in nthreads : workerPc[w] = "exited"
        /\ mainPc' = IF isSchedulerSeq THEN "joinFinish" ELSE "returned"
     \/ mainPc = "joinFinish" /\ finishPc = "exited" /\ mainPc' = "returned"
  /\ UNCHANGED <<runs, nthreads, numberTasks, isSchedulerSeq, workerVars, finishVars,
                 shared>>

\* threads[i].join() for every worker, then threadFinish.join() if it was started.
Join ==
  /\ \/ /\ mainPc = "join" /\ \A w \in nthreads : workerPc[w] = "exited"
        /\ mainPc' = IF isSchedulerSeq THEN "joinFinish" ELSE "returned"
     \/ mainPc = "joinFinish" /\ finishPc = "exited" /\ mainPc' = "returned"
  /\ UNCHANGED <<runs, nthreads, numberTasks, isSchedulerSeq, workerVars, finishVars,
                 shared>>

-----------------------------------------------------------------------------
(* ThreadMain, worker w. *)

WorkerGoto(w, from, to) ==
  /\ workerPc[w] = from
  /\ workerPc' = [workerPc EXCEPT ![w] = to]
  /\ UNCHANGED <<ownerVars, taskIdExpected, nTasksFinish, finishTask>>

\* Mutant: the cursor is read but not advanced.
GetTaskToRunAgain(w) ==
  /\ WorkerGoto(w, "getTask", IF taskIdToRun < numberTasks THEN "run" ELSE "exited")
  /\ workerTask' = [workerTask EXCEPT ![w] = taskIdToRun]
  /\ UNCHANGED <<taskIdToRun, runCount, finishPc, shared>>

GetTaskToRun(w) ==
  /\ IF taskIdToRun < numberTasks
     THEN /\ WorkerGoto(w, "getTask", "run")
          /\ workerTask' = [workerTask EXCEPT ![w] = taskIdToRun]
          /\ taskIdToRun' = taskIdToRun + 1
     ELSE WorkerGoto(w, "getTask", "exited") /\ UNCHANGED <<workerTask, taskIdToRun>>
  /\ UNCHANGED <<runCount, finishPc, shared>>

RunOneTask(w) ==
  /\ WorkerGoto(w, "run", IF isSchedulerSeq THEN "taskIdFinish" ELSE "finish")
  /\ runCount' = [runCount EXCEPT ![workerTask[w]] = @ + 1]
  /\ UNCHANGED <<workerTask, taskIdToRun, finishPc, shared>>

\* task->Finish in the worker itself, when the scheduler is not sequential.
FinishInWorker(w) ==
  /\ WorkerGoto(w, "finish", "getTask")
  /\ finishCount' = [finishCount EXCEPT ![workerTask[w]] = @ + 1]
  /\ UNCHANGED <<workerTask, taskIdToRun, runCount, finishPc, tbTaskIdsToFinish,
                 statusFinish>>

TaskIdFinish(w) ==
  /\ WorkerGoto(w, "taskIdFinish", "signal")
  /\ tbTaskIdsToFinish' = tbTaskIdsToFinish \cup {workerTask[w]}
  /\ UNCHANGED <<workerTask, taskIdToRun, runCount, finishPc, statusFinish, finishCount>>

\* The rest of FinishTask: wake ThreadFinish if it has announced a pause.  The
\* signal is lost when nobody waits.
SignalFinish(w) ==
  /\ WorkerGoto(w, "signal", "getTask")
  /\ statusFinish' = "kThreadRun"
  /\ finishPc' = IF statusFinish = "kThreadPause" /\ finishPc = "waiting"
                 THEN "pauseTest" ELSE finishPc
  /\ UNCHANGED <<workerTask, taskIdToRun, runCount, tbTaskIdsToFinish, finishCount>>

-----------------------------------------------------------------------------
(* ThreadFinish. *)

\* One step of ThreadFinish that moves its program counter and may set status.
FinishGoto(from, to, status) ==
  /\ finishPc = from
  /\ finishPc' = to /\ statusFinish' = status
  /\ UNCHANGED <<ownerVars, workerVars, finishTask, taskIdExpected, nTasksFinish,
                 tbTaskIdsToFinish, finishCount>>

FinishStart == FinishGoto("start", "outer", "kThreadRun")

FinishOuterTest ==
  FinishGoto("outer", IF nTasksFinish < numberTasks THEN "pauseTest" ELSE "exited",
             statusFinish)

\* The loop test reads statusFinish without mutexTaskFinishProcess.
FinishPauseTest ==
  FinishGoto("pauseTest", IF statusFinish = "kThreadPause" THEN "wait" ELSE "size",
             statusFinish)

\* Lock, pthread_cond_wait; statusFinish is not read again under the lock.
FinishWait == FinishGoto("wait", "waiting", statusFinish)

\* POSIX lets pthread_cond_wait return without a signal.
SpuriousWakeup == FinishGoto("waiting", "pauseTest", statusFinish)

\* Mutant: ThreadFinish does not test whether an id is waiting.
SkipSizeTest == FinishGoto("size", "first", statusFinish)

GetTaskIdsFinishSize ==
  FinishGoto("size", IF tbTaskIdsToFinish = {} THEN "pause" ELSE "first", statusFinish)

\* The size was read under another lock and may be stale by now.
FinishPause == FinishGoto("pause", "outer", "kThreadPause")

\* Mutant: any waiting id is finished, in the order of arrival.
GetTaskFinishAny ==
  /\ finishPc = "first"
  /\ finishTask' \in tbTaskIdsToFinish
  /\ finishPc' = "finish"
  /\ UNCHANGED <<ownerVars, workerVars, taskIdExpected, nTasksFinish, shared>>

\* The smallest id waiting (tbTaskIdsToFinish is an ordered set); out of order it
\* leaves the inner loop.
GetTaskFinishFirst ==
  /\ finishPc = "first"
  /\ \E t \in tbTaskIdsToFinish :
       /\ \A u \in tbTaskIdsToFinish : t <= u
       /\ finishTask' = t
       /\ finishPc' = IF isSchedulerSeq /\ t # taskIdExpected THEN "outer" ELSE "finish"
  /\ UNCHANGED <<ownerVars, workerVars, taskIdExpected, nTasksFinish, shared>>

\* Mutant: taskIdExpected is not advanced.
FinishFirstExpectSame ==
  /\ finishPc = "finish"
  /\ finishCount' = [finishCount EXCEPT ![finishTask] = @ + 1]
  /\ nTasksFinish' = nTasksFinish + 1
  /\ finishPc' = "remove"
  /\ UNCHANGED <<ownerVars, workerVars, finishTask, taskIdExpected, tbTaskIdsToFinish,
                 statusFinish>>

FinishFirst ==
  /\ finishPc = "finish"
  /\ finishCount' = [finishCount EXCEPT ![finishTask] = @ + 1]
  /\ nTasksFinish' = nTasksFinish + 1
  /\ taskIdExpected' = IF isSchedulerSeq THEN taskIdExpected + 1 ELSE taskIdExpected
  /\ finishPc' = "remove"
  /\ UNCHANGED <<ownerVars, workerVars, finishTask, tbTaskIdsToFinish, statusFinish>>

RemoveTaskFinish ==
  /\ finishPc = "remove"
  /\ tbTaskIdsToFinish' = tbTaskIdsToFinish \ {finishTask}
  /\ finishPc' = "size"
  /\ UNCHANGED <<ownerVars, workerVars, finishTask, taskIdExpected, nTasksFinish,
                 statusFinish, finishCount>>

-----------------------------------------------------------------------------
Spawn == (\E w \in Workers : SpawnWorker(w)) \/ SpawnFinish

ThreadMain(w) ==
  GetTaskToRun(w) \/ RunOneTask(w) \/ FinishInWorker(w) \/ TaskIdFinish(w)
    \/ SignalFinish(w)

ThreadFinish ==
  \/ FinishStart \/ FinishOuterTest \/ FinishPauseTest \/ FinishWait
  \/ GetTaskIdsFinishSize \/ FinishPause \/ GetTaskFinishFirst
  \/ FinishFirst \/ RemoveTaskFinish

Next ==
  \/ Reset \/ AddTask
  \/ \E threads \in SUBSET Workers, seq \in BOOLEAN : RunTask(threads, seq)
  \/ Spawn \/ Join
  \/ \E w \in Workers : ThreadMain(w)
  \/ ThreadFinish \/ SpuriousWakeup

Spec == Init /\ [][Next]_vars

\* The operating system runs every thread that can run, the owner included once
\* it is inside RunTask; it owes nobody a spurious wakeup, and nobody has to call
\* RunTask again.
Fairness ==
  /\ WF_vars(Spawn) /\ WF_vars(Join)
  /\ \A w \in Workers : WF_vars(ThreadMain(w))
  /\ WF_vars(ThreadFinish)

FairSpec == Spec /\ Fairness

-----------------------------------------------------------------------------
(* Properties. *)

\* Whatever the interleaving, a task is run at most once and finished at most
\* once, and never finished before it was run (ThreadMain, ThreadFinish).
ExactlyOnce == \A t \in Tasks : runCount[t] <= 1 /\ finishCount[t] <= runCount[t]

\* In sequential mode Finish is called in id order: no task is finished while a
\* smaller one is not (the test taskId != taskIdExpected in ThreadFinish).
FinishedInOrder ==
  isSchedulerSeq =>
    \A t, u \in Tasks : t < u /\ finishCount[u] > 0 => finishCount[t] > 0

\* When RunTask returns after starting threads, every task added was run and
\* finished: RunParallel deletes the tasks and their results right after.
ReturnsWhenAllDone ==
  mainPc = "returned" /\ nthreads # {} =>
    \A t \in 0 .. numberTasks - 1 : runCount[t] = 1 /\ finishCount[t] = 1

\* CHECK_FATAL(task != nullptr): the set ThreadFinish saw non-empty is still
\* non-empty when it takes the first id, although the lock was dropped between.
FirstIsNotNull == finishPc = "first" => tbTaskIdsToFinish # {}

\* ThreadFinish sleeps although nobody is left to wake it.
LostWakeup ==
  finishPc = "waiting" /\ \A w \in nthreads : workerPc[w] = "exited"

Running == mainPc \notin {"idle", "adding", "returned"}

\* Workers never block on ThreadFinish or on each other: RunTask returns, or it hangs
\* in exactly one way, all workers gone and ThreadFinish asleep after the last signal.
\* ThreadFinish's retry loop on an unexpected id never spins forever.
ReturnsOrLosesWakeup == Running ~> (mainPc = "returned" \/ LostWakeup)

\* With seq, RunTask returns.
SequentialRunReturns == (Running /\ isSchedulerSeq) ~> mainPc = "returned"

-----------------------------------------------------------------------------
\* What RunParallel relies on: the scheduler runs a batch of tasks as
\* TaskExecution describes it, whatever its threads do in between.
Abstract == INSTANCE TaskExecution WITH
  phase   <- CASE mainPc \in {"idle", "returned"} -> mainPc
               [] mainPc = "adding" -> "open"
               [] OTHER -> "running",
  added   <- 0 .. numberTasks - 1,
  inOrder <- isSchedulerSeq,
  ran     <- {t \in Tasks : runCount[t] = 1},
  done    <- {t \in Tasks : finishCount[t] = 1}

\* Every behaviour of the thread pool is one of TaskExecution.
ImplementsTaskExecution == Abstract!Spec
=============================================================================
