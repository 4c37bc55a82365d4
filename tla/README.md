# TLA+ models of the Maple compiler

This directory holds TLA+ specifications of parts of `src/mapleall`, the TLC
configurations that check them on small instances, and theorems about them with
proofs for TLAPS. `PROJECT.json` is the index: components, runs, mutants, the map from
each definition to the lines it models, findings, hazards, theorems.

    tlc -workers 2 -config MCMplScheduler.cfg MCMplScheduler         # one run
    tlapm MplSchedulerProofs.tla                                    # the proofs of one module

## 1. The system

Maple compiles MapleIR (`.mpl`) to assembly. `maple_driver` starts one compiler after
the other; inside `maple_comb` a module is read (`maple_ir`), lowered by module phases
(`mpl2mpl`, `maple_ipa`), optimised function by function (`maple_me`) and handed to the
code generator (`maple_be`). Everything allocates from memory pools (`mempool`). The
compiler is sequential but for one place: a module phase may process its functions in a
thread pool (`maple_util`, used by `maple_phase`).

| component | state it keeps | operations | interacts with | what is hard | what makes it correct |
|---|---|---|---|---|---|
| `MplScheduler` (`maple_util`) | task list, cursor, ids waiting to be finished, expected id, `statusFinish` | `AddTask`, `RunTask`, `Reset`; `ThreadMain`, `ThreadFinish` | called by `FuncOptimizeIterator`; threads, mutexes, one condition variable | interleavings, signals, reuse of the object | each task run and finished once, in order if asked, before `RunTask` returns, which it does |
| `FuncOptimizeIterator` (`maple_phase`) | the phase implementation | `RunSerial`, `RunParallel` | one task per function for the scheduler | shared module object | the same result for any number of threads |
| `MemPool`, `MemPoolCtrler` (`mempool`) | pools, block stacks, markers, free lists | `NewMemPool`, `DeleteMemPool`, `Malloc`, `Calloc`, `Realloc`, `Push`, `Pop` | every other component | long sequences of legal calls; recycled blocks | memory in use never overlaps, is held by its pool; nothing is lost |
| analysis cache (`maple_phase/include/phase.h`) | results per phase and function | `GetAnalysisResult`, `AddResult`, `InvalidAnalysisResult`, `InvalidAllResults` | runs analyses on demand; owns a pool per result | nested runs, stale and dangling results | a result in use is valid and of the present code |
| ME pipeline (`maple_me/src/me_phase_manager.cpp`) | phase sequence, iterator, previous phase, flag of a changed graph | `AddPhases`, `RunMainOpt`, `RunFuncPhase` | phases, cache, options | restart, skip options, early returns | each phase once, nothing skipped runs, the function is emitted |
| ME control-flow graph (`me_function`, `me_cfg`, `me_loop_canon`, `me_critical_edge`) | block list, successors, predecessors, labels, trys | `CreateBasicBlocks`, `BuildMirCFG`, `UnreachCodeAnalysis`, `WontExitAnalysis`, `Convert`, `BreakCriticalEdge` | SSA, emission | lists edited apart, labels written twice, edges collected before any is changed | the graph runs what the program runs and has the form SSA needs |
| ME dominance, SSA, FSAA (`dominance`, `me_ssa`, `ssa`, `me_fsaa`) | trees, frontiers, version stacks, may-defs | one `Run` each | the graph, the alias classes | irreducible loops, unfinished trees, renaming twice | results equal their definitions; a version has one value |
| other ME analyses (`alias_class`, `irmap`, SSAPRE, `hdse` ...) | versions, expressions | one `Run` each | the cache | graph algorithms | the code computes what it did |
| ME reference counting (`me_analyzerc`, `me_delegate_rc`, `me_rc_lowering`) | counts to be inserted | one `Run` each | IRMap, alias classes | every path, exceptions | counts balance |
| `maple_ir` data, parser, printer, binary import and export | symbol and type tables, nodes | build, parse, print, import, export | all | numbering, encodings | import after export is the identity |
| `constant_fold`, `mir_lower` | none | fold, lower | all | widths, overflow | same value, same control flow |
| `interleaved_manager`, `module_phase_manager` (`maple_ipa`), `phasedriver` | list of managers, compilation list | `AddPhases`, `Run` | module phases, ME pipeline | mixing module and function phases | each function compiled once, in order |
| call graph (`maple_ipa/callgraph`) | callees, components, compilation order | `HandleBody`, `BuildSCC`, `SCCTopologicalSort`, `SetCompilationFunclist` | class hierarchy, inliner, ME | recursion | a class's methods are callees of the calls that run them; callees are compiled first |
| devirtualisation (`IPODevirtulize`) | inferred types of fields and locals | `SearchDefInClinit`, `SearchDefInMemberMethods`, `DoDevirtual` | class hierarchy | facts that go stale along a function | a bound call runs what the virtual call would have run |
| inliner (`maple_ipa/inline`) | functions to inline, the body being rewritten | `CanInline`, `PerformInline`, `Inline` | call graph order | renaming, returns, recursion | the program does what it did |
| greedy inliner, cloning, retyping, regions | | | ME | | |
| class hierarchy (`mpl2mpl/class_hierarchy`) | classes, parents, method candidates | `AddKlassRelationAndMethods`, `TopologicalSortKlasses`, `CountVirtualMethods` | call graph, devirtualisation | several inheritance paths | the candidates are the methods a call can run |
| other `mpl2mpl` phases | vtables, metadata | one `Run` each | module | interdependent tables | layouts agree with the hierarchy |
| `cg_phase_manager`, `cg_driver` (`maple_be/cg`) | phase sequence, skip flags | `AddPhases`, `Run`, `Emit` | code generator phases | skip options, unskippable phases | needed phases always run |
| live analysis, linear scan (`live_analysis`, `aarch64_reg_alloc`) | live sets, intervals, register pools, spill slots | `AnalysisLive`, `ComputeLiveInterval`, `AllocateRegisters`, `FinalizeRegisters` | code generator pipeline, `cg_func` slots | calls, holes, parameter registers, slots used again | every operand has its value on every path |
| code generator (selection, graph colouring, schedule, `ebo`, layout, emit) | machine IR per target | per phase | machine description (`ad`) | dependences | code computes what the IR says |
| back-end lowering (`maple_be/be`) | none | lower statements, switches | code generator | boundaries of ranges | same branch taken |
| `maple_driver` | options, list of compilers | parse, select, run | processes | partial failure | compilers run in order |
| `huawei_secure_c`, `maple_engine` | | | | vendored or separate | |

## 2. The modules

    TaskExecution  <--implements--  MplScheduler <-- MplSchedulerProofs
    MemPool <-- MemPoolProofs
    MePhaseManager <-- MePhaseManagerProofs     the ME pipeline and its analysis cache
    MeCFG   MeSSA   Dominance <-- DominanceProofs     what its first phases compute
    KlassHierarchy <-- CallTargets  callees of virtual and interface calls
                   <-- Devirtualize
    CallGraph <-- Inline <-- InlineProofs       the inliner over the order of the call graph
    CgPhaseManager <-- CgPhaseManagerProofs     the code generator's pipeline
    CgAnalyses <-- LiveIntervals <-- LinearScan <-- LinearScanProofs

An arrow to the left is EXTENDS: the phases of one module start from the state the other
left, and a `Proofs` module has the theorems about the module it extends. `Foundations` has
the lemmas on induction, recursive functions and sequences that `InlineProofs`,
`DominanceProofs` and `LinearScanProofs` use. Every other leaf has an `MC` module with its
programs and options and a `.cfg`. Each module's header says how its data stands for the
code's; what follows is how state and actions correspond.

### MplScheduler and TaskExecution

The state is that of the class: `taskIdToRun`, `taskIdExpected`, `numberTasks`,
`nTasksFinish`, `tbTaskIdsToFinish`, `isSchedulerSeq`, `statusFinish`; `taskIdForAdd`
always equals `numberTasks`. Program counters stand for the owner's place in
`RunParallel`/`RunTask`, each worker's place in `ThreadMain` and `ThreadFinish`'s place.
`runCount` and `finishCount` are history: what the tasks' `Run` and `Finish` have done.

One action is one critical section (`GetTaskToRun`, `TaskIdFinish`,
`GetTaskIdsFinishSize`, `GetTaskFinishFirst`, `RemoveTaskFinish`, the two stores of
`statusFinish` under `mutexTaskFinishProcess`), one task's `Run` or `Finish`, or one
unlocked access of `statusFinish`: `ThreadFinish` tests it without the mutex, which makes
`FinishPauseTest`, `FinishWait` and the return from the wait separate steps. A signal to
nobody is lost; a wait may end without a signal, as POSIX allows. `statusFinish` is not
rewound by `Reset`; `ThreadFinish` stores it when it starts.

`TaskExecution` is what `RunParallel` relies on, without threads: tasks are added, each
is run, then finished, in id order when asked, and the call returns when all are done.
`Abstract` in `MplScheduler` is the refinement mapping.

### MemPool

The controller's free lists and the pools' block and marker stacks are those of the
classes. A block has an original and an available size; its pointer is their difference.
`Malloc` is `MallocSmall` (requests up to `kMinBlockSize`, `GetMemBlock`) and `MallocLarge`
(`GetLargeMemBlock`); `Recycle` is the part `DeleteMemPool` and `Pop` share. The
controller's map of sets of large blocks is one set of blocks of which a key selects the
bucket; a bucket takes no second block of a size, because the code orders the set by size
alone. `live` is history: the memory users hold, with the pool and the marker level it
was allocated under. `Calloc` and `Realloc` change the state exactly as the `Malloc` they
call; contents and alignment are left out.

### MePhaseManager and CgPhaseManager

The manager's part of `MePhaseManager` is `RunMainOpt`: `StartFunc`, the first loop,
`StartOver` on a new `MeFunction` when a phase has set its flag, the second loop with
`PassOver`, `EndFunc`. `RunFuncPhase` and `NextPhase` are the head and the tail of a loop
body, with the iterator arithmetic of the skip options. `PhaseSeq` is `AddPhases`. In
`CgPhaseManager` the driver's loop over functions (`StartFunc`, `Emit`, `EndFunc`) goes
around the manager's loop over phases, in which `SkipFrom` looks for the next phase that
cannot be skipped, `PassOver` and `OutOfRange` leave phases out and `LeaveEmit` stops.

A phase is the sequence of steps its `Run` takes on what phases share: getting and
invalidating results, the change of the graph or the code, the deletion of the versions
and of the input code, the writing of new code, the merging and splitting of super blocks,
the pseudo instructions of the reaching definitions, and uses without asking. There is one
definition per phase class; where the code decides by the function's contents, the
definition is a set of sequences. `GetAnalysisResult` that misses runs the analysis on a
stack, as the code recurses. Results have identities, so a pointer to a result that was
erased and made again is seen to dangle. `domCfg` and `madeFor` are history: the graph or
the code that a result was made for.

### MeCFG, Dominance, MeSSA

`MeCFG` has the block vector with the lists the code has (`succ`, `pred`, labels of the last
statement, the block that closes a try). `Create` adds one statement at a time as the switch
of `CreateBasicBlocks` does: in a try, a dassign that may throw (`maythrow`) and a throw end
their block, any other statement that may throw (`callassigned`) does not. `Build`,
`Unreach` and `WontExit` are the passes of `Prepare`; `CollectBackedges`/`ConvertNext` and
`CollectCriticalEdges`/`SplitNext` are the two phases, which collect edges first and change
them one by one.

`Dominance` takes the two halves of `MeDominance::Run` one after the other, as one set of
actions over the graph and its reverse (`Root`, `Out`, `In`). The recursions
`PostOrderWalk` and `ComputeDtPreorder` are a stack of blocks, the first with the callers
below, the second with the calls still to come; `ComputeDominance` is the body of the loop
for one block (`NextPass` is the head of the `while`), so the tree is seen unfinished. A
graph has the two lists of every block as the code has them: the edges of the two common
blocks are in one list only. `MeSSA` inserts phis, walks the dominator tree
with one stack per variable (`RenameBB`, `Leave`), lets `FSAA` take may-defs away and renames
again; then it runs the program, with addresses, to compare what a version holds.

### KlassHierarchy, CallTargets, Devirtualize

`AddKlassRelation`, `UpdateImplementedInterfaces`, `SortRoots`/`SortNext`, `CountTopDown`
and `CountBottomUp` take one class each, in the order of the code's map. `CallTargets` is
pure: the callees of a call as `HandleBody` finds them. `Devirtualize` goes on statement by
statement through `SearchDefInClinit`, `SearchDefInMemberMethods` and `DoDevirtual`, then
executes the program with objects of known classes beside the inferred types.

### CallGraph, Inline

The recursion of `BuildSCCDFS` is a stack of activations; `SCCTopologicalSort` and
`SetCompilationFunclist` follow. `Collect` is the choice of the functions to inline,
`TopDown` and `BottomUp` the two passes over the order; `PerformInline` replaces one call by
the renamed body: symbols and labels shifted, returns turned into an assignment and a goto,
a trailing goto and label trimmed. The program is run before and after.

### CgAnalyses, LiveIntervals, LinearScan

`AnalysisLive` is one block of the iteration of liveness, `FindBackEdge` one block of the
depth-first search. `StartBFS`, `BFSStep` and `NextSweep` order the blocks;
`ComputeLiveInterval` takes one block, `BuildIntervalRanges` all. `AllocateInsn` is the body
of the loop of `AllocateRegisters` (retire, then assign), `FinalizeInsn` that of
`FinalizeRegisters`, with the operands in the code's order: sources before the destination.
`ra` and `fin` are the allocator's members; a register pool is a part of `free`. `RunBlock`
executes the emitted code symbolically: `holds` relates each register and slot to the
source registers whose present value it has.

## 3. Runs

| run | instance | what it shows |
|---|---|---|
| `sched` | 3 workers, 3 tasks, 2 runs, either mode, any number of threads | `ExactlyOnce`, `FinishedInOrder`, `ReturnsWhenAllDone`, `FirstIsNotNull` in every interleaving; the pool implements `TaskExecution`; `RunTask` returns, or `ThreadFinish` has slept through the last signal (`ReturnsOrLosesWakeup`) |
| `sched_seqhang` | 2 workers, 2 tasks | a sequential `RunTask` may never return (finding) |
| `mempool` | 2 pools, 3 blocks, sizes 1, 2 (small), 4, 5 (large, one key), 2 markers | `NoOverlap`, `LiveIsHeld`, `BlocksAreRecycled`, `PopReclaims` |
| `me` | 2 functions, with or without blocks; Java with each level and RC option, another language; 10 values of skip-from, 5 of skip-after, 2 of skip-phases | `MemoryIsSound` (no double deletion, no dangling result, nothing left behind), `InputsAreCurrent`, `SkipsTheRest`, `FunctionIsDone` |
| `cg` | 2 functions, 6 sets of flags, 9 values of skip-from, 9 of skip-after, ranges | `NeededPhasesRun`, `AnalysesAreSound`, `CodeIsRestored`, `OptionsAreObeyed` |
| `mecfg` | every list of up to 5 statements, trys with one handler, lists of 4 labelled blocks | `GraphIsConsistent`, `ProgramIsPreserved`, `ReadyForSSA` |
| `dominance` | every reachable graph of 4 blocks with up to 2 successors beside the common entry and exit, two orders of the predecessors, an exit with a successor | `TreeIsRight`, `FrontiersAreRight`, `Terminates` |
| `messa` | every program of 4 statements, chosen from 6, on a row, a join, a loop, a loop with two entries | `RenamingIsSound`, `StoreStaysDefined`, `ReadsAgree` |
| `devirt` | hierarchies of 3 classes, 2 interfaces and a missing type, two orders; programs of three free statements | `CandidatesAreRight`, `ClassMethodsAreCallees`, `FinalTypesAreRight`, `SeenCallsAreRight` |
| `devirt_otherfield` | one hierarchy, the load from another class's field | a call is bound to the wrong method (finding) |
| `ipa` | every call graph of 4 functions; 1808 programs of 3 or 4 functions that run | `ComponentsAreCycles`, `CalleesAreCompiledFirst`, `BehavesTheSame`, `OnlyRecursionIsLeft` |
| `lsra` | programs of 4 blocks in 6 shapes, 3 values for one register of each kind, 3 modes, 2 overlap limits | `LivenessIsExact`, `BlocksAreOrdered`, `CodeIsRight`, `RegistersAreKept` |

A property that is a conjunction names its parts in the module; type invariants are parts.

Why the bounds are enough. Workers are interchangeable; the races are between two
workers, or a worker and `ThreadFinish`, and a third worker and task let an id arrive out
of order while another is being finished; the second run starts from what the first left.
The theorems of section 4 hold for every bound. In `MemPool` two pools exchange blocks through
the free lists, three blocks allow two of one size beside another, and two markers nest. In
the pipelines the sequences are the real ones; two functions show what one leaves for the
next. Four blocks are the fewest with a loop of two entries, a join in a loop, nested
loops, and a frontier of a frontier; `mecfg` adds blocks itself when it splits and clones.
Three classes and two interfaces give each way of inheriting one method twice. Four
functions have every pair of components that call one another, and a component of three;
in `CyclePrograms` a recursion of two calls a leaf, so that a call comes into the recursion
by inlining.
In `lsra` three values for three registers and a parameter register that comes and goes
give every outcome: saved over a call, a callee-saved register given up for a slot, a hole
filled, an interval evicted, one spilled before the scan, a register set aside for a
parameter, a reload left out, a slot used again. `ManyPreds` is 1 instead of 5 so that a
join of four blocks has many predecessors, and the limit of 28 overlapping intervals is
also tried as 2. Two of the values share a bit of `reg_used_in_bb`.

Deadlock is not checked where the system stops: by a bound (`MaxRuns`, `MaxFuncs`, blocks
and marks used up) or because the phases modelled are done. `mempool`, `me` and `cg` stop
by their bounds; in the scheduler `ReturnsOrLosesWakeup` says more than a deadlock check.

Fairness. The scheduler runs assume weak fairness of each worker, of `ThreadFinish` and of
the owner inside `RunTask`: the operating system runs every thread that can run. None is
assumed of the spurious wakeup or of callers. A mutex taken for one critical section never
stays taken, so weak fairness is enough. `me` and `dominance` assume that sequential code
goes on.

Every property has a mutant in the module: the definition named in `PROJECT.json` is
replaced by one with a likely mistake, and TLC finds the property violated.

## 4. Proofs

Seven modules of theorems, each with an inductive invariant and the steps that keep it, one
per action, and one of lemmas they share. TLC finds the invariants to hold on the instances
of section 3 as well (replace EXTENDS of the `MC` module by the `Proofs` module and name the
invariant in the `.cfg`), but for `Work` of the code generator, which quantifies over an
unbounded set.

### MplSchedulerProofs

For any set `Workers` and any natural `MaxTasks` and `MaxRuns` (`SchedulerAssumption`):

- `TypeCorrect`: `TypeOK`; `RunsExactlyOnce`, `FinishesInOrder`, `ReturnsDone`,
  `FirstExists`: the safety properties of `sched`;
- `ImplementsTaskExecutionProved`: every behaviour is one of `TaskExecution`.

None of the properties is inductive. That a task is run once needs to know that the tasks
workers hold are below the cursor and different from each other (`HeldInv`, `CountInv`);
that the first id exists and is finished once needs to know that a waiting id was run and
is not finished unless it is the one being removed (`SetInv`, `FinishInv`); the order needs
that the finished tasks are exactly those below `taskIdExpected` (`SeqInv`); and that
everything is done on return needs that a claimed task is held, waiting or finished
(`CoverInv`) and which threads exist at each place of the owner (`OwnerInv`). `IInv` is
their conjunction; `InitIInv` and `StepIInv` show it inductive, and `StepRefines` maps every
action to a step of `TaskExecution` or a stutter under it.

### MemPoolProofs

For any pools, blocks, sizes, `kMinBlockSize` and `MaxMarks` (`MemPoolAssumption`): every
property of the run `mempool`, as `MallocIsSound` (`NoOverlap`), `MemoryStaysHeld`
(`LiveIsHeld`), `RecyclingIsSound` (`BlocksAreRecycled`) and the action property
`PopIsComplete` (`PopReclaims`).

What is in use is safe from `Pop` only because of where blocks lie on a stack, and that is
what the properties do not say. `MarksInv`: the blocks that markers name lie on their stack
in the order of the pushes. `LiveInv`: memory handed out under level k lies strictly above
the blocks marked by the first k pushes and at or below those marked later. `SizeInv`: the
small lists hold blocks of `kMinBlockSize` only, the large ones larger blocks, and free
blocks are whole. With them a `Pop` frees exactly the blocks above the mark, and the user
has no memory left in them. `Pos` is the position of a block, 0 for the null marker of a
push on an empty pool; it is why `PopReclaims` excepts that case (section 5).

### MePhaseManagerProofs

For any set of command lines and any number of functions: `MemorySafety` (`MemoryIsSound`),
`InputsSafety` (`InputsAreCurrent`) and the action property `SkipsSafety` (`SkipsTheRest`);
that is, all of the run `me` but its liveness.

`MePhaseManagerAssumption` leaves out three kinds of command lines: `--skip-phases` with
`emit` (nothing is asked to be emitted), `--skip-after=emit` (the loop does not end: section
5), and `--skip-phases` with all of `hprop`, `symrename` and `hdse`, without which no phase
asks for the IRMap before `may2dassign` and `rclowering` take it for granted.

1. The phases. `SequenceOrdered`: what `AddPhases` leaves of the order, for every choice of
   options, never has a phase twice, has the phases before the SSA form and the IRMap in front
   (`Early`, `Low`), and before `may2dassign` and `rclowering` a phase that asks for the IRMap
   (`Builders`). It is joined from parts whose ranks grow (`PartJoin`), so that the many
   sequences are never listed.
2. The steps. `Good` says of the steps a phase has still to take, by the order of a few kinds
   of steps, what the rest relies on: after a change of the graph nothing is asked for that
   the dominance enters into, and who changes the graph clears the dominance or sets the flag
   later; code is deleted once; no IRMap is made after new code is written or the flag is set.
   `Starts` says what holds of the whole list besides. `RunsGood` proves both for every
   sequence of every phase's `Run`, with a lemma per kind of phase; lists of any length are
   put together with `GoodCons` and `GoodConcat`.
3. The invariant. `IInv`: between two phases the dominance is of the present graph, the code
   is there, and no IRMap and no SSA table exist before the phases that may not see one
   (`Between`); while a phase runs, what it still owes of that is ahead in its list (`Running`,
   `Clearing`, `Emission`, `Optimizing`), and each activation below the top holds results of
   the cache and has asked for the one that is being made (`Stacked`, `Relied`); `Level`
   bounds the recursion of `GetAnalysisResult`, so no analysis asks for itself. The
   function's pointers are those of the cache (`Pointers`), code and versions are there until
   `irmapbuild` deletes them (`Pools`), and the phases behind the iterator have run or are
   left out (`Loops`).

A pointer to a result that was made again, or a second deletion, would take several phases to
come about; the proof says that no order of phases and no option leads there.

### CgPhaseManagerProofs

For any options and number of functions: `AnalysesHold` (`AnalysesAreSound`), `CodeHolds`
(`CodeIsRestored`), `NeededPhasesHold` (`NeededPhasesRun`) and the action property
`OptionsHold` (`OptionsAreObeyed`): every property of the run `cg`.
`CgPhaseManagerAssumption` asks that levels are 0 to 2, that flags are known, and that
`--skip-phases` names phases declared skippable; `--skip-from`, `--skip-after` and the
range are anything.

`PhasesAreOrdered` finds what the sequence of every target, level and set of flags has in
common: no phase comes twice, a phase that leaves merged blocks is directly followed by one
that takes them, the phase before `emit` cannot be skipped. `Kept` is where the manager
is. `Work` is the invariant of the phases: an `e` exists, what holds of the analyses, of the
reaching definitions and of merged blocks, that the steps still to take turn into what the
next phase may take for granted (`Between`, `Within`, `Knows`). `Obeyed` relates the
iterator, the two flags and the phases run so far, and `NeededSoFar` says that of the
phases the iterator has passed those that cannot be skipped have run, in order.
`Needed` is a recursive function over positions; that it distributes over sequences
is proved by induction over a set of numbers (`SetInduction`), which `WFMin` of the library
gives without an operator parameter.

### LinearScanProofs

For any blocks, programs and registers: `LivenessHolds` (`LivenessIsExact`),
`BlockOrderHolds` (`BlocksAreOrdered`) and `RegistersHold` (`RegistersAreKept`).
`CgAnalysesAssumption` and `VirtualRegisters` say what a program is: its registers above
`kMaxRegNum` are in `VRegs`; blocks numbered from 1, for each a sequence of successors and
of instructions, and every block is reached from the first (unreachable blocks are removed
before).

Liveness. The code visits blocks
backwards, takes from a successor only when its flag `livein_change` is up, and stops after a
round without a change; the theorem says that this finds the least solution of
the equations, i.e. a register is live exactly where some path reads it before it is
written.

`LiveInv` has three parts. `EquationsHold`: a visited block satisfies its own equation.
`NothingTooMuch`: what is in `livein` is live by some path. `NothingForgotten`: what a block
has not taken from a successor is `Pending`: that successor's flag is up, and the block comes
before the flag is next rewritten, in this round or, since `haschange` is then set, in the
next. When a round ends without a change nothing is pending, and the equations hold for all
blocks. `DefUse` and `Reaching` are recursive functions; `ReachingFacts` shows that
`Reaching` is closed after as many rounds as there are blocks, because a set that grows in
each round would outgrow them.

The order of the blocks, `OrderInv`. The search for the edges that close a loop is a
depth-first search without recursion: a block has a level while it is on the path, a parent,
and the stack holds blocks several times. `SearchInv` says that the levels on the path
are 1, 2, ... and each block on it is a successor of its parent (`PathInv`); that what
waits hangs below the path, the deepest on top (`StackInv`); that a block off the path has no
successor left to visit (`OpenInv`); that edges back along the path, and from finished blocks
to it, are in `loop_succs` (`EdgeInv`); and that the finished blocks have no other cycle:
each set of them has a member that no other member leads to (`NoCycle`). When the stack
drops to the sibling of a block higher up, `PathBelow` takes the blocks below its parent
off the path (`ResetKeeps`). At the end all blocks are finished or on the path, so that
`NoCycle` holds for all, and each edge found is on a cycle (`OnCycle`).

The registers. `RegistersHold` is `Spec => [](WellWritten => RegistersAreKept)`. `WellWritten`
says that no virtual register is live where the function starts, and that where a register is
written its interval goes on, or lies in no hole of another. All programs of the run `lsra`
satisfy it; what it excludes is the first of the failing cases that section 5 lists. Four
invariants carry the proof, each with the help of those before it:

1. `EnterInv`: every block but the first was found from a predecessor over an edge that does
   not close a loop; so a register that is live at its start was written in a block before it
   in the order, since `LivenessHolds` and `BlockOrderHolds` are at hand.
2. `NumberInv`: the intervals made so far (`IntervalsSoFar`) begin where a register is first
   written and do not end before a read or the end of a block where it is live; those of a
   parameter register follow one another. After the last block this is `IntervalsRight`.
3. `ScanInv`: after k instructions the state of the scan is `Good`. What is not spilled and has
   not ended is active (`ActiveInv`); what is held is not free (`HeldInv`); an interval that
   ends where it begins shares with none (`EndedInv`); those that share a register are nested
   in holes, with `parent` and `child` along the nesting (`NestInv`); whoever holds a register
   of a parameter ends before the parameter comes (`ParamInv`); and each register of the
   pool is free, held or set aside (`Accounted`). `NestInv` is why `RetireFromActive`, which
   frees a register only when an interval without a parent ends, frees it once.

The mode in which all is spilled has a shorter invariant of its own (`SpillsAll`).

`Ordered` says of the blocks sorted and those that wait that each is there once and behind all
its predecessors, those excepted from which an edge closes a loop. A straight line keeps it
because its blocks have one predecessor, which is before them, and a pushed successor because
what was pushed before counts as visited. A whole sweep that starts no search
(`SweepHolds`) leaves no block with all predecessors visited; by `NoCycle` none is left at
all (`AllVisited`), and the exit for two sweeps without progress is never taken.

### InlineProofs

For any functions and any programs over them (`FunctionsAssumption`, `InlineAssumption`:
functions are numbered from 1, and calls and the inline list name functions of the program):
`ComponentsHold` (`ComponentsAreCycles`), `OrderHolds` (`CalleesAreCompiledFirst`) and
`LeftHolds` (`OnlyRecursionIsLeft`); of the run `ipa` only `BehavesTheSame` is left to TLC.
`Foundations` has what recursion over numbers needs, stated for sets instead of operators,
so that the provers can use it; `Reaches` is a recursive function too, and `FromFacts` shows it
closed after as many calls as there are functions.

1. The search. `DfsInv` is the invariant of Tarjan's algorithm as `BuildSCCDFS` has it.
   `StackOrder` and `DfsOrder`: the orders grow along the stack of functions and along the
   activations, and the callees an activation has passed were visited (`SeenVisited`).
   `Finished`: a component calls only components that were found before. `LowReached`: the
   lowest order of a function is that of a function on the stack that it reaches; `LowBounds`:
   that of an active function is not above the orders of what was seen on the stack since; `LowLeaves`:
   a function that was
   left but is on the stack has a lower one, so it reaches something older. `GrayReaches`:
   an active function reaches what came on the stack after it. When the two orders of a
   function agree, all that is above it on the stack reaches it and is reached from it, and
   nothing else does both: that is `ComponentsAreCycles` for the component that is popped.
2. The order. `SortInv`: a component in the order has its callers in front, and one whose
   callers were all expanded is in the order. That `SCCTopologicalSort` ends with all of them
   (`SortIsComplete`) needs that a component is numbered above what it calls (`Finished`): of
   the components left out the one with the greatest number would have no caller left out.
   `BottomFirst` is what both uses of the order share: a list of all functions, once each,
   the components from the last to the first.
3. The calls. `CallsInv`: a call that was not scanned is one of the graph; any other *may
   stay*: if its callee may be inlined anywhere a recursion leads to it (`MayStay`).
   `OrderInv`: on the way from a function that was scanned to one that was not lies a
   recursion. What comes in for a call was scanned, or its function is on a cycle with the
   caller (`InlinedMayStay`); and a function that is accepted late, when the scan comes to it,
   is called only by functions on a cycle with it (`EnterFunctionStep`).

`OnlyRecursionIsLeft` says `Through`, not that the callee is recursive itself: when two
functions call each other and one also calls a leaf, the leaf's call comes into the other with
the inlined body, after the scan, and stays. `CyclePrograms` has that case.

### DominanceProofs

For any blocks and any graphs whose lists agree but for the edges of the two common blocks
(`BlocksAssumption`, `GraphsAssumption`), irreducible ones, ones with blocks that cannot be
reached and ones that make the backward half crash included: `TreeHolds` (`TreeIsRight`) and
`FrontiersHold` (`FrontiersAreRight`), both of them also after the change of direction.
That the iteration ends (`Terminates`) is left to TLC.

`Inv` has one part for each place of the program; each part ends as what the next one starts
from.

1. The walk. `WalkInv`: the stack is a way down from the root; what a numbered block leads to
   is numbered or on the stack; the walk came to a block from one that is numbered later. At
   the end (`Walked`) `order` has the blocks that are reached, and a block comes after all
   that dominate it: the first one on a way around a dominator would not have been come to.
2. The iteration. `TreeOK` is kept by every assignment, though the tree is unfinished: an
   entry lies above its block in postorder, so the fingers of `Intersect` climb and meet
   within twice the number of blocks (`MeetFacts`), and what dominates a block dominates its
   entry: nothing is ever put too high. That nothing ends too low is `LoopInv`: as long as a pass has
   not changed anything, every known way into the blocks it has passed leads down from the
   block's entry (`Entered`). After a pass without a change that is so for all blocks
   (`Settled`), and then what is above a block in the tree lies on each way to it
   (`SettledFacts`).
3. The frontiers. `FrontInv`: those of the blocks below the loop index are complete. The
   runners pass the blocks over a way into a block and not strictly over it (`PathFacts`,
   `RunnersFacts`); a block with one way in has no frontier of its own, unless that way is
   joined by the unlisted one from the root (`OneWayIn`, `LeftOut`).
4. The iterations. `IterInv`: those of the blocks below the loop index are closures. Taking a
   finished closure for a frontier gives the same closure (`IterFrontierFacts`).
5. The preorder. `PreInv` says in terms of dominance that a block on the stack still comes
   before anything that its dominators do not dominate, so that subtrees are contiguous; the
   entries of `Children` are disjoint and each is come to once.

### What is only model-checked

- Liveness: `ReturnsOrLosesWakeup`, `FunctionIsDone`, `Terminates`. It needs fairness and
  ENABLED, which TLAPS 1.4.5 does not handle.
- What other graph and program algorithms compute: `MeCFG`, `MeSSA`, `KlassHierarchy`,
  `Devirtualize`, and of `LinearScan` the spills and the code that is emitted
  (`CodeIsRight`). They are written with recursive
  functions, not with RECURSIVE operators, so that their modules can be proved about. Where a
  property compares with an execution of the program (`BehavesTheSame`, `CodeIsRight`,
  `ProgramIsPreserved`) a proof would be an induction over the execution.

## 5. Findings

Checked by a run that must fail:

1. `ThreadFinish` can miss the last signal (`mpl_scheduler.cpp:211`): `SequentialRunReturns`.
2. `DoDevirtual` keeps an inferred type over an assignment (`callgraph.cpp:978`):
   `BoundCallsAreRight`.

Met while modelling. The instances leave these cases out, where it is said; each was seen
in the code, and the first five with TLC on a changed instance:

- Register allocation: a value that is written by the instruction that reads it last, in the
  hole of another interval, becomes active again with the register it had
  (`aarch64_reg_alloc.cpp:2874`, where the comment at 2872 wants a new one) and is retired
  twice, the second time with the register of the other. `MCLinearScan` has such a program
  in `RewritePrograms`, with `RewriteBlocks` and `RewriteVRegs`; on it `EveryReadIsRight` fails.
  What the programs of `lsra` write is read, or comes to its end at once.
- Register allocation: a value that is only live round a loop whose last block ends in a
  call and falls through to the condition is kept in a caller-saved register over the call:
  the interval ends at the call itself, and `cli->first_def < li->last_use`
  (`aarch64_reg_alloc.cpp:2603`) is false. In `MCLinearScan` a block that closes a loop ends
  in a branch.
- FSAA takes away the may-def of a store through a pointer although a pointer read from a
  final field may have the same value (`me_fsaa.cpp:55`, against the comment at 26-28).
  `MCMeSSA` has the statements for it in `FinalStmts`; with them `ReadsAgree` fails.
- `Pop` of a marker that was pushed on a pool without blocks keeps later blocks
  (`MP.cpp:268`, against the comment at 252 and `mempool/README:41`); `PopReclaims` excepts it.
- A second free large block of one size is dropped by the set it is inserted into
  (`MP.cpp:108`, against `mempool/README:52`); `BlocksAreRecycled` says small blocks only.
- The middle end's `--skip-phases` with `hprop`, `symrename` and `hdse` leaves `may2dassign`
  and `rclowering` without the IRMap they use unasked.
- `--skip-after=emit` does not end (`me_phase_manager.cpp:276`), and `--skip-after=cfgopt`
  passes over its restart (295), against `me_option.cpp:216`.
- The code generator's `--skip-after` with a function out of the range
  (`cg_phase_manager.cpp:246`), and `--range`, which only some phases look at (243, against
  `cg_option.cpp:486`).
- Post-dominators: `ComputePdomFrontiers` follows a null pointer when a block reaches no exit
  (`dominance.cpp:306`), and leaves exits with one listed successor out of the frontiers
  (299); `WontExitAnalysis` connects only loops that are closed by a goto (`me_cfg.cpp:428`).
- A loop back to what was the first block keeps its critical edge
  (`me_critical_edge.cpp:125`); `ReadyForSSA` excepts it.
- Inliner: `RenamePregs` does not return for a function with a pseudo-register that is
  inlined into itself; a virtual call of a listed method is inlined without dispatch; statics
  of the callee are duplicated; `must_not_be_inlined` is never set, `growth_rate_threshold`
  never read, and the greedy inliner always stops at `calleeSize != 0`.
- Call graph: a virtual call gets no edge to a default method, since `HandleBody` climbs
  superclasses only (`callgraph.cpp:430-457`); an interface call gets none to a method
  inherited from a class that does not implement the interface, nor to the default method
  of an interface above or below. There the comment at 1435-1436, "callee is always compiled
  before caller", does not hold. `ClassMethodsAreCallees` is about the other methods.
- In a try, a call, an iassign or an assertnonnull that may throw stays inside its block
  (`me_function.cpp:483`): only a dassign with such a right-hand side ends it (225). The edge
  to the handler leaves from the end of the block, so the handler's analyses see assignments
  that are not made when the earlier statement throws. `HandlersSeeTheThrow` says
  where blocks end for throws and dassigns, and that the edges are there for all.
- `reg_used_in_bb` is tested with a shift of an int by up to 63 (`aarch64_reg_alloc.cpp:1755`):
  two registers may share a bit, which changes a choice but not the result.
- `FinalizeRegisters` counts callee-saved registers over indices that are one off the
  registers' numbers, so the last one never counts (4042).

## 6. Not modelled

- Data: what most phases compute, the contents of memory, names, dumps, timers.
- `Options::skipPhase` (a null pointer from `GetAnalysisResult`), the loop-nest phase
  sequence, phase lists given by name, `--skip-phases` of `emit` (nothing would be
  emitted by request) and of phases other than those in `MCOptions`.
- Alignment and 32-bit offsets in `Malloc`; a pool of more than 4 GB.
- Concurrent use of the global `mempoolctrler` by parallel tasks: a hazard without a property.
- Exceptions in the code generator (catch and cleanup blocks, sub-blocks of liveness), float
  registers, spilling to SIMD registers and to slots of local references.
- In the middle end, gosub, igoto and non-Java handlers; fields and registers in SSA.
- In the inliner, pseudo-registers, structured statements and statics.
- The components with status `not_modelled` in `PROJECT.json`, each with its reason.

## 7. Plan

Modules, in order, with the question each is for:

1. `SwitchLowerer`: the decision tree takes the branch the switch takes.
2. `SSAPre`: insertions make partial redundancies full and nothing is computed on a path on
   which it was not; on top of `Dominance` and `MeSSA`.
3. `InterleavedManager`: groups of module and function phases; each function compiled once,
   in the order `CallGraph` leaves; an empty sequence is not counted
   (`interleaved_manager.cpp:89`).
4. `ListScheduler` and the graph-colouring allocator, on the programs of `LinearScan`.
5. `ConstantFold` and `BinMpl`: folding at small widths; number encoding round trip.
6. `RefCounting`: balance of counts after analysis and lowering.

Abstract specifications: an allocator (memory is handed out and reclaimed by level) that
`MemPool` implements for marked pools; one pipeline specification that both phase managers
implement.

Theorems, in order: `CandidatesAreRight` for `KlassHierarchy`, along the order of
`TopologicalSortKlasses`; `GraphIsConsistent` for `MeCFG`, one pass at a time.
