\* Three workers, three tasks, two runs on one scheduler object, every thread fair.
SPECIFICATION FairSpec
CONSTANTS
  w1 = w1
  w2 = w2
  w3 = w3
  Workers <- MCWorkers3
  MaxTasks = 3
  MaxRuns = 2
INVARIANTS
  TypeOK
  ExactlyOnce
  FinishedInOrder
  ReturnsWhenAllDone
  FirstIsNotNull
PROPERTIES
  ImplementsTaskExecution
  ReturnsOrLosesWakeup
CHECK_DEADLOCK FALSE
