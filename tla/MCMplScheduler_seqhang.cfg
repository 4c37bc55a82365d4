\* Sequential mode with every thread fair: the lost wakeup.
SPECIFICATION FairSpec
CONSTANTS
  w1 = w1
  w2 = w2
  w3 = w3
  Workers <- MCWorkers2
  MaxTasks = 2
  MaxRuns = 1
PROPERTY SequentialRunReturns
CHECK_DEADLOCK FALSE
