SPECIFICATION FairSpec
CONSTANTS
  Options <- MCOptions
  MaxFuncs = 2
INVARIANTS
  MemoryIsSound
  InputsAreCurrent
PROPERTIES
  SkipsTheRest
  FunctionIsDone
CHECK_DEADLOCK FALSE
