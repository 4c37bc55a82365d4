SPECIFICATION Spec
CONSTANTS
  Options <- MCOptions
  MaxFuncs = 2
INVARIANTS
  NeededPhasesRun
  AnalysesAreSound
  CodeIsRestored
PROPERTY OptionsAreObeyed
CHECK_DEADLOCK FALSE
