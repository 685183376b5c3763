SPECIFICATION Spec
CONSTANTS
  t1 = t1
  t2 = t2
  Tasks <- MCTasks
  MAX_RUNE_OFFSET = 2
  Configs <- MCConfigs
  HostVerdicts <- MCVerdicts
INVARIANTS
  ReleasedIsCleared
  CleanMeansAllCleared
  RewriteIsNotTooLate
PROPERTIES
  ImplementsReleaseGate
CHECK_DEADLOCK FALSE
