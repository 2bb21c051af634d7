SPECIFICATION Spec
CONSTANTS
  Clients = {c1, c2}
  Keys = {"requirements", "quality"}
  MaxJobs = 2
  Planners = {p1, p2}
  Waves <- MCWaves
  MaxCrashes = 1
  MaxAttempts = 2
INVARIANTS
  DuplicateRowsNeedOverlap
  WavesResolve
PROPERTIES
  SettledIsFinal
  JobsSettle
CHECK_DEADLOCK FALSE
