SPECIFICATION FairSpec
CONSTANTS
  api = api
  worker = worker
  c1 = c1
  c2 = c2
  c3 = c3
  c4 = c4
  r1 = r1
  r2 = r2
  r3 = r3
  Processes = {api}
  Calls = {c1, c2, c3}
  ProcessOf <- OneProcess
  RunOf <- Runs
  GlobalLimit = 2
  ProviderLimit = 2
  RunLimit = 1
  MaxRetries = 1
  Threshold = 2
  MaxOverlap = 3
  Faults = {"lapse"}
INVARIANTS StreakMatchesHealth InflightHasProbe NoSlotLeft
PROPERTIES EveryCallEnds
CHECK_DEADLOCK FALSE
