SPECIFICATION Spec
CONSTANTS
  api = api
  worker = worker
  c1 = c1
  c2 = c2
  c3 = c3
  c4 = c4
  r1 = r1
  r2 = r2
  r3 = r3
  Processes = {api, worker}
  Calls = {c1, c2, c3, c4}
  ProcessOf <- TwoProcesses
  RunOf <- Runs
  GlobalLimit = 2
  ProviderLimit = 2
  RunLimit = 1
  MaxRetries = 0
  Threshold = 2
  MaxOverlap = 2
  Faults = {"crash", "lapse", "error", "lost", "leak"}
INVARIANTS SlotsLimitCalls
CHECK_DEADLOCK FALSE
