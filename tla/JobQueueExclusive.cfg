SPECIFICATION Spec
CONSTANTS
  w1 = w1
  w2 = w2
  a1 = a1
  a2 = a2
  none = none
  Jobs = {1, 2}
  AsyncWorkers = {w1, w2}
  ApiWorkers = {}
  NoWorker = none
  Role <- OneRole
  Serves <- ServeAll
  MaxAttempts = 2
  Faults = {"crash", "error", "lost"}
  Mortal = {w1, w2}
INVARIANTS AtMostOneExecutor
CHECK_DEADLOCK FALSE
