SPECIFICATION Spec
CONSTANTS
  w1 = w1
  w2 = w2
  a1 = a1
  a2 = a2
  none = none
  Jobs = {1, 2}
  AsyncWorkers = {w1}
  ApiWorkers = {a1}
  NoWorker = none
  Role <- OneRole
  Serves <- ServeAll
  MaxAttempts = 2
  Faults = {"crash", "drain", "slow", "error", "lost"}
  Mortal = {w1, a1}
INVARIANTS LeaseConsistent WaitingHasBudget CompletedWasExecuted ExecutionsCounted
PROPERTIES SettledByOwner DeadLetterJustified
CHECK_DEADLOCK FALSE
