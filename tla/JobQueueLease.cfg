SPECIFICATION FairSpec
CONSTANTS
  w1 = w1
  w2 = w2
  a1 = a1
  a2 = a2
  none = none
  Jobs = {1, 2}
  AsyncWorkers = {w1}
  ApiWorkers = {a1}
  NoWorker = none
  Role <- OneRole
  Serves <- ServeAll
  MaxAttempts = 2
  Faults = {"crash", "slow", "error"}
  Mortal = {a1}
PROPERTIES TerminalIsFinal ImplementsLease EveryJobSettles
CHECK_DEADLOCK FALSE
