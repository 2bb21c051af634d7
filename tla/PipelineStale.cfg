SPECIFICATION FairSpec
CONSTANTS
  op = op
  k1 = k1
  k2 = k2
  Packages = {"a", "b"}
  Ids = {"a1", "b1"}
  PackageOf <- CopyOf
  PlanningOf <- StoredBy
  MaxPlannings = 1
  WaveOf <- Waves
  DependsOn <- NoDeps
  TypeOf <- Types
  FreshKeys = {k1}
  Workers = 2
  Operators = {}
  Requests = {}
  MaxRetries = 1
  MaxIncidents = 0
  Faults = {}
PROPERTIES EveryRunSettles
CHECK_DEADLOCK FALSE
