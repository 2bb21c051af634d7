SPECIFICATION FairSpec
CONSTANTS
  op = op
  k1 = k1
  k2 = k2
  Packages = {"a", "b", "c"}
  Ids = {"a1", "b1", "c1"}
  PackageOf <- CopyOf
  PlanningOf <- StoredBy
  MaxPlannings = 1
  WaveOf <- Waves
  DependsOn <- Deps
  TypeOf <- Types
  FreshKeys = {k1, k2, k3}
  Workers = 1
  Operators = {}
  Requests = {}
  MaxRetries = 1
  MaxIncidents = 3
  Faults = {"fail", "reject"}
PROPERTIES EveryRunSettles
CHECK_DEADLOCK FALSE
