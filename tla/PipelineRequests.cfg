SPECIFICATION Spec
CONSTANTS
  op = op
  k1 = k1
  k2 = k2
  Packages = {"a", "b", "c"}
  Ids = {"a1", "b1", "c1", "a2", "b2", "c2"}
  PackageOf <- CopyOf
  PlanningOf <- StoredBy
  MaxPlannings = 2
  WaveOf <- Waves
  DependsOn <- Deps
  TypeOf <- Types
  FreshKeys = {k1}
  Workers = 1
  Operators = {op}
  Requests = {"resume", "requeue", "cancel", "pause", "repair"}
  MaxRetries = 1
  MaxIncidents = 1
  Faults = {"fail", "reject", "abort", "give_up", "unmarked"}
INVARIANTS TypeOK DependenciesFirst PhasesInOrder ReleaseEarned
CHECK_DEADLOCK FALSE
