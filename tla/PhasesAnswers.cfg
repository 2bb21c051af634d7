SPECIFICATION Spec
CONSTANTS
  PlanOf <- MCPlanOf
  NewIds <- MCNewIds
  MaxAttempts = 2
  MaxIncidents = 2
  Faults = {"refuse", "write", "crash", "resume"}
INVARIANTS
  TypeOK
  AnswersKept
  PlanIsStored
  ResumePlanTrue
PROPERTIES
  NothingForgotten
  QualityCatchesLoss
  RunSettles
CHECK_DEADLOCK FALSE
