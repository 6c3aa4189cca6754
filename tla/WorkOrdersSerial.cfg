SPECIFICATION SerialSpec
CONSTANTS
  f1 = f1
  s1 = s1
  s2 = s2
  o1 = o1
  Fitter = {f1}
  Session = {s1}
  Order = {o1}
  PlanCount <- PlanCountDef
  Count <- CountDef
  MaxId = 6
  MaxWork = 1
  MaxCommit = 5
  Mismatch = FALSE
INVARIANTS
  PlanTracksSites
  MakeCountReconciles
PROPERTIES
  ReopenedByFirstFailure
  ConstructionSide
CHECK_DEADLOCK FALSE
