SPECIFICATION Spec
CONSTANTS
  f1 = f1
  s1 = s1
  s2 = s2
  o1 = o1
  Fitter = {}
  Session = {s1, s2}
  Order = {o1}
  PlanCount <- PlanCountDef
  Count <- CountDef
  MaxId = 5
  MaxWork = 1
  MaxCommit = 4
  Mismatch = FALSE
INVARIANTS
  FinishedMeetsPlan
  RemakeMeetsPlan
  FinishedIsPlanned
SYMMETRY SessionSymmetry
CHECK_DEADLOCK FALSE
