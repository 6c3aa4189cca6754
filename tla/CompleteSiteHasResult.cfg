SPECIFICATION ConstructionSerialSpec
CONSTANTS
  f1 = f1
  f2 = f2
  Fitter = {f1}
  MaxId = 7
  Mismatch = FALSE
INVARIANT
  CompleteSiteHasResult
CHECK_DEADLOCK FALSE
