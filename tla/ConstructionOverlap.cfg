SPECIFICATION ConstructionSpec
CONSTANTS
  f1 = f1
  f2 = f2
  Fitter = {f1, f2}
  MaxId = 6
  Mismatch = TRUE
INVARIANTS
  CompletePlanIsBuilt
  ResultMeansBuilt
  BuiltSiteHasResult
CHECK_DEADLOCK FALSE
