SPECIFICATION Spec
CONSTANTS
  o1 = o1
  o2 = o2
  t1 = t1
  t2 = t2
  c1 = c1
  c2 = c2
  Orders <- MCOrders
  Contents <- MCContents
  Connections <- MCConnections
  None = None
  MaxDocs = 4
  Overlap = FALSE
SYMMETRY Symmetry
INVARIANTS
  OnePerOrder
PROPERTIES
  SubmittedIsFinal
  ActsOnPicked
