SPECIFICATION FairSpec
CONSTANTS
  c1 = c1
  c2 = c2
  Clients <- TwoClients
  None = None
  MaxLocations = 3
  MaxMarks = 2
  MaxHandlers <- Handlers
  SubRows = 2
  PicksSelf = FALSE
INVARIANTS
  LevelIsDepth
  ReachesTop
PROPERTIES
  DeletesEnd
