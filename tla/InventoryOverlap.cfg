SPECIFICATION Spec
CONSTANTS
  m1 = m1
  m2 = m2
  Session = {s1, s2}
  Material = {m1}
  NoMaterial = NoMaterial
  Location = {a1}
  NoLocation = NoLocation
  Order = {o1}
  UnitCount <- UnitCountDef
  Amount <- AmountDef
  Overdraw = FALSE
  NoEntry = NoEntry
  MaxLot = 2
  MaxLog = 5
INVARIANTS
  ReleasedLotIsEmpty
  NothingUnaccounted
  NeverOverReceived
CHECK_DEADLOCK FALSE
