SPECIFICATION SerialSpec
CONSTANTS
  m1 = m1
  m2 = m2
  Session = {s1}
  Material = {m1, m2}
  NoMaterial = NoMaterial
  Location = {a1}
  NoLocation = NoLocation
  Order = {o1, o2}
  UnitCount <- UnitCountDef
  Amount <- AmountDef
  Overdraw = FALSE
  NoEntry = NoEntry
  MaxLot = 4
  MaxLog = 4
INVARIANTS
  LotsReconcile
  StockReconciles
  ShelfCoversLots
PROPERTIES
  ReleasedStaysReleased
  LedgerSpec
CHECK_DEADLOCK FALSE
