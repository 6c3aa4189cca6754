SPECIFICATION Spec
CONSTANTS
  orders = orders
  system = system
  monitor = monitor
  settingUrl = settingUrl
  Blank = Blank
  setting = setting
  NoOpen = NoOpen
  NoTab = NoTab
  w1 = w1
  w2 = w2
  Windows <- MCWindows
  Home = w1
  Room <- MCRoom
  Pages <- MCPages
  UrlOf <- MCUrlOf
  Searched = {orders}
  MaxLoads = 1
  MaxTabs = 3
  SortedKeys = TRUE
INVARIANTS
  TypeOK
  SessionIsStrip
  PagesOpenOnce
  ShownIsOpen
PROPERTIES
  ReloadKeepsTabs
  ShownPageComesAlive
