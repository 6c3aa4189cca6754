SPECIFICATION Spec
CONSTANTS
  c1 = c1
  b1 = b1
  b2 = b2
  t1 = t1
  t2 = t2
  k1 = k1
  a1 = a1
  d1 = d1
  Clients <- OneClient
  Brands <- MCBrands
  Titles <- MCTitles
  Companies <- MCCompanies
  Addrs <- MCAddrs
  Details <- MCDetails
  Rejoin <- MCRejoin
  None = None
  MaxStores = 2
  MaxRows = 2
  MaxLoads = 1
  MaxUsed = 1
  MaxPosts = 1
  Careful = TRUE
  PicksCompany = FALSE
SYMMETRY Symmetry
INVARIANTS
  ListedByItsBrand
  UsedStays
PROPERTIES
  UntouchedStays
