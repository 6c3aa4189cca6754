SPECIFICATION Spec
CONSTANTS
  acme = acme
  bolt = bolt
  cove = cove
  acmeFood = acmeFood
  boltFood = boltFood
  shop1 = shop1
  shop2 = shop2
  None = None
  Company = {acme, bolt, cove}
  Brand = {acmeFood, boltFood}
  Branch = {shop1, shop2}
  CompanyOf <- MCCompanyOf
  BrandOf <- MCBrandOf
  MaxOrders = 2
  MaxRows = 2
  MaxWork = 1
  Careful = TRUE
INVARIANTS
  TypeOK
  
  OrderHasBrand
  WorkOrderKeepsOrder
PROPERTIES
  RegisteredUnderItsBrand
