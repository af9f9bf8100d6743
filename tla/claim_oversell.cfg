CONSTANTS
  r1 = r1  r2 = r2  r3 = r3  r4 = r4  x = x  y = y  k1 = k1  k2 = k2  p1 = p1
  Request <- Requests  Key <- Keys  Client <- Clients  Product <- OneProduct
  KeyOf <- ClashingKeys  ClientOf <- Clashing  Units <- OneUnitEach  Nobody = Nobody
  MaxStock = 1  MaxCarts = 2  MaxFaults = 1
SPECIFICATION Spec
INVARIANT NoOversell
CHECK_DEADLOCK FALSE
