CONSTANTS
  o1 = o1  o2 = o2  a = a  b = b  s1 = s1  s2 = s2  p1 = p1  p2 = p2  c1 = c1
  Order <- TwoOrders  Product <- OneProduct  ProviderOrder <- TwoProviderOrders
  OrderOf <- ContentionOrderOf  Owner <- SessionEach  Units <- ContentionUnits
  Session <- TwoSessions  NoRef = NoRef  Canceller = {}
  MaxStock = 1  MaxFaults = 1  ExpirySweep = FALSE  RetryInWindow = FALSE
SPECIFICATION Spec
INVARIANT IgnoredConflictsArePaid
CHECK_DEADLOCK FALSE
