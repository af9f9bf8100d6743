CONSTANTS
  o1 = o1  o2 = o2  a = a  b = b  s1 = s1  s2 = s2  p1 = p1  p2 = p2  c1 = c1
  Order <- OneOrder  Product <- TwoProducts  ProviderOrder <- TwoProviderOrders
  OrderOf <- SiblingOrderOf  Owner <- SessionEach  Units <- SiblingUnits
  Session <- TwoSessions  NoRef = NoRef  Canceller = {c1}
  MaxStock = 1  MaxFaults = 1  ExpirySweep = TRUE  RetryInWindow = TRUE
SPECIFICATION SiblingsSpec
INVARIANTS AllPaidConfirms ConfirmedMeansAllPaid UnitsConserved TerminalMeansPaid
PROPERTIES BothImplementSettlement
CHECK_DEADLOCK FALSE
