CONSTANTS
  o1 = o1  o2 = o2  a = a  b = b  s1 = s1  s2 = s2  p1 = p1  p2 = p2  c1 = c1  NoRef = NoRef
  Order <- OneOrder  Product <- OneProduct  ProviderOrder <- OneProviderOrder
  OrderOf <- RepeatedOrderOf  Owner <- BothSessions  Units <- RepeatedUnits
  Session <- TwoSessions  Canceller = {c1}
  MaxStock = 1  MaxFaults = 1  ExpirySweep = TRUE  RetryInWindow = TRUE
SPECIFICATION Spec
INVARIANTS NothingToReconcile NeverChargedTwice CapturedIsConfirmable
PROPERTIES PaidIsFinal ImplementsSettlement
CHECK_DEADLOCK FALSE
