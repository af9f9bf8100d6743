CONSTANTS
  r1 = r1  r2 = r2  r3 = r3  q1 = q1  client = client  admin = admin
  po = po  other = other  c1 = c1  c2 = c2
  Request <- Requests  Boundary <- Boundaries  Actor <- Actors
  BoundaryOf <- Placed  AskedBy <- Askers  Captured <- Payments  Total <- Sums
  RequestLimit = 2  Call <- Calls  None = None
SPECIFICATION Spec
SYMMETRY SameCalls
INVARIANTS RefundedOnce CompletedIsRefunded CommittedWithinCapture
PROPERTIES CompletedStays ImplementsLedger
CHECK_DEADLOCK FALSE
