---------------------------- MODULE MCSiblings -----------------------------
(***************************************************************************)
(* Two instances of ProviderPayment for TLC, of which a behaviour runs     *)
(* one, chosen at the start: the module's own, the two provider orders of  *)
(* one order, and C, two orders whose provider orders contend for one      *)
(* product.                                                                *)
(***************************************************************************)
EXTENDS ProviderPayment

CONSTANTS o1, o2, a, b, s1, s2, p1, p2, c1

OneOrder == {o1}
TwoOrders == {o1, o2}
OneProduct == {p1}
TwoProducts == {p1, p2}
TwoProviderOrders == {a, b}
TwoSessions == {s1, s2}

SessionEach == [s \in TwoSessions |-> IF s = s1 THEN a ELSE b]
SiblingOrderOf == [po \in TwoProviderOrders |-> o1]
SiblingUnits ==
  [pos \in SUBSET TwoProviderOrders |->
     [p \in TwoProducts |-> Cardinality(pos \cap IF p = p1 THEN {a} ELSE {b})]]

ContentionOrderOf == [po \in TwoProviderOrders |-> IF po = a THEN o1 ELSE o2]
ContentionUnits ==
  [pos \in SUBSET TwoProviderOrders |-> [p \in OneProduct |-> Cardinality(pos)]]

VARIABLES
  focus,
  cOrderStatus, cPoStatus, cPaymentStatus, cPaymentRef, cReservation, cLapsed, cStock,
  cSupply, cSession, cExternal, cActivation, cIntent, cDelivery, cEvent, cStale,
  cHandler, cSeen, cAllPaid, cCancel, cSweep, cEvaluation, cRestored, cFaults

C == INSTANCE ProviderPayment WITH
  Order <- TwoOrders, Product <- OneProduct, ProviderOrder <- TwoProviderOrders,
  OrderOf <- ContentionOrderOf, Owner <- SessionEach, Units <- ContentionUnits,
  MaxStock <- 2, MaxFaults <- 0, ExpirySweep <- FALSE, RetryInWindow <- FALSE,
  Session <- TwoSessions, Canceller <- {c1},
  orderStatus <- cOrderStatus, poStatus <- cPoStatus, paymentStatus <- cPaymentStatus,
  paymentRef <- cPaymentRef, reservation <- cReservation, lapsed <- cLapsed,
  stock <- cStock, supply <- cSupply, session <- cSession, external <- cExternal,
  activation <- cActivation, intent <- cIntent, delivery <- cDelivery, event <- cEvent,
  stale <- cStale, handler <- cHandler, seen <- cSeen, allPaid <- cAllPaid,
  cancel <- cCancel, sweep <- cSweep, evaluation <- cEvaluation, restored <- cRestored,
  faults <- cFaults

cVars ==
  <<cOrderStatus, cPoStatus, cPaymentStatus, cPaymentRef, cReservation, cLapsed, cStock,
  cSupply, cSession, cExternal, cActivation, cIntent, cDelivery, cEvent, cStale,
  cHandler, cSeen, cAllPaid, cCancel, cSweep, cEvaluation, cRestored, cFaults>>
mcVars == <<focus, vars, cVars>>

SiblingsInit ==
  /\ focus \in {"siblings", "contention"}
  /\ Init /\ C!Init
  \* The stock is initially arbitrary for the instance that is run.
  /\ focus # "siblings" => supply = [p \in TwoProducts |-> 0]
  /\ focus # "contention" => cSupply = [p \in OneProduct |-> 0]

SiblingsNext ==
  \/ focus = "siblings" /\ Next /\ UNCHANGED <<focus, cVars>>
  \/ focus = "contention" /\ C!Next /\ UNCHANGED <<focus, vars>>

SiblingsSpec == SiblingsInit /\ [][SiblingsNext]_mcVars

\* Both instances implement the atomic sale of OrderSettlement.
BothImplementSettlement == ImplementsSettlement /\ C!ImplementsSettlement
=============================================================================
