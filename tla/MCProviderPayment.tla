------------------------- MODULE MCProviderPayment -------------------------
(***************************************************************************)
(* Instances of ProviderPayment for TLC. A product has one provider, and   *)
(* an order one provider order for each provider: the two provider orders  *)
(* of an order ask for different products ("siblings"), those of two       *)
(* orders for the same one ("contention"); one provider order may be       *)
(* prepared twice ("repeated").                                            *)
(***************************************************************************)
EXTENDS ProviderPaymentClaims

CONSTANTS o1, o2, a, b, s1, s2, p1, p2, c1

OneOrder == {o1}
TwoOrders == {o1, o2}
OneProduct == {p1}
TwoProducts == {p1, p2}
TwoSessions == {s1, s2}
OneProviderOrder == {a}
TwoProviderOrders == {a, b}
SessionEach == [s \in TwoSessions |-> IF s = s1 THEN a ELSE b]

SiblingOrderOf == [po \in TwoProviderOrders |-> o1]
SiblingUnits ==
  [pos \in SUBSET TwoProviderOrders |->
     [p \in TwoProducts |-> Cardinality(pos \cap IF p = p1 THEN {a} ELSE {b})]]

RepeatedOrderOf == [po \in OneProviderOrder |-> o1]
BothSessions == [s \in TwoSessions |-> a]
RepeatedUnits ==
  [pos \in SUBSET OneProviderOrder |-> [p \in OneProduct |-> Cardinality(pos)]]

ContentionOrderOf == [po \in TwoProviderOrders |-> IF po = a THEN o1 ELSE o2]
ContentionUnits ==
  [pos \in SUBSET TwoProviderOrders |-> [p \in OneProduct |-> Cardinality(pos)]]
=============================================================================
