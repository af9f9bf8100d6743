-------------------------- MODULE MCStockCheckout --------------------------
(***************************************************************************)
(* Instances of StockCheckout for TLC. Each request asks for one unit of   *)
(* one product. Two clients and two keys: r1 and r2 are the same client's  *)
(* and have the same key, r3 is another client's under that key, r4 is the *)
(* first client's with a key of its own. Nothing tells r1 from r2, and no  *)
(* property is about liveness, so they may be exchanged.                   *)
(***************************************************************************)
EXTENDS StockCheckoutClaims, FiniteSets, TLC

CONSTANTS r1, r2, r3, r4, x, y, k1, k2, p1

Clients == {x, y}
Keys == {k1, k2}
OneProduct == {p1}

Requests == {r1, r2, r3, r4}
Clashing == [r \in Requests |-> IF r = r3 THEN y ELSE x]
ClashingKeys == [r \in Requests |-> IF r = r4 THEN k2 ELSE k1]
OneUnitEach == [rs \in SUBSET Requests |-> [p \in OneProduct |-> Cardinality(rs)]]
Twins == Permutations({r1, r2})
=============================================================================
