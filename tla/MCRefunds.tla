----------------------------- MODULE MCRefunds -----------------------------
(***************************************************************************)
(* Instances of Refunds for TLC. One payment of 3, and partial refunds of  *)
(* 2, 1 and 2 asked by one client (r1, r2, r3): r1 and r3 do not fit       *)
(* together, and one request is beyond the limit of 2 unless they overlap. *)
(* q1 is the full refund of another payment, asked by an administrator.    *)
(***************************************************************************)
EXTENDS Refunds, FiniteSetsExt, TLC

CONSTANTS r1, r2, r3, q1, client, admin, po, other, c1, c2

Requests == {r1, r2, r3, q1}
Boundaries == {po, other}
Actors == {client, admin}
Calls == {c1, c2}
Placed == [r \in Requests |-> IF r = q1 THEN other ELSE po]
Askers == [r \in Requests |-> IF r = q1 THEN admin ELSE client]
Payments == [b \in Boundaries |-> IF b = po THEN 3 ELSE 1]
Amount(r) == IF r \in {r1, r3} THEN 2 ELSE 1
Sums == [rs \in SUBSET Requests |-> MapThenSumSet(Amount, rs)]

SameCalls == Permutations(Calls)
=============================================================================
