--------------------------- MODULE OrderPlacement ---------------------------
(***************************************************************************)
(* What a checkout promises under its Idempotency-Key, without stock,      *)
(* reservations, crashes or the steps of its handlers: a key comes to name *)
(* one order and names it for good, the order and the closing of a cart    *)
(* are one step, and a request is shown one answer, which is the order of  *)
(* its key and its own client's.                                           *)
(***************************************************************************)
EXTENDS Naturals

CONSTANTS Request, Client, Key, KeyOf, ClientOf, MaxCarts, Nobody

VARIABLES
  orderOf,  \* the order of a key, by the request that placed it
  closed,   \* the client's carts that were ordered, by their positions
  shown     \* the order a request was answered with

vars == <<orderOf, closed, shown>>

Init ==
  /\ orderOf = [k \in Key |-> Nobody]
  /\ closed = [c \in Client |-> {}]
  /\ shown = [r \in Request |-> Nobody]

PlaceOrder(r) ==
  /\ orderOf[KeyOf[r]] = Nobody
  /\ orderOf' = [orderOf EXCEPT ![KeyOf[r]] = r]
  /\ \E n \in 1..MaxCarts : closed' = [closed EXCEPT ![ClientOf[r]] = @ \cup {n}]
  /\ UNCHANGED shown

ShowOrder(r) ==
  LET q == orderOf[KeyOf[r]] IN
  /\ shown[r] = Nobody
  /\ q # Nobody /\ ClientOf[q] = ClientOf[r]
  /\ shown' = [shown EXCEPT ![r] = q]
  /\ UNCHANGED <<orderOf, closed>>

Next == \E r \in Request : PlaceOrder(r) \/ ShowOrder(r)

Spec == Init /\ [][Next]_vars
=============================================================================
