-------------------------- MODULE OrderSettlement --------------------------
(***************************************************************************)
(* What the payment of a root order promises, without sessions, intents,   *)
(* webhooks or locks: a provider order is sold at most once, against stock *)
(* that is there; the root order is confirmed in the very step that sells  *)
(* its last provider order; a cancellation returns only what was sold and  *)
(* has not come back before.                                               *)
(***************************************************************************)
EXTENDS Naturals, FiniteSets

CONSTANTS Order, ProviderOrder, Product, OrderOf, Units, MaxStock

VARIABLES orderStatus, paid, restored, stock

vars == <<orderStatus, paid, restored, stock>>

SubOrders(o) == {po \in ProviderOrder : OrderOf[po] = o}

Init ==
  /\ orderStatus = [o \in Order |-> "PENDING"]
  /\ paid = {} /\ restored = {}
  /\ stock \in [Product -> 0..MaxStock]

Sell(po) ==
  LET o == OrderOf[po] IN
  /\ po \notin paid
  /\ \A p \in Product : stock[p] >= Units[{po}][p]
  /\ stock' = [p \in Product |-> stock[p] - Units[{po}][p]]
  /\ paid' = paid \cup {po}
  /\ orderStatus' = [orderStatus EXCEPT ![o] =
       IF orderStatus[o] = "PENDING" /\ SubOrders(o) \subseteq paid'
         THEN "CONFIRMED" ELSE @]
  /\ UNCHANGED restored

\* A confirmed order returns everything or nothing. One that was cancelled before and
\* promoted after it returns what that cancellation left out.
Cancel(o, back) ==
  /\ orderStatus[o] # "CANCELLED"
  /\ back \subseteq (SubOrders(o) \cap paid) \ restored
  /\ back # {} => orderStatus[o] \in {"CONFIRMED", "READY_FOR_ASSIGNMENT"}
  /\ orderStatus[o] = "CONFIRMED" => back \in {{}, SubOrders(o)}
  /\ stock' = [p \in Product |-> stock[p] + Units[back][p]]
  /\ restored' = restored \cup back
  /\ orderStatus' = [orderStatus EXCEPT ![o] = "CANCELLED"]
  /\ UNCHANGED paid

\* A promotion may be decided before a cancellation and applied after it.
Promote(o) ==
  /\ orderStatus[o] # "PENDING" /\ SubOrders(o) \subseteq paid
  /\ orderStatus' = [orderStatus EXCEPT ![o] = "READY_FOR_ASSIGNMENT"]
  /\ UNCHANGED <<paid, restored, stock>>

Next ==
  \/ \E po \in ProviderOrder : Sell(po)
  \/ \E o \in Order, back \in SUBSET ProviderOrder : Cancel(o, back)
  \/ \E o \in Order : Promote(o)

Spec == Init /\ [][Next]_vars
=============================================================================
