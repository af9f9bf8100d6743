--------------------------- MODULE OrderFulfilment ---------------------------
(***************************************************************************)
(* An order of one provider from its manual creation over its payment in   *)
(* cash to its delivery (ENABLE_LEGACY_CASH_PAYMENTS), the only orders     *)
(* whose provider can prepare them step by step: a payment by Stripe makes *)
(* a provider order PAID, from which the transition table leads nowhere.   *)
(*                                                                         *)
(* Almost every handler reads the order and writes it in another statement *)
(* without a lock; the two are two actions, with what was read kept.       *)
(* Conditional updates decide on what is in the row when they run.         *)
(*                                                                         *)
(* If the order comes to have a delivery order, whose life is module       *)
(* Delivery, that writes its runner over the order's, whatever that is.    *)
(***************************************************************************)
EXTENDS Naturals, StateMachine, Runners

CONSTANTS
  Payment,       \* processCashPayment() calls that may be in flight
  Cancellation,  \* cancelOrder() calls that may be in flight
  MaxStock       \* units of the product at the start, at most

ASSUME MaxStockIsNat == MaxStock \in Nat

VARIABLES
  orderStatus,      \* Order.status ("NONE": no row)
  runnerId,         \* Order.runnerId
  sub,              \* ProviderOrder.status
  stock,            \* Product.stock; the order takes one unit
  paying,           \* what a payment does next
  evaluation,       \* of readiness, asked for by a change of the provider order
  acceptors,        \* the runners whose acceptOrder() has read the order
  selecting,        \* the runners a selectRunner() is about to write
  pickup,           \* the propagation of a pickup to the order
  starting,         \* the runners whose markInTransit() has read the order
  cancelling,       \* what a cancellation has decided to write
  won,              \* the runners whose acceptOrder() has succeeded
  dispatched        \* history: a delivery order has been given a runner

\* The statuses of a provider order that ask for an evaluation.
Triggers == {"READY_FOR_PICKUP", "REJECTED_BY_STORE", "CANCELLED"}

requests == <<paying, evaluation, acceptors, selecting, pickup, starting, cancelling>>
history == <<won, dispatched>>
fulfilmentVars == <<orderStatus, runnerId, sub, stock, requests, history>>

FulfilmentInit ==
  /\ orderStatus = "NONE" /\ runnerId = None /\ sub = "PENDING" /\ stock \in 0..MaxStock
  /\ paying = [p \in Payment |-> "idle"]
  /\ evaluation = [t \in Triggers |-> "idle"] /\ pickup = "idle"
  /\ acceptors = {} /\ selecting = {} /\ starting = {}
  /\ cancelling = [c \in Cancellation |-> "idle"]
  /\ won = {} /\ dispatched = FALSE

\* Creation asks whether there is stock, and takes none.
CreateOrder ==
  /\ orderStatus = "NONE" /\ stock > 0
  /\ orderStatus' = "PENDING"
  /\ UNCHANGED <<runnerId, sub, stock, requests, history>>

\* Other orders and edits of the catalogue.
SellElsewhere ==
  /\ stock > 0
  /\ stock' = stock - 1
  /\ UNCHANGED <<orderStatus, runnerId, sub, requests, history>>

(***************************************************************************)
(* Payment in cash.                                                        *)
(***************************************************************************)
PaymentStep(p, from, to) ==
  /\ paying[p] = from
  /\ paying' = [paying EXCEPT ![p] = to]
  /\ UNCHANGED <<evaluation, acceptors, selecting, pickup, starting, cancelling>>

ReadUnpaid(p) ==
  /\ orderStatus = "PENDING"
  /\ PaymentStep(p, "idle", "check")
  /\ UNCHANGED <<orderStatus, runnerId, sub, stock, history>>

CheckStock(p) ==
  /\ PaymentStep(p, "check", IF stock > 0 THEN "commit" ELSE "idle")
  /\ UNCHANGED <<orderStatus, runnerId, sub, stock, history>>

\* Mutant of Deducted: the decrement is not conditional.
DeductedAnyway == stock - 1

\* The decrement is conditional, and nobody looks at whether it took place.
Deducted == IF stock > 0 THEN stock - 1 ELSE stock

CommitPayment(p) ==
  /\ PaymentStep(p, "commit", "idle")
  /\ stock' = Deducted
  /\ orderStatus' = "CONFIRMED"
  /\ UNCHANGED <<runnerId, sub, history>>

(***************************************************************************)
(* The provider order, and what its changes do to the order.               *)
(***************************************************************************)
\* A conditional update of what was read, by somebody who may; only the runner of the
\* order acts as RUNNER.
UpdateProviderOrderStatus(next, role) ==
  /\ orderStatus # "NONE"
  /\ canTransitionProviderOrder(sub, next, role)
  /\ role = "RUNNER" => runnerId # None
  /\ sub' = next
  /\ evaluation' = [t \in Triggers |-> IF t = next THEN "due" ELSE evaluation[t]]
  /\ pickup' = IF next = "PICKED_UP" THEN "due" ELSE pickup
  /\ UNCHANGED <<orderStatus, runnerId, stock, paying, acceptors, selecting, starting,
                 cancelling, history>>

EvaluationStep(t, from, to) ==
  /\ evaluation[t] = from
  /\ evaluation' = [evaluation EXCEPT ![t] = to]
  /\ UNCHANGED <<paying, acceptors, selecting, pickup, starting, cancelling>>

\* Mutant of Ready: what the provider has rejected is not waited for either.
ReadyUnlessWaiting == orderStatus = "CONFIRMED" /\ sub \notin {"PENDING", "ACCEPTED", "PREPARING"}

\* Nothing to wait for, and nothing rejected or cancelled.
Ready == orderStatus = "CONFIRMED" /\ sub \in {"READY_FOR_PICKUP", "PICKED_UP"}

EvaluateReadyForAssignment(t) ==
  /\ EvaluationStep(t, "due", IF Ready THEN "write" ELSE "idle")
  /\ UNCHANGED <<orderStatus, runnerId, sub, stock, history>>

Promote(t) ==
  /\ EvaluationStep(t, "write", "idle")
  /\ orderStatus' = "READY_FOR_ASSIGNMENT"
  /\ UNCHANGED <<runnerId, sub, stock, history>>

PickupStep(from, to) ==
  /\ pickup = from /\ pickup' = to
  /\ UNCHANGED <<paying, evaluation, acceptors, selecting, starting, cancelling>>

ReadPickedUp ==
  /\ PickupStep("due", IF orderStatus = "ASSIGNED" THEN "write" ELSE "idle")
  /\ UNCHANGED <<orderStatus, runnerId, sub, stock, history>>

PropagatePickup ==
  /\ PickupStep("write", "idle")
  /\ orderStatus' = "IN_TRANSIT"
  /\ UNCHANGED <<runnerId, sub, stock, history>>

(***************************************************************************)
(* The runner.                                                             *)
(***************************************************************************)
ReadAcceptable(r) ==
  /\ orderStatus = "READY_FOR_ASSIGNMENT" /\ r \notin acceptors
  /\ acceptors' = acceptors \cup {r}
  /\ UNCHANGED <<orderStatus, runnerId, sub, stock, paying, evaluation, selecting, pickup,
                 starting, cancelling, history>>

\* Mutant of StillAcceptable: the condition is left to what was read before.
AcceptableAsRead == orderStatus # "CANCELLED"

StillAcceptable == orderStatus = "READY_FOR_ASSIGNMENT" /\ runnerId = None

AcceptOrder(r) ==
  /\ r \in acceptors
  /\ acceptors' = acceptors \ {r}
  /\ IF StillAcceptable
       THEN runnerId' = r /\ orderStatus' = "ASSIGNED" /\ won' = won \cup {r}
       ELSE UNCHANGED <<runnerId, orderStatus, won>>
  /\ UNCHANGED <<sub, stock, paying, evaluation, selecting, pickup, starting, cancelling,
                 dispatched>>

ReadSelectable(r) ==
  /\ orderStatus = "READY_FOR_ASSIGNMENT" /\ r \notin selecting
  /\ selecting' = selecting \cup {r}
  /\ UNCHANGED <<orderStatus, runnerId, sub, stock, paying, evaluation, acceptors, pickup,
                 starting, cancelling, history>>

\* Its update asks for the status alone, not for the order to have no runner.
SelectRunner(r) ==
  /\ r \in selecting
  /\ selecting' = selecting \ {r}
  /\ IF orderStatus = "READY_FOR_ASSIGNMENT"
       THEN runnerId' = r /\ orderStatus' = "ASSIGNED"
       ELSE UNCHANGED <<runnerId, orderStatus>>
  /\ UNCHANGED <<sub, stock, paying, evaluation, acceptors, pickup, starting, cancelling, history>>

\* acceptDeliveryJob() and assignRunner() of the order's delivery order.
Dispatch(r) ==
  /\ orderStatus # "NONE" /\ runnerId # r
  /\ runnerId' = r /\ dispatched' = TRUE
  /\ UNCHANGED <<orderStatus, sub, stock, requests, won>>

\* Mutant of MayStart: what the provider has to hand over is not looked at.
MayStartEmpty(r) == runnerId = r /\ orderStatus = "ASSIGNED"

MayStart(r) == runnerId = r /\ orderStatus = "ASSIGNED" /\ sub = "PICKED_UP"

ReadStartable(r) ==
  /\ MayStart(r) /\ r \notin starting
  /\ starting' = starting \cup {r}
  /\ UNCHANGED <<orderStatus, runnerId, sub, stock, paying, evaluation, acceptors, selecting,
                 pickup, cancelling, history>>

MarkInTransit(r) ==
  /\ r \in starting
  /\ starting' = starting \ {r}
  /\ orderStatus' = "IN_TRANSIT"
  /\ UNCHANGED <<runnerId, sub, stock, paying, evaluation, acceptors, selecting, pickup,
                 cancelling, history>>

\* A conditional update, of the order this runner carries.
CompleteOrder ==
  /\ runnerId # None /\ orderStatus = "IN_TRANSIT"
  /\ orderStatus' = "DELIVERED"
  /\ UNCHANGED <<runnerId, sub, stock, requests, history>>

(***************************************************************************)
(* Cancellation: what to cancel and what to restore is decided on what was *)
(* read, and written without looking again. An administrator may cancel    *)
(* whatever the table allows, which includes what the client may.          *)
(***************************************************************************)
Decision ==
  IF sub \in {"REJECTED_BY_STORE", "CANCELLED"} THEN "order"
  ELSE IF orderStatus \in {"CONFIRMED", "READY_FOR_ASSIGNMENT", "ASSIGNED"} THEN "restore"
  ELSE "all"

DecideCancel(c) ==
  /\ orderStatus # "NONE" /\ canTransitionOrder(orderStatus, "CANCELLED")
  /\ cancelling[c] = "idle"
  /\ cancelling' = [cancelling EXCEPT ![c] = Decision]
  /\ UNCHANGED <<orderStatus, runnerId, sub, stock, paying, evaluation, acceptors, selecting,
                 pickup, starting, history>>

CancelOrder(c) ==
  /\ cancelling[c] # "idle"
  /\ orderStatus' = "CANCELLED"
  /\ sub' = IF cancelling[c] = "order" THEN sub ELSE "CANCELLED"
  /\ stock' = IF cancelling[c] = "restore" THEN stock + 1 ELSE stock
  /\ cancelling' = [cancelling EXCEPT ![c] = "idle"]
  /\ UNCHANGED <<runnerId, paying, evaluation, acceptors, selecting, pickup, starting, history>>

FulfilmentNext ==
  \/ CreateOrder \/ SellElsewhere
  \/ \E p \in Payment : ReadUnpaid(p) \/ CheckStock(p) \/ CommitPayment(p)
  \/ \E next \in ProviderOrderStatus, role \in Role : UpdateProviderOrderStatus(next, role)
  \/ \E t \in Triggers : EvaluateReadyForAssignment(t) \/ Promote(t)
  \/ ReadPickedUp \/ PropagatePickup
  \/ \E r \in Runner :
       \/ ReadAcceptable(r) \/ AcceptOrder(r) \/ ReadSelectable(r) \/ SelectRunner(r)
       \/ ReadStartable(r) \/ MarkInTransit(r) \/ Dispatch(r)
  \/ CompleteOrder
  \/ \E c \in Cancellation : DecideCancel(c) \/ CancelOrder(c)

FulfilmentSpec == FulfilmentInit /\ [][FulfilmentNext]_fulfilmentVars

-----------------------------------------------------------------------------
\* The types; in particular no payment makes the stock negative, though it decrements
\* after a check that another sale may have overtaken.
FulfilmentTypeOK ==
  /\ orderStatus \in DeliveryStatus \cup {"NONE"} /\ sub \in ProviderOrderStatus
  /\ runnerId \in Runner \cup {None} /\ won \subseteq Runner /\ dispatched \in BOOLEAN
  /\ stock \in Nat
  /\ paying \in [Payment -> {"idle", "check", "commit"}]
  /\ evaluation \in [Triggers -> {"idle", "due", "write"}]
  /\ pickup \in {"idle", "due", "write"}
  /\ acceptors \subseteq Runner /\ selecting \subseteq Runner /\ starting \subseteq Runner
  /\ cancelling \in [Cancellation -> {"idle", "order", "all", "restore"}]

\* A runner whose acceptOrder() has succeeded stays the runner of the order, whoever
\* else accepts it or is selected, whatever a stale promotion, payment or cancellation
\* writes over the status: only the dispatch of a delivery order takes it away.
AcceptedIsAssigned == ~dispatched => \A r \in won : runnerId = r

\* Nobody is offered or assigned what its provider has not finished preparing, though
\* the promotion writes what was true when it read.
AssignedIsPrepared ==
  orderStatus \in {"READY_FOR_ASSIGNMENT", "ASSIGNED"} =>
    sub \in {"READY_FOR_PICKUP", "PICKED_UP", "CANCELLED"}

\* An order is under way or delivered only if a runner has picked the goods up, though
\* two handlers write IN_TRANSIT without condition (CANCELLED: a cancellation has
\* overtaken one of them).
TransitMeansPickedUp ==
  orderStatus \in {"IN_TRANSIT", "DELIVERED"} =>
    runnerId # None /\ sub \in {"PICKED_UP", "CANCELLED"}

\* The three together: the order follows its runner and its goods.
OrderFollowsGoods == AcceptedIsAssigned /\ AssignedIsPrepared /\ TransitMeansPickedUp
=============================================================================
