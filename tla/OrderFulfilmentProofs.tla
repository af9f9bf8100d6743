------------------------ MODULE OrderFulfilmentProofs ------------------------
(***************************************************************************)
(* Theorems about OrderFulfilment: the order follows its runner and its    *)
(* goods, and stock is never negative, for any number of runners, payments *)
(* and cancellations.                                                      *)
(***************************************************************************)
EXTENDS OrderFulfilment, TLAPS

Dropped == {"REJECTED_BY_STORE", "CANCELLED"}
Picked == {"PICKED_UP", "CANCELLED"}
Prepared == {"READY_FOR_PICKUP"} \cup Picked

\* An evaluation can only promote the order if the provider finished preparing it, and
\* it is due once, because the provider order becomes ready once: an order that was
\* promoted is not promoted again, whatever a stale payment writes over its status.
PromotedOnce ==
  /\ evaluation["READY_FOR_PICKUP"] # "idle" => sub \in Prepared
  /\ \A t \in Dropped : evaluation[t] # "write" /\ (evaluation[t] = "due" => sub \in Dropped)
  /\ orderStatus = "READY_FOR_ASSIGNMENT" \/ won # {} =>
       sub \in Prepared /\ evaluation["READY_FOR_PICKUP"] = "idle"
  /\ won # {} => orderStatus # "READY_FOR_ASSIGNMENT"

\* Who is about to write IN_TRANSIT has read that the goods were picked up, by a runner.
CarriersPickedUp ==
  /\ orderStatus = "ASSIGNED" => runnerId # None
  /\ sub = "PICKED_UP" => runnerId # None
  /\ pickup # "idle" => sub \in Picked
  /\ pickup = "write" => runnerId # None
  /\ starting # {} => sub \in Picked /\ runnerId # None

FollowInv == FulfilmentTypeOK /\ PromotedOnce /\ CarriersPickedUp /\ OrderFollowsGoods

\* The provider order: what leads to READY_FOR_PICKUP and away from it.
LEMMA ProviderOrderMoves ==
  ASSUME NEW next, NEW role, canTransitionProviderOrder(sub, next, role)
  PROVE  /\ sub \notin Dropped \cup Picked
         /\ next \in ProviderOrderStatus
         /\ sub = "READY_FOR_PICKUP" => next \in Picked
         /\ next = "READY_FOR_PICKUP" => sub = "PREPARING"
         /\ next = "PICKED_UP" => sub = "READY_FOR_PICKUP" /\ role = "RUNNER"
  BY DEF canTransitionProviderOrder, ProviderOrderTransitions, ProviderOrderStatus, Dropped,
     Picked

LEMMA FollowInit == FulfilmentInit => FollowInv
<1> SUFFICES ASSUME FulfilmentInit PROVE FollowInv
  OBVIOUS
<1> USE DEF FulfilmentInit
<1>1. FulfilmentTypeOK
  <2>1. stock \in Nat
    BY MaxStockIsNat
  <2>2. /\ paying \in [Payment -> {"idle", "check", "commit"}]
        /\ evaluation \in [Triggers -> {"idle", "due", "write"}]
        /\ cancelling \in [Cancellation -> {"idle", "order", "all", "restore"}]
    OBVIOUS
  <2>3. /\ orderStatus \in DeliveryStatus \cup {"NONE"} /\ sub \in ProviderOrderStatus
        /\ pickup \in {"idle", "due", "write"}
    BY DEF ProviderOrderStatus
  <2> QED
    BY <2>1, <2>2, <2>3 DEF FulfilmentTypeOK
<1>2. PromotedOnce /\ CarriersPickedUp
  BY DEF PromotedOnce, CarriersPickedUp, Triggers, Dropped
<1>3. OrderFollowsGoods
  BY DEF OrderFollowsGoods, AcceptedIsAssigned, AssignedIsPrepared, TransitMeansPickedUp
<1> QED
  BY <1>1, <1>2, <1>3 DEF FollowInv

\* The steps of payments: stock stays in Nat because the decrement is conditional.
LEMMA PaymentKeeps ==
  ASSUME FollowInv,
         \/ CreateOrder \/ SellElsewhere
         \/ \E p \in Payment : ReadUnpaid(p) \/ CheckStock(p) \/ CommitPayment(p)
  PROVE  FollowInv'
<1>1. /\ UNCHANGED <<runnerId, sub, evaluation, acceptors, selecting, pickup, starting,
                     cancelling, history>>
      /\ stock' \in {stock, stock - 1} /\ (stock' = stock - 1 => stock > 0)
      /\ orderStatus' \in {orderStatus, "PENDING", "CONFIRMED"}
      /\ paying' \in [Payment -> {"idle", "check", "commit"}]
  BY DEF FollowInv, FulfilmentTypeOK, CreateOrder, SellElsewhere, ReadUnpaid, CheckStock, CommitPayment,
     PaymentStep, Deducted, requests, history
<1>2. stock' \in Nat
  BY <1>1 DEF FollowInv, FulfilmentTypeOK
<1>3. FulfilmentTypeOK'
  BY <1>1, <1>2 DEF FollowInv, FulfilmentTypeOK, DeliveryStatus, history
<1>4. PromotedOnce' /\ CarriersPickedUp'
  BY <1>1 DEF FollowInv, PromotedOnce, CarriersPickedUp, history
<1>5. OrderFollowsGoods'
  BY <1>1 DEF FollowInv, OrderFollowsGoods, AcceptedIsAssigned, AssignedIsPrepared,
     TransitMeansPickedUp, history
<1> QED
  BY <1>3, <1>4, <1>5 DEF FollowInv

\* A decision about the provider order.
LEMMA DecisionKeeps ==
  ASSUME FollowInv, NEW next \in ProviderOrderStatus, NEW role \in Role,
         UpdateProviderOrderStatus(next, role)
  PROVE  FollowInv'
<1> USE DEF FollowInv
<1>1. /\ UNCHANGED <<orderStatus, runnerId, stock, paying, acceptors, selecting, starting,
                     cancelling, won, dispatched>>
      /\ sub' = next
      /\ evaluation' = [t \in Triggers |-> IF t = next THEN "due" ELSE evaluation[t]]
      /\ pickup' = IF next = "PICKED_UP" THEN "due" ELSE pickup
      /\ role = "RUNNER" => runnerId # None
  BY DEF UpdateProviderOrderStatus, history
<1>2. /\ sub \notin Dropped \cup Picked
      /\ sub = "READY_FOR_PICKUP" => next \in Picked
      /\ next = "READY_FOR_PICKUP" => sub = "PREPARING"
      /\ next = "PICKED_UP" => sub = "READY_FOR_PICKUP" /\ role = "RUNNER"
  BY ProviderOrderMoves DEF UpdateProviderOrderStatus
<1>3. FulfilmentTypeOK'
  BY <1>1 DEF FulfilmentTypeOK
<1>4. PromotedOnce'
  BY <1>1, <1>2 DEF FulfilmentTypeOK, PromotedOnce, Prepared, Picked, Dropped, Triggers
<1>5. CarriersPickedUp'
  BY <1>1, <1>2 DEF CarriersPickedUp, Picked, Dropped
<1>6. OrderFollowsGoods'
  BY <1>1, <1>2 DEF OrderFollowsGoods, AcceptedIsAssigned, AssignedIsPrepared,
     TransitMeansPickedUp, Picked, Dropped
<1> QED
  BY <1>3, <1>4, <1>5, <1>6

\* Evaluations, promotions and the propagation of a pickup.
LEMMA PropagationKeeps ==
  ASSUME FollowInv,
         \/ \E t \in Triggers : EvaluateReadyForAssignment(t) \/ Promote(t)
         \/ ReadPickedUp \/ PropagatePickup
  PROVE  FollowInv'
<1> USE DEF FollowInv
<1>1. ASSUME NEW t \in Triggers, EvaluateReadyForAssignment(t) PROVE FollowInv'
  <2>1. /\ UNCHANGED <<orderStatus, runnerId, sub, stock, paying, acceptors, selecting, pickup,
                       starting, cancelling, won, dispatched>>
        /\ evaluation[t] = "due"
        /\ evaluation' = [evaluation EXCEPT ![t] = IF Ready THEN "write" ELSE "idle"]
    BY <1>1 DEF EvaluateReadyForAssignment, EvaluationStep, history
  <2>2. Ready => sub \in Prepared /\ sub \notin Dropped
    BY DEF Ready, Prepared, Picked, Dropped
  <2>3. FulfilmentTypeOK'
    BY <2>1 DEF FulfilmentTypeOK
  <2>4. PromotedOnce'
    BY <2>1, <2>2 DEF FulfilmentTypeOK, PromotedOnce, Dropped, Triggers
  <2>5. CarriersPickedUp' /\ OrderFollowsGoods'
    BY <2>1 DEF CarriersPickedUp, OrderFollowsGoods, AcceptedIsAssigned, AssignedIsPrepared,
       TransitMeansPickedUp
  <2> QED
    BY <2>3, <2>4, <2>5
<1>2. ASSUME NEW t \in Triggers, Promote(t) PROVE FollowInv'
  <2>1. /\ UNCHANGED <<runnerId, sub, stock, paying, acceptors, selecting, pickup, starting,
                       cancelling, won, dispatched>>
        /\ evaluation[t] = "write" /\ evaluation' = [evaluation EXCEPT ![t] = "idle"]
        /\ orderStatus' = "READY_FOR_ASSIGNMENT"
    BY <1>2 DEF Promote, EvaluationStep, history
  <2>2. t = "READY_FOR_PICKUP" /\ sub \in Prepared /\ won = {}
    BY <2>1 DEF PromotedOnce, Triggers, Dropped
  <2>3. FulfilmentTypeOK'
    BY <2>1 DEF FulfilmentTypeOK, DeliveryStatus
  <2>4. PromotedOnce'
    BY <2>1, <2>2 DEF FulfilmentTypeOK, PromotedOnce, Dropped, Triggers
  <2>5. CarriersPickedUp' /\ OrderFollowsGoods'
    BY <2>1, <2>2 DEF CarriersPickedUp, OrderFollowsGoods, AcceptedIsAssigned,
       AssignedIsPrepared, TransitMeansPickedUp, Prepared, Picked
  <2> QED
    BY <2>3, <2>4, <2>5
<1>3. ASSUME ReadPickedUp \/ PropagatePickup PROVE FollowInv'
  <2>1. /\ UNCHANGED <<runnerId, sub, stock, paying, evaluation, acceptors, selecting, starting,
                       cancelling, won, dispatched>>
        /\ pickup # "idle" /\ pickup' \in {"idle", "write"}
        /\ pickup' = "write" => orderStatus = "ASSIGNED"
        /\ \/ orderStatus' = orderStatus
           \/ orderStatus' = "IN_TRANSIT" /\ pickup = "write"
    BY <1>3 DEF ReadPickedUp, PropagatePickup, PickupStep, history
  <2>2. FulfilmentTypeOK'
    BY <2>1 DEF FulfilmentTypeOK, DeliveryStatus
  <2>3. PromotedOnce' /\ CarriersPickedUp'
    BY <2>1 DEF PromotedOnce, CarriersPickedUp
  <2>4. OrderFollowsGoods'
    BY <2>1 DEF CarriersPickedUp, OrderFollowsGoods, AcceptedIsAssigned, AssignedIsPrepared,
       TransitMeansPickedUp, Picked
  <2> QED
    BY <2>2, <2>3, <2>4
<1> QED
  BY <1>1, <1>2, <1>3

\* Runners. An order that was promoted and not dispatched is won by at most one, and
\* what says who carries it is never taken back.
LEMMA RunnerKeeps ==
  ASSUME FollowInv, NEW r \in Runner,
         \/ ReadAcceptable(r) \/ AcceptOrder(r) \/ ReadSelectable(r) \/ SelectRunner(r)
         \/ ReadStartable(r) \/ MarkInTransit(r) \/ Dispatch(r)
  PROVE  FollowInv'
<1> USE DEF FollowInv
<1>1. r # None /\ UNCHANGED <<sub, stock, paying, evaluation, pickup, cancelling>>
  BY NoneIsNoRunner DEF ReadAcceptable, AcceptOrder, ReadSelectable, SelectRunner,
     ReadStartable, MarkInTransit, Dispatch, history, requests
<1>2. CASE ReadAcceptable(r) \/ ReadSelectable(r)
  BY <1>1, <1>2 DEF ReadAcceptable, ReadSelectable, history, FulfilmentTypeOK, PromotedOnce,
     CarriersPickedUp, OrderFollowsGoods, AcceptedIsAssigned, AssignedIsPrepared,
     TransitMeansPickedUp
<1>3. CASE AcceptOrder(r) \/ SelectRunner(r)
  <2>1. /\ UNCHANGED <<starting, dispatched>>
        /\ acceptors' \subseteq acceptors /\ selecting' \subseteq selecting
        /\ \/ UNCHANGED <<runnerId, orderStatus, won>>
           \/ /\ orderStatus = "READY_FOR_ASSIGNMENT"
              /\ runnerId' = r /\ orderStatus' = "ASSIGNED" /\ won' \in {won, won \cup {r}}
    BY <1>3 DEF AcceptOrder, SelectRunner, StillAcceptable, history
  <2>2. orderStatus = "READY_FOR_ASSIGNMENT" => won = {}
    BY DEF PromotedOnce
  <2>3. FulfilmentTypeOK'
    BY <1>1, <2>1 DEF FulfilmentTypeOK, DeliveryStatus
  <2>4. PromotedOnce' /\ CarriersPickedUp'
    BY <1>1, <2>1, <2>2 DEF PromotedOnce, CarriersPickedUp
  <2>5. OrderFollowsGoods'
    BY <1>1, <2>1, <2>2 DEF PromotedOnce, Prepared, Picked, OrderFollowsGoods,
       AcceptedIsAssigned, AssignedIsPrepared, TransitMeansPickedUp
  <2> QED
    BY <2>3, <2>4, <2>5
<1>4. CASE ReadStartable(r) \/ MarkInTransit(r)
  <2>1. /\ UNCHANGED <<runnerId, acceptors, selecting, won, dispatched>>
        /\ starting' \in SUBSET Runner
        /\ starting' # {} => starting # {} \/ MayStart(r)
        /\ \/ orderStatus' = orderStatus
           \/ orderStatus' = "IN_TRANSIT" /\ starting # {}
    BY <1>4 DEF ReadStartable, MarkInTransit, history, FulfilmentTypeOK
  <2>2. FulfilmentTypeOK'
    BY <1>1, <2>1 DEF FulfilmentTypeOK, DeliveryStatus
  <2>3. PromotedOnce' /\ CarriersPickedUp'
    BY <1>1, <2>1 DEF PromotedOnce, CarriersPickedUp, MayStart, Picked
  <2>4. OrderFollowsGoods'
    BY <1>1, <2>1 DEF CarriersPickedUp, OrderFollowsGoods, AcceptedIsAssigned,
       AssignedIsPrepared, TransitMeansPickedUp, Picked
  <2> QED
    BY <2>2, <2>3, <2>4
<1>5. CASE Dispatch(r)
  BY <1>1, <1>5 DEF Dispatch, requests, FulfilmentTypeOK, PromotedOnce, CarriersPickedUp,
     OrderFollowsGoods, AcceptedIsAssigned, AssignedIsPrepared, TransitMeansPickedUp
<1> QED
  BY <1>2, <1>3, <1>4, <1>5

\* Cancellations, and the completion of the delivery.
LEMMA EndKeeps ==
  ASSUME FollowInv,
         CompleteOrder \/ \E c \in Cancellation : DecideCancel(c) \/ CancelOrder(c)
  PROVE  FollowInv'
<1> USE DEF FollowInv
<1>1. /\ UNCHANGED <<runnerId, paying, evaluation, acceptors, selecting, pickup, starting, won,
                     dispatched>>
      /\ orderStatus' \in {orderStatus, "CANCELLED", "DELIVERED"}
      /\ orderStatus' = "DELIVERED" => orderStatus \in {"IN_TRANSIT", "DELIVERED"}
      /\ sub' \in {sub, "CANCELLED"}
      /\ stock' \in {stock, stock + 1}
      /\ cancelling' \in [Cancellation -> {"idle", "order", "all", "restore"}]
  BY DEF FulfilmentTypeOK, CompleteOrder, DecideCancel, CancelOrder, Decision, requests, history,
     DeliveryStatus
<1>2. FulfilmentTypeOK'
  BY <1>1 DEF FulfilmentTypeOK, DeliveryStatus, ProviderOrderStatus
<1>3. PromotedOnce' /\ CarriersPickedUp'
  BY <1>1 DEF PromotedOnce, CarriersPickedUp, Prepared, Picked, Dropped
<1>4. OrderFollowsGoods'
  BY <1>1 DEF OrderFollowsGoods, AcceptedIsAssigned, AssignedIsPrepared, TransitMeansPickedUp
<1> QED
  BY <1>2, <1>3, <1>4

LEMMA FollowStep == FollowInv /\ [FulfilmentNext]_fulfilmentVars => FollowInv'
<1> SUFFICES ASSUME FollowInv, [FulfilmentNext]_fulfilmentVars PROVE FollowInv'
  OBVIOUS
<1>1. CASE UNCHANGED fulfilmentVars
  BY <1>1 DEF fulfilmentVars, requests, history, FollowInv, FulfilmentTypeOK, PromotedOnce,
     CarriersPickedUp, OrderFollowsGoods, AcceptedIsAssigned, AssignedIsPrepared,
     TransitMeansPickedUp
<1> QED
  BY <1>1, PaymentKeeps, DecisionKeeps, PropagationKeeps, RunnerKeeps, EndKeeps DEF FulfilmentNext

LEMMA FollowCorrect == FulfilmentSpec => []FollowInv
<1>1. FulfilmentInit => FollowInv
  BY FollowInit
<1>2. FollowInv /\ [FulfilmentNext]_fulfilmentVars => FollowInv'
  BY FollowStep
<1> QED
  BY <1>1, <1>2, PTL DEF FulfilmentSpec

\* An order is offered when it is prepared and carried by who won it and picked it up
\* (OrderFollowsGoods), though promotions, payments, pickups and cancellations write over
\* its status what was true when they read.
THEOREM OrderFollowsGoodsAlways == FulfilmentSpec => []OrderFollowsGoods
  BY FollowCorrect, PTL DEF FollowInv

\* No payment makes the stock negative, though it decrements after a check that another
\* sale may have overtaken (FulfilmentTypeOK).
THEOREM FulfilmentTypes == FulfilmentSpec => []FulfilmentTypeOK
  BY FollowCorrect, PTL DEF FollowInv
=============================================================================
