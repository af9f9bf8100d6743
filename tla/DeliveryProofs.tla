---------------------------- MODULE DeliveryProofs ---------------------------
(***************************************************************************)
(* Proofs about Delivery, for any number of runners and of requests that   *)
(* assign one: types, and one runner of job, delivery and root order. A    *)
(* job that is published has no claims, because there was none before it;  *)
(* and an order whose delivery has a runner has one itself, so that        *)
(* acceptOrder() finds its condition false.                                *)
(***************************************************************************)
EXTENDS Delivery, TLAPS

JobHasDelivery == status = "NONE" => job = "NONE"

DeliveryInv == DeliveryTypeOK /\ JobHasDelivery /\ OneRunner

LEMMA DeliveryInvInit == DeliveryInit => DeliveryInv
  BY NoneIsNoRunner
  DEF DeliveryInit, DeliveryInv, JobHasDelivery, DeliveryTypeOK, OneRunner, SingleWinner,
      RunnersAgree, DeliveryOrderStatus, DeliveryJobStatus

LEMMA DeliveryInvStep == DeliveryInv /\ [DeliveryNext]_deliveryVars => DeliveryInv'
<1> SUFFICES ASSUME DeliveryInv, [DeliveryNext]_deliveryVars PROVE DeliveryInv'
  OBVIOUS
<1> USE NoneIsNoRunner DEF DeliveryInv, JobHasDelivery, DeliveryTypeOK, OneRunner,
        SingleWinner, RunnersAgree, DeliveryOrderStatus, DeliveryJobStatus
<1>1. CASE CreateDeliveryOrder
  BY <1>1 DEF CreateDeliveryOrder, rootVars
<1>2. CASE WindowCloses \/ ExpireDeliveryJobs
  BY <1>2 DEF WindowCloses, ExpireDeliveryJobs, Expirable, rootVars
<1>3. ASSUME NEW r \in Runner, RequestJob(r) \/ RefuseJob(r) PROVE DeliveryInv'
  BY <1>3 DEF RequestJob, RefuseJob, rootVars
<1>4. ASSUME NEW r \in Runner, AcceptDeliveryJob(r) PROVE DeliveryInv'
  <2>1. claims = {} /\ claims' = {r}
    BY <1>4 DEF AcceptDeliveryJob, Acceptable
  <2> QED
    BY <1>4, <2>1 DEF AcceptDeliveryJob
<1>5. ASSUME NEW q \in Assigner, NEW r \in Runner, ReadAssignable(q, r) PROVE DeliveryInv'
  BY <1>5 DEF ReadAssignable, rootVars, jobVars
<1>6. ASSUME NEW q \in Assigner, AssignRunner(q) PROVE DeliveryInv'
  BY <1>6 DEF AssignRunner, jobVars
<1>7. ASSUME NEW next \in DeliveryOrderStatus, AdvanceLifecycle(next) PROVE DeliveryInv'
  BY <1>7 DEF AdvanceLifecycle, allowedTransitions, rootVars, jobVars
<1>8. CASE OrderMoves
  BY <1>8 DEF OrderMoves, jobVars
<1>9. ASSUME NEW r \in Runner, AcceptRootOrder(r) PROVE DeliveryInv'
  <2>1. runner = None /\ UNCHANGED <<status, runner, selected, jobVars, assigning>>
    BY <1>9 DEF AcceptRootOrder, Takeable
  <2> QED
    BY <1>9, <2>1 DEF AcceptRootOrder, jobVars
<1>10. ASSUME NEW r \in Runner, SelectForRootOrder(r) PROVE DeliveryInv'
  BY <1>10 DEF SelectForRootOrder, jobVars
<1>11. CASE UNCHANGED deliveryVars
  BY <1>11 DEF deliveryVars, rootVars, jobVars
<1> QED
  BY <1>1, <1>2, <1>3, <1>4, <1>5, <1>6, <1>7, <1>8, <1>9, <1>10, <1>11 DEF DeliveryNext

\* Whatever accepts, assigns, selects and expires in whatever order, a job has one winner
\* and acceptOrder() never takes an order from the runner of its delivery, so that the two
\* rows name one runner but for a selection (OneRunner of Delivery, on its own).
THEOREM DeliveryHasOneRunner == DeliverySpec => []OneRunner
  BY DeliveryInvInit, DeliveryInvStep, PTL DEF DeliverySpec, DeliveryInv

\* The rows of the delivery, its job and its claims, and the calls keep to their types.
THEOREM DeliveryTypes == DeliverySpec => []DeliveryTypeOK
  BY DeliveryInvInit, DeliveryInvStep, PTL DEF DeliverySpec, DeliveryInv
==============================================================================
