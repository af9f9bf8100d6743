----------------------- MODULE ProviderPaymentProofs -----------------------
(***************************************************************************)
(* Theorems about ProviderPayment, for every value of its constants.       *)
(***************************************************************************)
EXTENDS ProviderPayment, TLAPS

(***************************************************************************)
(* Type correctness. Stock stays in Nat because a settlement that is about *)
(* to commit saw enough of it, and its product locks let nobody else take  *)
(* any of it meanwhile.                                                    *)
(***************************************************************************)
SettledInStock == \A s \in Session : handler[s] = "settled" => InStock(Owner[s])

ProductLocks ==
  \A s, t \in Session, p \in Product :
    /\ handler[s] = "settled" /\ handler[t] = "settled"
    /\ Units[{Owner[s]}][p] > 0 /\ Units[{Owner[t]}][p] > 0
    => s = t

TypeInv == TypeOK /\ SettledInStock /\ ProductLocks

\* The units of any set of provider orders are a natural number.
LEMMA UnitsNat ==
  ASSUME NEW pos \in SUBSET ProviderOrder, NEW p \in Product
  PROVE  Units[pos][p] \in Nat
  BY ConstantsAssumption

\* The initial states satisfy the invariant.
LEMMA TypeInit == Init => TypeInv
  BY ConstantsAssumption
  DEF Init, TypeInv, TypeOK, SettledInStock, ProductLocks, DeliveryStatus,
      ProviderOrderStatus, ProviderPaymentStatus, ReservationStatus, SessionStatus,
      EventStatus, HandlerPlace, CancelRequest, NoCancel

\* What TypeOK is made of.
LEMMA TypeStep == TypeInv /\ [Next]_vars => TypeOK'
<1> SUFFICES ASSUME TypeInv, [Next]_vars PROVE TypeOK'
  OBVIOUS
<1> USE ConstantsAssumption
    DEF orderVars, stockVars, sessionVars, stripeVars, inboxVars, otherVars,
        ProviderOrderStatus, ProviderPaymentStatus, DeliveryStatus, ReservationStatus,
        SessionStatus, EventStatus, HandlerPlace
<1>1. ASSUME NEW s \in Session, ReuseSession(Owner[s], s) PROVE TypeOK'
  BY <1>1 DEF TypeInv, TypeOK, ReuseSession, ExpireOpenSessions, FromPending
<1>2. ASSUME NEW s \in Session, CreateSession(Owner[s], s) PROVE TypeOK'
  BY <1>2 DEF TypeInv, TypeOK, CreateSession, ExpireOpenSessions, FromPending
<1>3. ASSUME NEW s \in Session, IntentCreated(s) PROVE TypeOK'
  BY <1>3 DEF TypeInv, TypeOK, IntentCreated
<1>4. ASSUME NEW s \in Session, IntentRefused(s) PROVE TypeOK'
  BY <1>4 DEF TypeInv, TypeOK, IntentRefused
<1>5. ASSUME NEW s \in Session, ResetProviderOrder(s) PROVE TypeOK'
  BY <1>5 DEF TypeInv, TypeOK, ResetProviderOrder
<1>6. ASSUME NEW s \in Session, Activate(s) PROVE TypeOK'
  BY <1>6 DEF TypeInv, TypeOK, Activate
<1>7. ASSUME NEW s \in Session, RejectActivation(s) PROVE TypeOK'
  BY <1>7 DEF TypeInv, TypeOK, RejectActivation
<1>8. ASSUME NEW s \in Session, FailSession(s) PROVE TypeOK'
  BY <1>8 DEF TypeInv, TypeOK, FailSession
<1>9. ASSUME NEW s \in Session, ActivationCrash(s) PROVE TypeOK'
  BY <1>9 DEF TypeInv, TypeOK, ActivationCrash
<1>10. ASSUME NEW s \in Session, Pay(s) PROVE TypeOK'
  BY <1>10 DEF TypeInv, TypeOK, Pay
<1>11. ASSUME NEW s \in Session, Claim(s) PROVE TypeOK'
  BY <1>11 DEF TypeInv, TypeOK, Claim
<1>12. ASSUME NEW s \in Session, AcknowledgeUnclaimed(s) PROVE TypeOK'
  BY <1>12 DEF TypeInv, TypeOK, AcknowledgeUnclaimed
<1>13. ASSUME NEW s \in Session, LoadSession(s) PROVE TypeOK'
  BY <1>13 DEF TypeInv, TypeOK, LoadSession
<1>14. ASSUME NEW s \in Session, Validate(s) PROVE TypeOK'
  BY <1>14 DEF TypeInv, TypeOK, Validate
<1>15. ASSUME NEW s \in Session, LockOrder(s) PROVE TypeOK'
  BY <1>15 DEF TypeInv, TypeOK, LockOrder
<1>16. ASSUME NEW s \in Session, Settle(s) PROVE TypeOK'
  BY <1>16 DEF TypeInv, TypeOK, Settle
<1>17. ASSUME NEW s \in Session, Commit(s) PROVE TypeOK'
  <2> DEFINE po == Owner[s]
  <2>1. po \in ProviderOrder /\ OrderOf[po] \in Order /\ {po} \in SUBSET ProviderOrder
    OBVIOUS
  <2>2. stock' \in [Product -> Nat]
    <3>1. ASSUME NEW p \in Product PROVE stock[p] - Units[{po}][p] \in Nat
      <4>1. stock[p] \in Nat /\ Units[{po}][p] \in Nat
        BY <2>1, UnitsNat DEF TypeInv, TypeOK
      <4>2. stock[p] >= Units[{po}][p]
        BY <1>17 DEF TypeInv, SettledInStock, Commit, InStock
      <4> QED
        BY <4>1, <4>2
    <3>2. stock' = [p \in Product |-> stock[p] - Units[{po}][p]]
      BY <1>17 DEF Commit
    <3> QED
      BY <3>1, <3>2
  <2>3. orderStatus' \in [Order -> DeliveryStatus]
    BY <1>17, <2>1 DEF TypeInv, TypeOK, Commit, Confirmed
  <2> QED
    BY <1>17, <2>2, <2>3 DEF TypeInv, TypeOK, Commit
<1>18. ASSUME NEW s \in Session, MarkDone(s) PROVE TypeOK'
  <2>1. CASE Mark(s, "committed", "PROCESSED")
    BY <1>18, <2>1 DEF TypeInv, TypeOK, MarkDone, Mark
  <2>2. CASE Mark(s, "ignored", "IGNORED")
    BY <1>18, <2>2 DEF TypeInv, TypeOK, MarkDone, Mark
  <2> QED
    BY <1>18, <2>1, <2>2, Zenon DEF MarkDone
<1>19. ASSUME NEW s \in Session, MarkFailed(s) PROVE TypeOK'
  <2>1. CASE Mark(s, "failed", "FAILED") /\ UNCHANGED delivery
    BY <2>1 DEF TypeInv, TypeOK, Mark
  <2>2. CASE Mark(s, "outOfStock", "FAILED") /\ delivery' = [delivery EXCEPT ![s] = "acked"]
    BY <2>2 DEF TypeInv, TypeOK, Mark
  <2> QED
    BY <1>19, <2>1, <2>2 DEF MarkFailed
<1>20. ASSUME NEW s \in Session, StatementFails(s) PROVE TypeOK'
  BY <1>20 DEF TypeInv, TypeOK, StatementFails
<1>21. ASSUME NEW s \in Session, HandlerCrash(s) PROVE TypeOK'
  BY <1>21 DEF TypeInv, TypeOK, HandlerCrash
<1>22. ASSUME NEW s \in Session, WindowElapses(s) PROVE TypeOK'
  BY <1>22 DEF TypeInv, TypeOK, WindowElapses
<1>23. ASSUME NEW o \in Order, Lapse(o) PROVE TypeOK'
  BY <1>23 DEF TypeInv, TypeOK, Lapse
<1>24. ASSUME NEW c \in Canceller, NEW o \in Order, DecideCancel(c, o) PROVE TypeOK'
  BY <1>24 DEF TypeInv, TypeOK, DecideCancel, CancelRequest, SubOrders, RestoresInventory
<1>25. ASSUME NEW c \in Canceller, NEW o \in Order, CommitCancel(c, o) PROVE TypeOK'
  <2> DEFINE back == IF cancel[c].restore THEN cancel[c].toCancel ELSE {}
  <2>1. back \in SUBSET ProviderOrder /\ NoCancel \in CancelRequest
    BY DEF TypeInv, TypeOK, CancelRequest, NoCancel
  <2>2. stock' \in [Product -> Nat]
    <3>1. \A p \in Product : stock[p] \in Nat /\ Units[back][p] \in Nat
      BY <2>1, UnitsNat DEF TypeInv, TypeOK
    <3>2. stock' = [p \in Product |-> stock[p] + Units[back][p]]
      BY <1>25 DEF CommitCancel
    <3> QED
      BY <3>1, <3>2
  <2>3. restored' \subseteq ProviderOrder
    BY <1>25, <2>1 DEF TypeInv, TypeOK, CommitCancel
  <2> QED
    BY <1>25, <2>1, <2>2, <2>3 DEF TypeInv, TypeOK, CommitCancel
<1>26. ASSUME FindLapsed PROVE TypeOK'
  BY <1>26 DEF TypeInv, TypeOK, FindLapsed
<1>27. ASSUME ExpireReservations PROVE TypeOK'
  BY <1>27 DEF TypeInv, TypeOK, ExpireReservations
<1>28. ASSUME NEW po \in ProviderOrder, NEW role \in Role, NEW st \in ProviderOrderStatus,
             UpdateProviderOrderStatus(po, role, st) PROVE TypeOK'
  BY <1>28 DEF TypeInv, TypeOK, UpdateProviderOrderStatus
<1>29. ASSUME NEW po \in ProviderOrder, EvaluateReady(po) PROVE TypeOK'
  BY <1>29 DEF TypeInv, TypeOK, EvaluateReady
<1>30. ASSUME NEW po \in ProviderOrder, PromoteOrder(po) PROVE TypeOK'
  BY <1>30 DEF TypeInv, TypeOK, PromoteOrder
<1>31. CASE UNCHANGED vars
  BY <1>31 DEF TypeInv, TypeOK, vars
<1> QED
  BY <1>1, <1>2, <1>3, <1>4, <1>5, <1>6, <1>7, <1>8, <1>9, <1>10, <1>11, <1>12, <1>13, <1>14, <1>15, <1>16, <1>17, <1>18, <1>19, <1>20, <1>21, <1>22, <1>23, <1>24, <1>25, <1>26, <1>27, <1>28, <1>29, <1>30,
     <1>31
  DEF Next, Preparation, Confirmation, Webhook

\* Who reaches "settled" saw enough stock, and nobody else takes any while it stays
\* there: a settlement and a cancellation wait for its product locks.
LEMMA StockStep == TypeInv /\ [Next]_vars => (SettledInStock /\ ProductLocks)'
<1> SUFFICES ASSUME TypeInv, [Next]_vars PROVE (SettledInStock /\ ProductLocks)'
  OBVIOUS
<1> USE ConstantsAssumption DEF TypeInv, SettledInStock, ProductLocks, InStock
<1>1. ASSUME UNCHANGED <<stock, handler>> PROVE (SettledInStock /\ ProductLocks)'
  BY <1>1
<1>2. ASSUME UNCHANGED stock, NEW s \in Session, NEW place \in HandlerPlace \ {"settled"},
             handler' = [handler EXCEPT ![s] = place]
      PROVE  (SettledInStock /\ ProductLocks)'
  <2>1. \A t \in Session : handler'[t] = "settled" => handler[t] = "settled"
    BY <1>2 DEF TypeOK
  <2> QED
    BY <1>2, <2>1
<1>3. ASSUME NEW s \in Session, Settle(s) PROVE (SettledInStock /\ ProductLocks)'
  <2>1. stock' = stock /\ \A t \in Session : t # s => handler'[t] = handler[t]
    BY <1>3 DEF Settle, TypeOK, stockVars
  <2>2. handler'[s] = "settled" => InStock(Owner[s])
    BY <1>3 DEF Settle, TypeOK
  <2>3. \A t \in Session, p \in Product :
           t # s /\ Units[{Owner[s]}][p] > 0 /\ Units[{Owner[t]}][p] > 0
             => handler[t] # "settled"
    BY <1>3 DEF Settle, ProductFree, HoldsProducts
  <2> QED
    BY <2>1, <2>2, <2>3
<1>4. ASSUME NEW s \in Session, Commit(s) PROVE (SettledInStock /\ ProductLocks)'
  <2>1. handler'[s] # "settled" /\ \A t \in Session : t # s => handler'[t] = handler[t]
    BY <1>4 DEF Commit, TypeOK
  <2>2. ASSUME NEW t \in Session, handler'[t] = "settled", NEW p \in Product
        PROVE  stock'[p] >= Units[{Owner[t]}][p]
    <3>1. t # s /\ handler[t] = "settled" /\ handler[s] = "settled"
      BY <1>4, <2>1, <2>2 DEF Commit
    <3>2. stock[p] >= Units[{Owner[t]}][p] /\ stock'[p] = stock[p] - Units[{Owner[s]}][p]
      BY <1>4, <3>1 DEF Commit
    <3>3. stock[p] \in Nat /\ Units[{Owner[s]}][p] \in Nat /\ Units[{Owner[t]}][p] \in Nat
      <4>1. {Owner[s]} \in SUBSET ProviderOrder /\ {Owner[t]} \in SUBSET ProviderOrder
        OBVIOUS
      <4>2. stock[p] \in Nat
        BY DEF TypeOK
      <4> QED
        BY <4>1, <4>2, UnitsNat
    <3>4. CASE Units[{Owner[t]}][p] = 0
      <4>1. stock[p] >= Units[{Owner[s]}][p]
        BY <3>1
      <4> QED
        BY <3>2, <3>3, <3>4, <4>1
    <3>5. CASE Units[{Owner[t]}][p] # 0
      <4>1. Units[{Owner[s]}][p] = 0
        BY <3>1, <3>3, <3>5
      <4> QED
        BY <3>2, <3>3, <4>1
    <3> QED
      BY <3>4, <3>5
  <2> QED
    BY <2>1, <2>2
<1>5. ASSUME NEW c \in Canceller, NEW o \in Order, CommitCancel(c, o)
      PROVE  (SettledInStock /\ ProductLocks)'
  <2> DEFINE back == IF cancel[c].restore THEN cancel[c].toCancel ELSE {}
  <2>1. handler' = handler /\ back \in SUBSET ProviderOrder
    BY <1>5 DEF CommitCancel, inboxVars, TypeOK, CancelRequest
  <2>2. ASSUME NEW p \in Product PROVE stock'[p] >= stock[p]
    <3>1. stock[p] \in Nat /\ Units[back][p] \in Nat
      BY <2>1, UnitsNat DEF TypeOK
    <3>2. stock'[p] = stock[p] + Units[back][p]
      BY <1>5 DEF CommitCancel
    <3> QED
      BY <3>1, <3>2
  <2>3. ASSUME NEW t \in Session, handler'[t] = "settled", NEW p \in Product
        PROVE  stock'[p] >= Units[{Owner[t]}][p]
    <3>1. stock[p] >= Units[{Owner[t]}][p]
      BY <2>1, <2>3
    <3>2. stock[p] \in Nat /\ Units[{Owner[t]}][p] \in Nat
      BY UnitsNat DEF TypeOK
    <3>3. TypeOK'
      BY TypeStep
    <3>4. stock'[p] \in Nat
      BY <3>3 DEF TypeOK
    <3> QED
      BY <2>2, <3>1, <3>2, <3>4
  <2> QED
    BY <2>1, <2>3
<1>6. ASSUME NEW s \in Session,
             Preparation(s) \/ Pay(s) \/ AcknowledgeUnclaimed(s) \/ WindowElapses(s)
      PROVE  UNCHANGED <<stock, handler>>
  BY <1>6 DEF Preparation, ReuseSession, CreateSession, IntentCreated, IntentRefused,
     ResetProviderOrder, Activate, RejectActivation, FailSession, ActivationCrash, Pay,
     AcknowledgeUnclaimed, WindowElapses, stockVars, inboxVars
<1>7. ASSUME NEW s \in Session,
             \/ Claim(s) \/ LoadSession(s) \/ Validate(s) \/ LockOrder(s) \/ MarkDone(s)
             \/ MarkFailed(s) \/ StatementFails(s) \/ HandlerCrash(s)
      PROVE  /\ UNCHANGED stock
             /\ \E place \in HandlerPlace \ {"settled"} :
                   handler' = [handler EXCEPT ![s] = place]
  <2>1. CASE Claim(s)
    BY <2>1 DEF Claim, stockVars, HandlerPlace
  <2>2. CASE LoadSession(s)
    BY <2>2 DEF LoadSession, stockVars, HandlerPlace
  <2>3. CASE Validate(s)
    BY <2>3 DEF Validate, stockVars, HandlerPlace
  <2>4. CASE LockOrder(s)
    BY <2>4 DEF LockOrder, stockVars, HandlerPlace
  <2>5. CASE MarkDone(s)
    BY <2>5 DEF MarkDone, Mark, stockVars, HandlerPlace
  <2>6. CASE MarkFailed(s)
    BY <2>6 DEF MarkFailed, Mark, stockVars, HandlerPlace
  <2>7. CASE StatementFails(s)
    BY <2>7 DEF StatementFails, stockVars, HandlerPlace
  <2>8. CASE HandlerCrash(s)
    BY <2>8 DEF HandlerCrash, stockVars, HandlerPlace
  <2> QED
    BY <1>7, <2>1, <2>2, <2>3, <2>4, <2>5, <2>6, <2>7, <2>8
<1>8. CASE \/ \E o \in Order : Lapse(o)
           \/ \E c \in Canceller, o \in Order : DecideCancel(c, o)
           \/ FindLapsed \/ ExpireReservations
           \/ \E po \in ProviderOrder, role \in Role \ {"RUNNER"}, st \in ProviderOrderStatus :
                UpdateProviderOrderStatus(po, role, st)
           \/ \E po \in ProviderOrder : EvaluateReady(po) \/ PromoteOrder(po)
           \/ UNCHANGED vars
  <2>1. UNCHANGED <<stock, handler>>
    BY <1>8 DEF Lapse, DecideCancel, FindLapsed, ExpireReservations,
       UpdateProviderOrderStatus, EvaluateReady, PromoteOrder, stockVars, inboxVars, vars
  <2> QED
    BY <1>1, <2>1
<1> QED
  BY <1>1, <1>2, <1>3, <1>4, <1>5, <1>6, <1>7, <1>8 DEF Next, Webhook, Confirmation

\* Every row keeps to its type, and no settlement, however it interleaves with other
\* settlements and with cancellations, drives a product's stock below zero.
THEOREM TypeCorrect == Spec => []TypeOK
<1>1. TypeInv /\ [Next]_vars => TypeInv'
  BY TypeStep, StockStep DEF TypeInv
<1>2. TypeInv => TypeOK
  BY DEF TypeInv
<1> QED
  BY TypeInit, <1>1, <1>2, PTL DEF Spec

-----------------------------------------------------------------------------
(***************************************************************************)
(* Payment and confirmation. The confirmation of a root order is decided   *)
(* on what a settlement read of the other provider orders, and applied in  *)
(* a later step. The lock on the root order keeps that reading true: only  *)
(* a settlement of the same order could change it.                         *)
(***************************************************************************)
OrderLocks ==
  \A s, t \in Session :
    /\ handler[s] \in HoldsOrder /\ handler[t] \in HoldsOrder
    /\ OrderOf[Owner[s]] = OrderOf[Owner[t]]
    => s = t

SeesSiblings ==
  \A s \in Session : handler[s] = "settled" => (allPaid[s] <=> SiblingsPaid(Owner[s]))

PaidStatus ==
  \A po \in Paid :
    orderStatus[OrderOf[po]] \in {"PENDING", "CONFIRMED"} => poStatus[po] = "PAID"

CancelsOwn ==
  \A c \in Canceller : \A po \in cancel[c].toCancel : OrderOf[po] = cancel[c].order

ConfirmInv ==
  OrderLocks /\ SeesSiblings /\ PaidStatus /\ CancelsOwn /\ AllPaidConfirms
  /\ ConfirmedMeansAllPaid

\* What every step but a settlement's commit and the cancellations does to payments.
PaymentsKept ==
  /\ \A po \in ProviderOrder : paymentStatus'[po] = "PAID" <=> paymentStatus[po] = "PAID"
  /\ \A po \in Paid : poStatus[po] = "PAID" => poStatus'[po] = "PAID"
  /\ UNCHANGED orderStatus

\* No step of a preparation or an activation pays, or takes a payment back.
LEMMA PreparationKeeps ==
  ASSUME TypeOK, NEW s \in Session, Preparation(s)
  PROVE  PaymentsKept /\ UNCHANGED <<cancel, handler, allPaid>>
<1> USE ConstantsAssumption
    DEF TypeOK, PaymentsKept, Paid, orderVars, stockVars, sessionVars, inboxVars, otherVars
<1>1. CASE ReuseSession(Owner[s], s)
  BY <1>1 DEF ReuseSession, CanPrepare, FromPending
<1>2. CASE CreateSession(Owner[s], s)
  BY <1>2 DEF CreateSession, CanPrepare, FromPending
<1>3. CASE ResetProviderOrder(s)
  BY <1>3 DEF ResetProviderOrder, AwaitsPayment
<1>4. CASE Activate(s)
  BY <1>4 DEF Activate, CanActivate
<1>5. CASE IntentCreated(s) \/ IntentRefused(s) \/ RejectActivation(s) \/ FailSession(s)
           \/ ActivationCrash(s)
  BY <1>5 DEF IntentCreated, IntentRefused, RejectActivation, FailSession, ActivationCrash
<1> QED
  BY <1>1, <1>2, <1>3, <1>4, <1>5 DEF Preparation

\* Neither do the sweep of lapsed reservations and the provider's decisions.
LEMMA DecisionsKeep ==
  ASSUME TypeOK,
         \/ ExpireReservations
         \/ \E po \in ProviderOrder, role \in Role, st \in ProviderOrderStatus :
              UpdateProviderOrderStatus(po, role, st)
  PROVE  PaymentsKept /\ UNCHANGED <<cancel, handler, allPaid>>
<1> USE DEF TypeOK, PaymentsKept, Paid, inboxVars, otherVars
<1>1. CASE ExpireReservations
  BY <1>1 DEF ExpireReservations, eligibleStatuses
<1>2. ASSUME NEW po \in ProviderOrder, NEW role \in Role, NEW st \in ProviderOrderStatus,
             UpdateProviderOrderStatus(po, role, st)
      PROVE  PaymentsKept /\ UNCHANGED <<cancel, handler, allPaid>>
  <2>1. poStatus[po] # "PAID"
    BY <1>2 DEF UpdateProviderOrderStatus, canTransitionProviderOrder,
       ProviderOrderTransitions
  <2> QED
    BY <1>2, <2>1 DEF UpdateProviderOrderStatus
<1> QED
  BY <1>1, <1>2

\* Nor do the webhook's steps outside the commit; and they take no lock on the root
\* order but in LockOrder.
LEMMA WebhookKeeps ==
  ASSUME TypeOK, NEW s \in Session,
         \/ Pay(s) \/ Claim(s) \/ AcknowledgeUnclaimed(s) \/ LoadSession(s) \/ Validate(s)
         \/ MarkDone(s) \/ MarkFailed(s) \/ StatementFails(s) \/ HandlerCrash(s)
         \/ WindowElapses(s)
  PROVE  /\ PaymentsKept /\ UNCHANGED <<cancel, allPaid>>
         /\ \A t \in Session : handler'[t] \in HoldsOrder => handler'[t] = handler[t]
<1> USE DEF TypeOK, PaymentsKept, Paid, HoldsOrder, orderVars, inboxVars, otherVars
<1>1. CASE Pay(s) \/ Claim(s) \/ AcknowledgeUnclaimed(s) \/ WindowElapses(s)
  BY <1>1 DEF Pay, Claim, AcknowledgeUnclaimed, WindowElapses
<1>2. CASE LoadSession(s)
  BY <1>2 DEF LoadSession
<1>3. CASE Validate(s)
  BY <1>3 DEF Validate
<1>4. CASE MarkDone(s) \/ MarkFailed(s)
  BY <1>4 DEF MarkDone, MarkFailed, Mark
<1>5. CASE StatementFails(s) \/ HandlerCrash(s)
  BY <1>5 DEF StatementFails, HandlerCrash
<1> QED
  BY <1>1, <1>2, <1>3, <1>4, <1>5

\* A payment, once recorded, is never taken back, by any step.
LEMMA PaidStays ==
  ASSUME TypeOK, [Next]_vars, NEW po \in ProviderOrder, paymentStatus[po] = "PAID"
  PROVE  paymentStatus'[po] = "PAID"
<1>1. CASE PaymentsKept
  BY <1>1 DEF PaymentsKept
<1>2. CASE \E s \in Session : Commit(s)
  BY <1>2 DEF Commit, TypeOK
<1>3. CASE UNCHANGED paymentStatus
  BY <1>3
<1>4. CASE \/ \E s \in Session : LockOrder(s) \/ Settle(s)
           \/ \E o \in Order : Lapse(o)
           \/ \E c \in Canceller, o \in Order : DecideCancel(c, o) \/ CommitCancel(c, o)
           \/ \E q \in ProviderOrder : EvaluateReady(q) \/ PromoteOrder(q)
           \/ FindLapsed \/ UNCHANGED vars
  BY <1>3, <1>4 DEF LockOrder, Settle, Lapse, DecideCancel, CommitCancel, FindLapsed,
     EvaluateReady, PromoteOrder, orderVars, vars
<1> QED
  BY <1>1, <1>2, <1>4, PreparationKeeps, DecisionsKeep, WebhookKeeps
  DEF Next, Webhook, Confirmation

\* No request, however stale what it has read, takes back a payment.
THEOREM PaidStaysPaid == Spec => PaidIsFinal
<1>1. TypeOK /\ [Next]_vars =>
        [\A po \in ProviderOrder : paymentStatus[po] = "PAID" => paymentStatus'[po] = "PAID"]_vars
  BY PaidStays
<1> QED
  BY TypeCorrect, <1>1, PTL DEF Spec, PaidIsFinal

\* Initially nothing is paid, and every order has a provider order to wait for.
LEMMA ConfirmInit == Init => ConfirmInv
<1> SUFFICES ASSUME Init PROVE ConfirmInv
  OBVIOUS
<1> USE ConstantsAssumption DEF Init
<1>1. OrderLocks /\ SeesSiblings
  BY DEF OrderLocks, SeesSiblings, HoldsOrder
<1>2. PaidStatus /\ CancelsOwn /\ ConfirmedMeansAllPaid
  BY DEF PaidStatus, CancelsOwn, ConfirmedMeansAllPaid, Paid, NoCancel
<1>3. AllPaidConfirms
  BY DEF AllPaidConfirms, Paid, SubOrders
<1> QED
  BY <1>1, <1>2, <1>3 DEF ConfirmInv

\* A step that keeps the payments keeps what the orders' statuses say of them.
LEMMA KeptStep ==
  ASSUME ConfirmInv, PaymentsKept
  PROVE  (PaidStatus /\ AllPaidConfirms /\ ConfirmedMeansAllPaid)'
<1> USE ConstantsAssumption DEF ConfirmInv, PaymentsKept, Paid, SubOrders
<1>1. PaidStatus'
  BY DEF PaidStatus
<1>2. AllPaidConfirms'
  BY DEF AllPaidConfirms
<1>3. ConfirmedMeansAllPaid'
  BY DEF ConfirmedMeansAllPaid
<1> QED
  BY <1>1, <1>2, <1>3

\* A step that moves no handler onto the lock of a root order keeps the whole of it.
LEMMA UnlockedStep ==
  ASSUME ConfirmInv, PaymentsKept, UNCHANGED <<cancel, allPaid>>,
         \A s \in Session : handler'[s] \in HoldsOrder => handler'[s] = handler[s]
  PROVE  ConfirmInv'
<1> USE ConstantsAssumption DEF ConfirmInv
<1>1. OrderLocks'
  BY DEF OrderLocks
<1>2. SeesSiblings'
  BY DEF SeesSiblings, HoldsOrder, PaymentsKept, SiblingsPaid, Siblings, SubOrders
<1>3. CancelsOwn'
  BY DEF CancelsOwn
<1> QED
  BY <1>1, <1>2, <1>3, KeptStep

\* A settlement locks the root order, decrements the stock and reads the siblings.
LEMMA LockedStep ==
  ASSUME TypeOK, ConfirmInv, NEW s \in Session, LockOrder(s) \/ Settle(s)
  PROVE  ConfirmInv'
<1> USE ConstantsAssumption DEF ConfirmInv, TypeOK
<1>1. PaymentsKept /\ UNCHANGED <<paymentStatus, cancel>>
  BY DEF LockOrder, Settle, PaymentsKept, orderVars, otherVars, Paid
<1>2. CASE LockOrder(s)
  <2>1. OrderLocks'
    BY <1>2 DEF LockOrder, OrderLocks, OrderFree, HoldsOrder
  <2>2. SeesSiblings'
    BY <1>1, <1>2 DEF LockOrder, SeesSiblings, SiblingsPaid, Siblings, SubOrders
  <2> QED
    BY <1>1, <2>1, <2>2, KeptStep DEF CancelsOwn
<1>3. CASE Settle(s)
  <2>1. OrderLocks'
    BY <1>3 DEF Settle, OrderLocks, HoldsOrder
  <2>2. ASSUME NEW t \in Session, handler'[t] = "settled"
        PROVE  allPaid'[t] <=> SiblingsPaid(Owner[t])'
    <3>1. SiblingsPaid(Owner[t])' <=> SiblingsPaid(Owner[t])
      BY <1>1 DEF SiblingsPaid, Siblings, SubOrders
    <3>2. CASE t = s
      <4>1. InStock(Owner[s])
        BY <1>3, <2>2, <3>2 DEF Settle
      <4>2. allPaid'[s] <=> InStock(Owner[s]) /\ SiblingsPaid(Owner[s])
        BY <1>3 DEF Settle
      <4> QED
        BY <3>1, <3>2, <4>1, <4>2
    <3>3. CASE t # s
      <4>1. handler'[t] = handler[t] /\ allPaid'[t] = allPaid[t]
        BY <1>3, <3>3 DEF Settle
      <4> QED
        BY <2>2, <3>1, <4>1 DEF SeesSiblings
    <3> QED
      BY <3>2, <3>3
  <2> QED
    BY <1>1, <2>1, <2>2, KeptStep DEF CancelsOwn, SeesSiblings
<1> QED
  BY <1>2, <1>3

\* The commit of a settlement pays its provider order and, on what it read of the
\* siblings, confirms the root order. No other settlement of the order is under way,
\* so what it read is still so.
LEMMA CommitStep ==
  ASSUME TypeOK, ConfirmInv, NEW s \in Session, Commit(s)
  PROVE  ConfirmInv'
<1> DEFINE po == Owner[s]
           o == OrderOf[po]
<1> USE ConstantsAssumption DEF ConfirmInv, TypeOK
<1>1. /\ po \in ProviderOrder /\ o \in Order /\ handler[s] = "settled"
      /\ allPaid[s] <=> SiblingsPaid(po)
  <2>1. handler[s] = "settled"
    BY DEF Commit
  <2>2. po \in ProviderOrder /\ o \in Order
    OBVIOUS
  <2> QED
    BY <2>1, <2>2 DEF SeesSiblings
<1>2. /\ paymentStatus' = [paymentStatus EXCEPT ![po] = "PAID"]
      /\ poStatus' = [poStatus EXCEPT ![po] = "PAID"]
      /\ orderStatus' = [orderStatus EXCEPT ![o] = Confirmed(o, allPaid[s])]
      /\ handler' = [handler EXCEPT ![s] = "committed"]
      /\ UNCHANGED <<allPaid, cancel>>
  BY DEF Commit, otherVars
<1>3. OrderLocks'
  BY <1>2 DEF OrderLocks, HoldsOrder
<1>4. ASSUME NEW t \in Session, handler'[t] = "settled"
      PROVE  allPaid'[t] <=> SiblingsPaid(Owner[t])'
  <2>1. t # s /\ handler[t] = "settled" /\ OrderOf[Owner[t]] # o
    BY <1>1, <1>2, <1>4 DEF OrderLocks, HoldsOrder
  <2>2. po \notin Siblings(Owner[t])
    BY <2>1 DEF Siblings, SubOrders
  <2>3. SiblingsPaid(Owner[t])' <=> SiblingsPaid(Owner[t])
    BY <1>2, <2>2 DEF SiblingsPaid, Siblings, SubOrders
  <2> QED
    BY <1>2, <2>1, <2>3 DEF SeesSiblings
<1>5. PaidStatus'
  BY <1>1, <1>2 DEF PaidStatus, Paid, Confirmed
<1>6. CancelsOwn'
  BY <1>2 DEF CancelsOwn
<1>7. AllPaidConfirms'
  <2> SUFFICES ASSUME NEW q \in Order, SubOrders(q) \subseteq Paid'
               PROVE  orderStatus'[q] # "PENDING"
    BY DEF AllPaidConfirms, SubOrders
  <2>1. CASE q = o
    <3>1. SiblingsPaid(po)
      BY <1>2, <2>1 DEF SiblingsPaid, Siblings, SubOrders, Paid
    <3> QED
      BY <1>1, <1>2, <2>1, <3>1 DEF Confirmed
  <2>2. CASE q # o
    <3>1. SubOrders(q) \subseteq Paid
      BY <1>1, <1>2, <2>2 DEF SubOrders, Paid
    <3> QED
      BY <1>2, <2>2, <3>1 DEF AllPaidConfirms
  <2> QED
    BY <2>1, <2>2
<1>8. ConfirmedMeansAllPaid'
  <2> SUFFICES ASSUME NEW q \in Order, orderStatus'[q] = "CONFIRMED",
                      NEW r \in SubOrders(q)
               PROVE  paymentStatus'[r] = "PAID" /\ poStatus'[r] = "PAID"
    BY DEF ConfirmedMeansAllPaid, SubOrders, Paid
  <2>1. r \in ProviderOrder /\ OrderOf[r] = q
    BY DEF SubOrders
  <2>2. CASE orderStatus[q] = "CONFIRMED"
    BY <1>1, <1>2, <2>1, <2>2 DEF ConfirmedMeansAllPaid, Paid, SubOrders
  <2>3. CASE orderStatus[q] # "CONFIRMED"
    <3>1. q = o /\ orderStatus[o] = "PENDING" /\ SiblingsPaid(po)
      BY <1>1, <1>2, <2>3 DEF Confirmed
    <3>2. CASE r = po
      BY <1>1, <1>2, <3>2
    <3>3. CASE r # po
      BY <1>2, <2>1, <3>1, <3>3 DEF SiblingsPaid, Siblings, SubOrders, PaidStatus, Paid
    <3> QED
      BY <3>2, <3>3
  <2> QED
    BY <2>2, <2>3
<1> QED
  BY <1>3, <1>4, <1>5, <1>6, <1>7, <1>8 DEF SeesSiblings

\* A cancellation cancels the provider orders of its own order only.
LEMMA CancelStep ==
  ASSUME TypeOK, ConfirmInv, NEW c \in Canceller, NEW o \in Order,
         DecideCancel(c, o) \/ CommitCancel(c, o)
  PROVE  ConfirmInv'
<1> USE ConstantsAssumption DEF ConfirmInv, TypeOK
<1>1. UNCHANGED <<paymentStatus, handler, allPaid>>
  BY DEF DecideCancel, CommitCancel, orderVars, inboxVars
<1>2. (OrderLocks /\ SeesSiblings)'
  BY <1>1 DEF OrderLocks, SeesSiblings, SiblingsPaid, Siblings, SubOrders
<1>3. CASE DecideCancel(c, o)
  <2>1. UNCHANGED <<orderStatus, poStatus>>
    BY <1>3 DEF DecideCancel, orderVars
  <2>2. CancelsOwn'
    BY <1>3 DEF DecideCancel, CancelsOwn, SubOrders
  <2> QED
    BY <1>1, <1>2, <2>1, <2>2, KeptStep DEF PaymentsKept
<1>4. CASE CommitCancel(c, o)
  <2>1. /\ orderStatus' = [orderStatus EXCEPT ![o] = "CANCELLED"]
        /\ \A po \in ProviderOrder : OrderOf[po] # o => poStatus'[po] = poStatus[po]
    BY <1>4 DEF CommitCancel, CancelsOwn
  <2>2. CancelsOwn'
    BY <1>4 DEF CommitCancel, CancelsOwn, NoCancel
  <2>3. (PaidStatus /\ AllPaidConfirms /\ ConfirmedMeansAllPaid)'
    BY <1>1, <2>1 DEF PaidStatus, AllPaidConfirms, ConfirmedMeansAllPaid, SubOrders, Paid
  <2> QED
    BY <1>2, <2>2, <2>3
<1> QED
  BY <1>3, <1>4

\* A promotion, however late, takes an order past what the two properties speak of.
LEMMA PromoteStep ==
  ASSUME TypeOK, ConfirmInv, NEW po \in ProviderOrder, PromoteOrder(po)
  PROVE  ConfirmInv'
<1> USE ConstantsAssumption DEF ConfirmInv, TypeOK
<1>1. /\ orderStatus' = [orderStatus EXCEPT ![OrderOf[po]] = "READY_FOR_ASSIGNMENT"]
      /\ UNCHANGED <<poStatus, paymentStatus, handler, allPaid, cancel>>
  BY DEF PromoteOrder, inboxVars
<1>2. (OrderLocks /\ SeesSiblings /\ CancelsOwn)'
  BY <1>1 DEF OrderLocks, SeesSiblings, CancelsOwn, SiblingsPaid, Siblings, SubOrders
<1>3. (PaidStatus /\ AllPaidConfirms /\ ConfirmedMeansAllPaid)'
  BY <1>1 DEF PaidStatus, AllPaidConfirms, ConfirmedMeansAllPaid, SubOrders, Paid
<1> QED
  BY <1>2, <1>3

\* Every step preserves the invariant.
LEMMA ConfirmStep == TypeOK /\ ConfirmInv /\ [Next]_vars => ConfirmInv'
<1> SUFFICES ASSUME TypeOK, ConfirmInv, [Next]_vars PROVE ConfirmInv'
  OBVIOUS
<1>1. ASSUME NEW s \in Session, Preparation(s) PROVE ConfirmInv'
  BY <1>1, PreparationKeeps, UnlockedStep
<1>2. ASSUME NEW s \in Session, Pay(s) \/ Webhook(s) PROVE ConfirmInv'
  BY <1>2, WebhookKeeps, UnlockedStep, LockedStep, CommitStep DEF Webhook, Confirmation
<1>3. CASE \/ ExpireReservations
           \/ \E po \in ProviderOrder, role \in Role, st \in ProviderOrderStatus :
                UpdateProviderOrderStatus(po, role, st)
  BY <1>3, DecisionsKeep, UnlockedStep
<1>4. CASE \/ \E o \in Order : Lapse(o)
           \/ \E po \in ProviderOrder : EvaluateReady(po)
           \/ FindLapsed \/ UNCHANGED vars
  <2>1. PaymentsKept /\ UNCHANGED <<cancel, handler, allPaid>>
    BY <1>4 DEF Lapse, FindLapsed, EvaluateReady, PaymentsKept, Paid, orderVars, inboxVars, otherVars, vars
  <2> QED
    BY <2>1, UnlockedStep
<1> QED
  BY <1>1, <1>2, <1>3, <1>4, CancelStep, PromoteStep DEF Next

\* So it holds in every reachable state.
LEMMA ConfirmCorrect == Spec => []ConfirmInv
  BY TypeCorrect, ConfirmInit, ConfirmStep, PTL DEF Spec

\* The confirmation of a root order is never lost, whatever number of provider orders
\* it has and however their settlements overlap.
THEOREM AllPaidIsConfirmed == Spec => []AllPaidConfirms
<1>1. ConfirmInv => AllPaidConfirms
  BY DEF ConfirmInv
<1> QED
  BY ConfirmCorrect, <1>1, PTL

\* And no root order is confirmed before its last provider order is paid.
THEOREM ConfirmedIsAllPaid == Spec => []ConfirmedMeansAllPaid
<1>1. ConfirmInv => ConfirmedMeansAllPaid
  BY DEF ConfirmInv
<1> QED
  BY ConfirmCorrect, <1>1, PTL

-----------------------------------------------------------------------------
(***************************************************************************)
(* Sessions. Only a preparation opens one, and it expires the others of    *)
(* the provider order in the same step.                                    *)
(***************************************************************************)

\* No other step opens a session that was not open.
LEMMA OpensNoSession ==
  ASSUME TypeOK, [Next]_vars,
         ~ \E s \in Session : CreateSession(Owner[s], s),
         NEW s \in Session, session'[s] \in Open
  PROVE  session[s] \in Open
<1> USE DEF TypeOK, Open, sessionVars
<1>1. CASE \E t \in Session : ReuseSession(Owner[t], t) \/ IntentRefused(t) \/ FailSession(t)
  BY <1>1 DEF ReuseSession, ExpireOpenSessions, IntentRefused, FailSession
<1>2. CASE \E t \in Session : Activate(t) \/ Commit(t)
  BY <1>2 DEF Activate, CanActivate, Commit
<1>3. CASE UNCHANGED session
  BY <1>3
<1>4. ASSUME NEW t \in Session,
             \/ IntentCreated(t) \/ ResetProviderOrder(t) \/ RejectActivation(t)
             \/ ActivationCrash(t) \/ Pay(t)
      PROVE  UNCHANGED session
  BY <1>4 DEF IntentCreated, ResetProviderOrder, RejectActivation, ActivationCrash, Pay
<1>5. ASSUME NEW t \in Session,
             \/ Claim(t) \/ AcknowledgeUnclaimed(t) \/ LoadSession(t) \/ Validate(t)
             \/ LockOrder(t) \/ Settle(t) \/ StatementFails(t) \/ HandlerCrash(t)
             \/ WindowElapses(t)
      PROVE  UNCHANGED session
  BY <1>5 DEF Claim, AcknowledgeUnclaimed, LoadSession, Validate, LockOrder, Settle,
     StatementFails, HandlerCrash, WindowElapses
<1>6. ASSUME NEW t \in Session, MarkDone(t) \/ MarkFailed(t) PROVE UNCHANGED session
  BY <1>6 DEF MarkDone, MarkFailed, Mark
<1>7. ASSUME \/ \E o \in Order : Lapse(o)
             \/ \E c \in Canceller, o \in Order : DecideCancel(c, o) \/ CommitCancel(c, o)
             \/ FindLapsed \/ ExpireReservations
             \/ \E po \in ProviderOrder, role \in Role \ {"RUNNER"}, st \in ProviderOrderStatus :
                  UpdateProviderOrderStatus(po, role, st)
             \/ \E po \in ProviderOrder : EvaluateReady(po) \/ PromoteOrder(po)
             \/ UNCHANGED vars
      PROVE  UNCHANGED session
  BY <1>7 DEF Lapse, DecideCancel, CommitCancel, FindLapsed, ExpireReservations,
     UpdateProviderOrderStatus, EvaluateReady, PromoteOrder, vars
<1> QED
  BY <1>1, <1>2, <1>3, <1>4, <1>5, <1>6, <1>7 DEF Next, Preparation, Webhook, Confirmation

\* However many preparations of a provider order overlap, and however late their
\* activations come, a client can be sent to one session of it at most.
THEOREM OnlyOneOpenSession == Spec => []OneOpenSession
<1>1. Init => OneOpenSession
  BY DEF Init, OneOpenSession, Open
<1>2. TypeOK /\ OneOpenSession /\ [Next]_vars => OneOpenSession'
  <2> SUFFICES ASSUME TypeOK, OneOpenSession, [Next]_vars PROVE OneOpenSession'
    OBVIOUS
  <2>1. ASSUME NEW s \in Session, CreateSession(Owner[s], s) PROVE OneOpenSession'
    BY <2>1 DEF CreateSession, ExpireOpenSessions, OneOpenSession, Open, TypeOK
  <2>2. CASE ~ \E s \in Session : CreateSession(Owner[s], s)
    BY <2>2, OpensNoSession DEF OneOpenSession
  <2> QED
    BY <2>1, <2>2
<1> QED
  BY TypeCorrect, <1>1, <1>2, PTL DEF Spec

-----------------------------------------------------------------------------
(***************************************************************************)
(* Reconciliation. Only the confirming transaction pays a provider order,  *)
(* and it completes a session of it in the same step.                      *)
(***************************************************************************)

\* No step takes the completion of a session back.
LEMMA CompletedStaysSo ==
  ASSUME TypeOK, [Next]_vars, NEW s \in Session, session[s] = "COMPLETED"
  PROVE  session'[s] = "COMPLETED"
<1> USE DEF TypeOK, Open, sessionVars
<1>1. ASSUME NEW po \in ProviderOrder, NEW keep \in SUBSET Session
      PROVE  ExpireOpenSessions(po, keep)[s] = "COMPLETED"
  BY DEF ExpireOpenSessions
<1>2. ASSUME NEW t \in Session, ReuseSession(Owner[t], t) \/ CreateSession(Owner[t], t)
      PROVE  session'[s] = "COMPLETED"
  <2>1. Owner[t] \in ProviderOrder /\ {} \in SUBSET Session /\ {t} \in SUBSET Session
    BY ConstantsAssumption
  <2>2. CASE ReuseSession(Owner[t], t)
    BY <1>1, <2>1, <2>2 DEF ReuseSession
  <2>3. CASE CreateSession(Owner[t], t)
    <3>1. s # t
      BY <2>3 DEF CreateSession
    <3>2. ExpireOpenSessions(Owner[t], {}) = [u \in Session |->
            ExpireOpenSessions(Owner[t], {})[u]]
      BY DEF ExpireOpenSessions
    <3> QED
      BY <1>1, <2>1, <2>3, <3>1, <3>2 DEF CreateSession
  <2> QED
    BY <1>2, <2>2, <2>3
<1>3. CASE \E t \in Session : IntentRefused(t) \/ FailSession(t) \/ Activate(t) \/ Commit(t)
  BY <1>3 DEF IntentRefused, FailSession, Activate, CanActivate, Commit
<1>4. CASE UNCHANGED session
  BY <1>4
<1>5. ASSUME NEW t \in Session,
             \/ IntentCreated(t) \/ ResetProviderOrder(t) \/ RejectActivation(t)
             \/ ActivationCrash(t) \/ Pay(t) \/ Claim(t) \/ AcknowledgeUnclaimed(t)
             \/ LoadSession(t) \/ Validate(t)
      PROVE  UNCHANGED session
  BY <1>5 DEF IntentCreated, ResetProviderOrder, RejectActivation, ActivationCrash, Pay,
     Claim, AcknowledgeUnclaimed, LoadSession, Validate
<1>6. ASSUME NEW t \in Session,
             \/ LockOrder(t) \/ Settle(t) \/ StatementFails(t) \/ HandlerCrash(t)
             \/ WindowElapses(t) \/ MarkDone(t) \/ MarkFailed(t)
      PROVE  UNCHANGED session
  BY <1>6 DEF LockOrder, Settle, StatementFails, HandlerCrash, WindowElapses, MarkDone,
     MarkFailed, Mark
<1>7. ASSUME \/ \E o \in Order : Lapse(o)
             \/ \E c \in Canceller, o \in Order : DecideCancel(c, o) \/ CommitCancel(c, o)
             \/ FindLapsed \/ ExpireReservations
             \/ \E po \in ProviderOrder, role \in Role \ {"RUNNER"}, st \in ProviderOrderStatus :
                  UpdateProviderOrderStatus(po, role, st)
             \/ \E po \in ProviderOrder : EvaluateReady(po) \/ PromoteOrder(po)
             \/ UNCHANGED vars
      PROVE  UNCHANGED session
  BY <1>7 DEF Lapse, DecideCancel, CommitCancel, FindLapsed, ExpireReservations,
     UpdateProviderOrderStatus, EvaluateReady, PromoteOrder, vars
<1> QED
  BY <1>2, <1>3, <1>4, <1>5, <1>6, <1>7 DEF Next, Preparation, Webhook, Confirmation

\* No other step pays a provider order.
LEMMA OnlyCommitPays ==
  ASSUME TypeOK, [Next]_vars, ~ \E s \in Session : Commit(s),
         NEW po \in ProviderOrder, paymentStatus'[po] = "PAID"
  PROVE  paymentStatus[po] = "PAID"
<1>1. CASE PaymentsKept
  BY <1>1 DEF PaymentsKept
<1>2. CASE UNCHANGED paymentStatus
  BY <1>2
<1>3. CASE \/ \E s \in Session : LockOrder(s) \/ Settle(s)
           \/ \E o \in Order : Lapse(o)
           \/ \E c \in Canceller, o \in Order : DecideCancel(c, o) \/ CommitCancel(c, o)
           \/ \E q \in ProviderOrder : EvaluateReady(q) \/ PromoteOrder(q)
           \/ FindLapsed \/ UNCHANGED vars
  BY <1>2, <1>3 DEF LockOrder, Settle, Lapse, DecideCancel, CommitCancel, FindLapsed,
     EvaluateReady, PromoteOrder, orderVars, vars
<1> QED
  BY <1>1, <1>3, PreparationKeeps, DecisionsKeep, WebhookKeeps
  DEF Next, Webhook, Confirmation

PaidAreExplained == PaidWithoutSession = {}

LEMMA PaidHasSession == Spec => []PaidAreExplained
<1>1. Init => PaidAreExplained
  BY DEF Init, PaidAreExplained, PaidWithoutSession, Paid
<1>2. TypeOK /\ PaidAreExplained /\ [Next]_vars => PaidAreExplained'
  <2> SUFFICES ASSUME TypeOK, PaidAreExplained, [Next]_vars,
                      NEW po \in ProviderOrder, paymentStatus'[po] = "PAID"
               PROVE  \E s \in Session : Owner[s] = po /\ session'[s] = "COMPLETED"
    BY DEF PaidAreExplained, PaidWithoutSession, Paid
  <2>1. CASE paymentStatus[po] = "PAID"
    <3>1. PICK s \in Session : Owner[s] = po /\ session[s] = "COMPLETED"
      BY <2>1 DEF PaidAreExplained, PaidWithoutSession, Paid
    <3> QED
      BY <3>1, CompletedStaysSo
  <2>2. ASSUME paymentStatus[po] # "PAID", NEW s \in Session, Commit(s)
        PROVE  Owner[s] = po /\ session'[s] = "COMPLETED"
    BY <2>2 DEF Commit, TypeOK
  <2> QED
    BY <2>1, <2>2, OnlyCommitPays
<1> QED
  BY TypeCorrect, <1>1, <1>2, PTL DEF Spec

\* The reports of the reconciliation services stay empty, for any number of orders,
\* sessions and overlapping requests.
THEOREM NothingIsToReconcile == Spec => []NothingToReconcile
<1>1. OneOpenSession /\ PaidAreExplained => NothingToReconcile
  BY Zenon DEF OneOpenSession, PaidAreExplained, NothingToReconcile, multipleOpenSessions
<1> QED
  BY OnlyOneOpenSession, PaidHasSession, <1>1, PTL
-----------------------------------------------------------------------------
(***************************************************************************)
(* Captured money. A client can pay an intent only once its session has    *)
(* been READY, at whatever time it does. Such a session stays the one its  *)
(* provider order refers to: the next preparation finds it again, and a    *)
(* late activation finds itself superseded.                                *)
(***************************************************************************)
PayableIsReferred ==
  \A s \in external :
    /\ session[s] \in {"READY", "COMPLETED"} /\ activation[s] = "idle"
    /\ paymentRef[Owner[s]] = s

ReadyIsPayable == \A s \in Session : session[s] = "READY" => s \in external

CompletedIsPaid == \A s \in Session : session[s] = "COMPLETED" => Owner[s] \in Paid

CapturedIsPayable == \A s \in Session : intent[s] = "paid" => s \in external

CaptureInv ==
  OneOpenSession /\ PayableIsReferred /\ ReadyIsPayable /\ CompletedIsPaid
  /\ CapturedIsPayable

\* What a step that is no part of a preparation, a payment or a commit leaves alone.
CapturesKept ==
  /\ UNCHANGED <<session, external, activation, intent, paymentRef>>
  /\ \A po \in Paid : paymentStatus'[po] = "PAID"

\* A preparation that reuses a session finds the one that was referred to; one that
\* creates a session finds none that a client could have been sent to.
LEMMA PrepareCaptures ==
  ASSUME TypeOK, CaptureInv, NEW s \in Session,
         ReuseSession(Owner[s], s) \/ CreateSession(Owner[s], s)
  PROVE  (PayableIsReferred /\ ReadyIsPayable /\ CompletedIsPaid /\ CapturedIsPayable)'
<1> DEFINE po == Owner[s]
<1> USE ConstantsAssumption DEF CaptureInv, TypeOK
<1>1. po \in ProviderOrder /\ paymentStatus[po] # "PAID" /\ UNCHANGED <<external, intent>>
  BY DEF ReuseSession, CreateSession, CanPrepare, stripeVars
<1>2. CapturedIsPayable'
  BY <1>1 DEF CapturedIsPayable
<1>3. \A q \in ProviderOrder : paymentStatus[q] = "PAID" => paymentStatus'[q] = "PAID"
  BY <1>1 DEF ReuseSession, CreateSession
<1>4. CASE ReuseSession(po, s)
  <2>1. /\ session[s] = "READY" /\ s \in external
        /\ \A t \in Session : session'[t] = IF Owner[t] = po /\ session[t] \in Open /\ t # s
                                              THEN "EXPIRED" ELSE session[t]
        /\ activation' = activation /\ paymentRef' = [paymentRef EXCEPT ![po] = s]
    BY <1>4 DEF ReuseSession, ActiveSessions, SessionsOf, ExpireOpenSessions
  <2>2. PayableIsReferred'
    BY <1>1, <2>1 DEF PayableIsReferred, OneOpenSession, Open
  <2>3. ReadyIsPayable'
    BY <1>1, <2>1 DEF ReadyIsPayable
  <2>4. CompletedIsPaid'
    BY <1>3, <2>1 DEF CompletedIsPaid, Paid
  <2> QED
    BY <1>2, <2>2, <2>3, <2>4
<1>5. CASE CreateSession(po, s)
  <2>1. /\ session[s] = "NONE" /\ session'[s] = "CREATED"
        /\ \A t \in Session : t # s =>
             session'[t] = IF Owner[t] = po /\ session[t] \in Open THEN "EXPIRED" ELSE session[t]
        /\ \A t \in Session : t # s => activation'[t] = activation[t]
        /\ paymentRef' = [paymentRef EXCEPT ![po] = NoRef]
    BY <1>5 DEF CreateSession, ExpireOpenSessions
  <2>2. \A t \in external : Owner[t] # po
    <3>1. \A t \in Session : Owner[t] = po /\ t \in external => session[t] # "READY"
      BY <1>5 DEF CreateSession, ActiveSessions, SessionsOf
    <3>2. \A t \in Session : Owner[t] = po => session[t] # "COMPLETED"
      BY <1>1 DEF CompletedIsPaid, Paid
    <3> QED
      BY <3>1, <3>2 DEF PayableIsReferred
  <2>3. PayableIsReferred'
    BY <1>1, <2>1, <2>2 DEF PayableIsReferred
  <2>4. ReadyIsPayable'
    BY <1>1, <2>1 DEF ReadyIsPayable
  <2>5. CompletedIsPaid'
    BY <1>3, <2>1 DEF CompletedIsPaid, Paid
  <2> QED
    BY <1>2, <2>3, <2>4, <2>5
<1> QED
  BY <1>4, <1>5

\* An activation, unless it succeeds, touches a session that nobody could pay; if it
\* does, its session is open, so that no other of the provider order is payable.
LEMMA ActivateCaptures ==
  ASSUME TypeOK, CaptureInv, NEW s \in Session,
         \/ IntentCreated(s) \/ IntentRefused(s) \/ ResetProviderOrder(s) \/ Activate(s)
         \/ RejectActivation(s) \/ FailSession(s) \/ ActivationCrash(s)
  PROVE  (PayableIsReferred /\ ReadyIsPayable /\ CompletedIsPaid /\ CapturedIsPayable)'
<1> USE ConstantsAssumption DEF CaptureInv, TypeOK
<1>1. s \notin external
  BY DEF PayableIsReferred, IntentCreated, IntentRefused, ResetProviderOrder, Activate,
     RejectActivation, FailSession, ActivationCrash
<1>2. CASE Activate(s)
  <2>1. /\ session[s] = "CREATED" /\ paymentStatus[Owner[s]] # "PAID"
        /\ session' = [session EXCEPT ![s] = "READY"] /\ external' = external \cup {s}
        /\ activation' = [activation EXCEPT ![s] = "idle"] /\ intent' = intent
        /\ paymentStatus' = [paymentStatus EXCEPT ![Owner[s]] = "PAYMENT_READY"]
        /\ paymentRef' = [paymentRef EXCEPT ![Owner[s]] = s]
    BY <1>2 DEF Activate, CanActivate, stripeVars
  <2>2. \A t \in external : Owner[t] # Owner[s]
    <3>1. \A t \in external : Owner[t] = Owner[s] => session[t] # "COMPLETED"
      BY <2>1 DEF CompletedIsPaid, Paid
    <3>2. \A t \in external : Owner[t] = Owner[s] => session[t] # "READY"
      BY <1>1, <2>1 DEF OneOpenSession, Open
    <3> QED
      BY <3>1, <3>2 DEF PayableIsReferred
  <2>3. PayableIsReferred'
    BY <2>1, <2>2 DEF PayableIsReferred
  <2> QED
    BY <2>1, <2>3 DEF ReadyIsPayable, CompletedIsPaid, Paid, CapturedIsPayable
<1>3. CASE ResetProviderOrder(s)
  <2>1. /\ UNCHANGED <<session, external, intent, paymentRef>>
        /\ activation' = [activation EXCEPT ![s] = "idle"]
        /\ \A po \in Paid : paymentStatus'[po] = "PAID"
    BY <1>3 DEF ResetProviderOrder, AwaitsPayment, Paid, stripeVars
  <2> QED
    BY <2>1 DEF PayableIsReferred, ReadyIsPayable, CompletedIsPaid, Paid, CapturedIsPayable
<1>4. CASE \/ IntentCreated(s) \/ IntentRefused(s) \/ RejectActivation(s) \/ FailSession(s)
           \/ ActivationCrash(s)
  <2>1. /\ UNCHANGED <<external, paymentRef, paymentStatus>>
        /\ session' \in {session, [session EXCEPT ![s] = "FAILED"]}
        /\ \A t \in Session : t # s => activation'[t] = activation[t]
        /\ \A t \in Session : intent'[t] = "paid" => intent[t] = "paid"
    <3>1. CASE IntentCreated(s)
      BY <3>1 DEF IntentCreated, orderVars
    <3>2. CASE IntentRefused(s)
      BY <3>2 DEF IntentRefused, orderVars, stripeVars
    <3>3. CASE RejectActivation(s)
      BY <3>3 DEF RejectActivation, orderVars
    <3>4. CASE FailSession(s)
      BY <3>4 DEF FailSession, orderVars, stripeVars
    <3>5. CASE ActivationCrash(s)
      BY <3>5 DEF ActivationCrash, orderVars, stripeVars
    <3> QED
      BY <1>4, <3>1, <3>2, <3>3, <3>4, <3>5
  <2> QED
    BY <1>1, <2>1 DEF PayableIsReferred, ReadyIsPayable, CompletedIsPaid, Paid,
       CapturedIsPayable
<1> QED
  BY <1>2, <1>3, <1>4

\* The other steps leave the sessions and the references alone, or complete a session
\* with the payment of its provider order.
LEMMA OthersKeepCaptures ==
  ASSUME TypeOK, [Next]_vars, ~ \E s \in Session : Preparation(s) \/ Pay(s) \/ Commit(s)
  PROVE  CapturesKept
<1>1. \A po \in Paid : paymentStatus'[po] = "PAID"
  BY PaidStays DEF Paid
<1> USE DEF CapturesKept, orderVars, sessionVars, stripeVars
<1>2. CASE \E s \in Session :
             \/ Claim(s) \/ AcknowledgeUnclaimed(s) \/ LoadSession(s) \/ Validate(s)
             \/ LockOrder(s) \/ Settle(s) \/ StatementFails(s) \/ HandlerCrash(s)
             \/ WindowElapses(s)
  BY <1>1, <1>2 DEF Claim, AcknowledgeUnclaimed, LoadSession, Validate, LockOrder, Settle,
     StatementFails, HandlerCrash, WindowElapses
<1>3. CASE \E s \in Session : MarkDone(s) \/ MarkFailed(s)
  BY <1>1, <1>3 DEF MarkDone, MarkFailed, Mark
<1>4. CASE \/ \E o \in Order : Lapse(o)
           \/ \E c \in Canceller, o \in Order : DecideCancel(c, o) \/ CommitCancel(c, o)
           \/ FindLapsed \/ ExpireReservations
           \/ \E po \in ProviderOrder, role \in Role \ {"RUNNER"}, st \in ProviderOrderStatus :
                UpdateProviderOrderStatus(po, role, st)
           \/ \E po \in ProviderOrder : EvaluateReady(po) \/ PromoteOrder(po)
           \/ UNCHANGED vars
  BY <1>1, <1>4 DEF Lapse, DecideCancel, CommitCancel, FindLapsed, ExpireReservations,
     UpdateProviderOrderStatus, EvaluateReady, PromoteOrder, vars
<1> QED
  BY <1>2, <1>3, <1>4 DEF Next, Webhook, Confirmation

\* Every step keeps what is payable referred to.
LEMMA CaptureStep ==
  ASSUME TypeOK, CaptureInv, [Next]_vars
  PROVE  (PayableIsReferred /\ ReadyIsPayable /\ CompletedIsPaid /\ CapturedIsPayable)'
<1> USE ConstantsAssumption DEF CaptureInv
<1>1. CASE \E s \in Session : Preparation(s)
  BY <1>1, PrepareCaptures, ActivateCaptures DEF Preparation
<1>2. CASE \E s \in Session : Pay(s)
  BY <1>2 DEF TypeOK, Pay, PayableIsReferred, ReadyIsPayable, CompletedIsPaid, Paid,
     CapturedIsPayable, orderVars, sessionVars
<1>3. CASE \E s \in Session : Commit(s)
  BY <1>3 DEF TypeOK, Commit, PayableIsReferred, ReadyIsPayable, CompletedIsPaid, Paid,
     CapturedIsPayable, stripeVars
<1>4. CASE CapturesKept
  BY <1>4 DEF CapturesKept, PayableIsReferred, ReadyIsPayable, CompletedIsPaid, Paid,
     CapturedIsPayable, TypeOK
<1> QED
  BY <1>1, <1>2, <1>3, <1>4, OthersKeepCaptures

LEMMA CaptureCorrect == Spec => []CaptureInv
<1>1. Init => PayableIsReferred /\ ReadyIsPayable /\ CompletedIsPaid /\ CapturedIsPayable
  BY DEF Init, PayableIsReferred, ReadyIsPayable, CompletedIsPaid, Paid, CapturedIsPayable
<1>2. TypeOK /\ OneOpenSession /\ OneOpenSession' /\ CaptureInv /\ [Next]_vars => CaptureInv'
  BY CaptureStep DEF CaptureInv
<1>3. OneOpenSession /\ PayableIsReferred /\ ReadyIsPayable /\ CompletedIsPaid
        /\ CapturedIsPayable => CaptureInv
  BY DEF CaptureInv
<1> QED
  BY TypeCorrect, OnlyOneOpenSession, <1>1, <1>2, <1>3, PTL DEF Spec

\* Whenever the client pays, and whatever has been prepared, activated, swept or
\* cancelled since it was given the secret, the webhook finds the session confirmable.
THEOREM CapturedIsConfirmableAlways == Spec => []CapturedIsConfirmable
<1>1. CaptureInv => CapturedIsConfirmable
  BY DEF CaptureInv, CapturedIsConfirmable, CapturedIsPayable, PayableIsReferred, Superseded
<1> QED
  BY CaptureCorrect, <1>1, PTL

\* No client is charged twice for a provider order, however many sessions it has had.
THEOREM NeverChargedTwiceAlways == Spec => []NeverChargedTwice
<1>1. CaptureInv => NeverChargedTwice
  BY DEF CaptureInv, NeverChargedTwice, CapturedIsPayable, PayableIsReferred
<1> QED
  BY CaptureCorrect, <1>1, PTL

(***************************************************************************)
(* Events. A handler that is about to close its event has paid, or has     *)
(* seen a payment, under the lock of the provider order or in the session  *)
(* it read before it; neither is ever taken back.                          *)
(***************************************************************************)
ClosingMeansPaid ==
  \A s \in Session :
    handler[s] \in {"committed", "ignored"} \/ seen[s] = "COMPLETED" => Owner[s] \in Paid

EventInv == TerminalMeansPaid /\ ClosingMeansPaid

LEMMA EventStep ==
  ASSUME TypeOK, CaptureInv, EventInv, [Next]_vars PROVE EventInv'
<1> USE ConstantsAssumption DEF TypeOK, EventInv, FINAL_STATUSES, inboxVars
<1>1. \A s \in Session : Owner[s] \in Paid => (Owner[s] \in Paid)'
  BY PaidStays DEF Paid
<1>2. CASE \E s \in Session : LoadSession(s)
  BY <1>1, <1>2 DEF LoadSession, TerminalMeansPaid, ClosingMeansPaid, CaptureInv, CompletedIsPaid
<1>3. ASSUME NEW s \in Session, Validate(s) PROVE EventInv'
  <2>1. /\ UNCHANGED <<event, seen>> /\ \A t \in Session : t # s => handler'[t] = handler[t]
        /\ handler'[s] # "committed"
        /\ handler'[s] = "ignored" => AlreadyPaid(s)
    BY <1>3 DEF Validate
  <2>2. AlreadyPaid(s) => Owner[s] \in Paid
    BY DEF AlreadyPaid, ClosingMeansPaid, Paid
  <2> QED
    BY <1>1, <2>1, <2>2 DEF TerminalMeansPaid, ClosingMeansPaid
<1>4. ASSUME NEW s \in Session, Commit(s) PROVE EventInv'
  <2>1. (Owner[s] \in Paid)' /\ UNCHANGED <<event, seen>>
        /\ \A t \in Session : t # s => handler'[t] = handler[t]
    BY <1>4 DEF Commit, Paid
  <2> QED
    BY <1>1, <2>1 DEF TerminalMeansPaid, ClosingMeansPaid
<1>5. CASE \E s \in Session : MarkDone(s)
  BY <1>1, <1>5 DEF MarkDone, Mark, TerminalMeansPaid, ClosingMeansPaid
<1>6. CASE \E s \in Session : MarkFailed(s)
  BY <1>1, <1>6 DEF MarkFailed, Mark, TerminalMeansPaid, ClosingMeansPaid
<1>7. CASE \E s \in Session : Claim(s) \/ LockOrder(s) \/ Settle(s) \/ StatementFails(s)
                              \/ HandlerCrash(s)
  BY <1>1, <1>7 DEF Claim, LockOrder, Settle, StatementFails, HandlerCrash,
     TerminalMeansPaid, ClosingMeansPaid
<1>8. CASE UNCHANGED <<event, handler, seen>>
  BY <1>1, <1>8 DEF TerminalMeansPaid, ClosingMeansPaid
<1>9. ASSUME NEW s \in Session, Preparation(s) \/ Pay(s)
      PROVE  UNCHANGED <<event, handler, seen>>
  BY <1>9 DEF Preparation, ReuseSession, CreateSession, IntentCreated, IntentRefused,
     ResetProviderOrder, Activate, RejectActivation, FailSession, ActivationCrash, Pay
<1>10. ASSUME \/ \E s \in Session : AcknowledgeUnclaimed(s) \/ WindowElapses(s)
              \/ \E o \in Order : Lapse(o)
              \/ \E c \in Canceller, o \in Order : DecideCancel(c, o) \/ CommitCancel(c, o)
              \/ FindLapsed \/ ExpireReservations
              \/ \E po \in ProviderOrder, role \in Role \ {"RUNNER"}, st \in ProviderOrderStatus :
                   UpdateProviderOrderStatus(po, role, st)
              \/ \E po \in ProviderOrder : EvaluateReady(po) \/ PromoteOrder(po)
              \/ UNCHANGED vars
       PROVE  UNCHANGED <<event, handler, seen>>
  BY <1>10 DEF AcknowledgeUnclaimed, WindowElapses, Lapse, DecideCancel, CommitCancel,
     FindLapsed, ExpireReservations, UpdateProviderOrderStatus, EvaluateReady,
     PromoteOrder, vars
<1> QED
  BY <1>2, <1>3, <1>4, <1>5, <1>6, <1>7, <1>8, <1>9, <1>10 DEF Next, Webhook, Confirmation

\* The inbox tells the truth of any number of events: none is closed as PROCESSED or
\* IGNORED, by a first handler or by one that took over, before its payment is recorded.
THEOREM TerminalMeansPaidAlways == Spec => []TerminalMeansPaid
<1>1. Init => EventInv
  BY DEF Init, EventInv, TerminalMeansPaid, ClosingMeansPaid, FINAL_STATUSES
<1>2. TypeOK /\ CaptureInv /\ EventInv /\ [Next]_vars => EventInv'
  BY EventStep
<1>3. EventInv => TerminalMeansPaid
  BY DEF EventInv
<1> QED
  BY TypeCorrect, CaptureCorrect, <1>1, <1>2, <1>3, PTL DEF Spec

-----------------------------------------------------------------------------
(***************************************************************************)
(* The lock on a provider order, from the step that finds it unpaid until  *)
(* the commit that pays it: nobody pays it in between.                     *)
(***************************************************************************)
ProviderOrderLocks ==
  \A s, t \in Session :
    /\ handler[s] \in HoldsProviderOrder /\ handler[t] \in HoldsProviderOrder
    /\ Owner[s] = Owner[t]
    => s = t

HeldAreUnpaid == \A s \in Session : handler[s] \in HoldsProviderOrder => Owner[s] \notin Paid

LockInv == ProviderOrderLocks /\ HeldAreUnpaid

\* A handler takes the lock in Validate only.
LEMMA OnlyValidateLocks ==
  ASSUME TypeOK, [Next]_vars, ~ \E s \in Session : Validate(s),
         NEW s \in Session, handler'[s] \in HoldsProviderOrder
  PROVE  handler[s] \in HoldsProviderOrder
<1> USE DEF TypeOK, HoldsProviderOrder, inboxVars
<1>1. CASE UNCHANGED handler
  BY <1>1
<1>2. CASE \E t \in Session : Claim(t) \/ LoadSession(t) \/ LockOrder(t) \/ Settle(t)
                              \/ Commit(t) \/ StatementFails(t) \/ HandlerCrash(t)
  BY <1>2 DEF Claim, LoadSession, LockOrder, Settle, Commit, StatementFails, HandlerCrash
<1>3. CASE \E t \in Session : MarkDone(t) \/ MarkFailed(t)
  BY <1>3 DEF MarkDone, MarkFailed, Mark
<1>4. ASSUME NEW t \in Session, Preparation(t) PROVE UNCHANGED handler
  BY <1>4, PreparationKeeps
<1>5. ASSUME \/ \E t \in Session : Pay(t) \/ AcknowledgeUnclaimed(t) \/ WindowElapses(t)
             \/ \E o \in Order : Lapse(o)
             \/ \E c \in Canceller, o \in Order : DecideCancel(c, o) \/ CommitCancel(c, o)
             \/ FindLapsed \/ ExpireReservations
             \/ \E po \in ProviderOrder, role \in Role \ {"RUNNER"}, st \in ProviderOrderStatus :
                  UpdateProviderOrderStatus(po, role, st)
             \/ \E po \in ProviderOrder : EvaluateReady(po) \/ PromoteOrder(po)
             \/ UNCHANGED vars
      PROVE  UNCHANGED handler
  BY <1>5 DEF Pay, AcknowledgeUnclaimed, WindowElapses, Lapse, DecideCancel, CommitCancel,
     FindLapsed, ExpireReservations, UpdateProviderOrderStatus, EvaluateReady,
     PromoteOrder, vars
<1> QED
  BY <1>1, <1>2, <1>3, <1>4, <1>5 DEF Next, Webhook, Confirmation

LEMMA LockStep == TypeOK /\ LockInv /\ [Next]_vars => LockInv'
<1> SUFFICES ASSUME TypeOK, LockInv, [Next]_vars PROVE LockInv'
  OBVIOUS
<1> USE ConstantsAssumption DEF TypeOK, LockInv, Paid
<1>1. ASSUME NEW s \in Session, Validate(s) PROVE LockInv'
  <2>1. /\ \A t \in Session : t # s => handler'[t] = handler[t]
        /\ paymentStatus' = paymentStatus
        /\ \A t \in Session : Owner[t] = Owner[s] => handler[t] \notin HoldsProviderOrder
        /\ handler'[s] \in HoldsProviderOrder => ~AlreadyPaid(s)
    BY <1>1 DEF Validate, ProviderOrderFree, SessionsOf, HoldsProviderOrder, orderVars
  <2>2. ~AlreadyPaid(s) => Owner[s] \notin Paid
    BY DEF AlreadyPaid
  <2> QED
    BY <2>1, <2>2 DEF ProviderOrderLocks, HeldAreUnpaid
<1>2. ASSUME NEW s \in Session, Commit(s) PROVE LockInv'
  <2>1. /\ handler[s] \in HoldsProviderOrder /\ handler'[s] \notin HoldsProviderOrder
        /\ \A t \in Session : t # s => handler'[t] = handler[t]
        /\ paymentStatus' = [paymentStatus EXCEPT ![Owner[s]] = "PAID"]
    BY <1>2 DEF Commit, HoldsProviderOrder
  <2> QED
    BY <2>1 DEF ProviderOrderLocks, HeldAreUnpaid
<1>3. ASSUME ~ \E s \in Session : Validate(s) \/ Commit(s) PROVE LockInv'
  BY <1>3, OnlyValidateLocks, OnlyCommitPays DEF ProviderOrderLocks, HeldAreUnpaid
<1> QED
  BY <1>1, <1>2, <1>3

LEMMA LockCorrect == Spec => []LockInv
<1>1. Init => LockInv
  BY DEF Init, LockInv, ProviderOrderLocks, HeldAreUnpaid, HoldsProviderOrder
<1> QED
  BY TypeCorrect, <1>1, LockStep, PTL DEF Spec

-----------------------------------------------------------------------------
(***************************************************************************)
(* Sales and cancellations. Two cancellations of one order that overlap    *)
(* return the same units twice, so that what follows supposes that they do *)
(* not; those of different orders may.                                     *)
(***************************************************************************)
SerialCancellations ==
  \A c, d \in Canceller :
    cancel[c].order = cancel[d].order /\ cancel[c].order # NoRef => c = d

RestoredIsCancelled ==
  \A po \in restored :
    /\ po \in Paid /\ poStatus[po] = "CANCELLED"
    /\ orderStatus[OrderOf[po]] \in {"READY_FOR_ASSIGNMENT", "CANCELLED"}

PaidPlaces == \A po \in Paid : poStatus[po] \in {"PAID", "CANCELLED"}

OrderPlaces ==
  \A o \in Order :
    /\ orderStatus[o] \in {"PENDING", "CONFIRMED", "READY_FOR_ASSIGNMENT", "CANCELLED"}
    /\ orderStatus[o] = "READY_FOR_ASSIGNMENT" => SubOrders(o) \subseteq Paid

PromotesSold ==
  \A po \in ProviderOrder : evaluation[po] = "ready" =>
    SubOrders(OrderOf[po]) \subseteq Paid /\ orderStatus[OrderOf[po]] # "PENDING"

\* A cancellation that is going to return units decided on an order all of which was
\* sold, and none of what it returns has come back since.
ReturnsSold(c) ==
  LET o == cancel[c].order IN
  /\ o # NoRef
  /\ cancel[c].toCancel \subseteq Paid \ restored
  /\ orderStatus[o] # "PENDING"
  /\ orderStatus[o] = "CONFIRMED" => cancel[c].toCancel = SubOrders(o)

CancelsSold ==
  \A c \in Canceller :
    /\ cancel[c].order # NoRef => orderStatus[cancel[c].order] # "CANCELLED"
    /\ cancel[c].restore => ReturnsSold(c)

StatusInv ==
  RestoredIsCancelled /\ PaidPlaces /\ OrderPlaces /\ PromotesSold /\ CancelsSold

\* What every step does but a commit, a cancellation and an evaluation.
SalesKept ==
  /\ \A po \in ProviderOrder : paymentStatus'[po] = "PAID" <=> paymentStatus[po] = "PAID"
  /\ \A po \in Paid :
       poStatus[po] \in {"PAID", "CANCELLED"} => poStatus'[po] = poStatus[po]
  /\ \A po \in ProviderOrder : evaluation'[po] = "ready" => evaluation[po] = "ready"
  /\ UNCHANGED <<orderStatus, cancel, restored, stock, supply>>

LEMMA PreparationKeepsSales ==
  ASSUME TypeOK, NEW s \in Session, Preparation(s)
  PROVE  SalesKept
<1> USE ConstantsAssumption
    DEF TypeOK, SalesKept, Paid, orderVars, stockVars, otherVars
<1>1. CASE ReuseSession(Owner[s], s)
  BY <1>1 DEF ReuseSession, CanPrepare, FromPending
<1>2. CASE CreateSession(Owner[s], s)
  BY <1>2 DEF CreateSession, CanPrepare, FromPending
<1>3. CASE ResetProviderOrder(s)
  BY <1>3 DEF ResetProviderOrder, AwaitsPayment
<1>4. CASE Activate(s)
  BY <1>4 DEF Activate, CanActivate
<1>5. CASE IntentCreated(s) \/ IntentRefused(s) \/ RejectActivation(s) \/ FailSession(s)
           \/ ActivationCrash(s)
  BY <1>5 DEF IntentCreated, IntentRefused, RejectActivation, FailSession, ActivationCrash
<1> QED
  BY <1>1, <1>2, <1>3, <1>4, <1>5 DEF Preparation

LEMMA OthersKeepSales ==
  ASSUME TypeOK, PaidPlaces, [Next]_vars,
         ~ \E s \in Session : Preparation(s) \/ Commit(s),
         ~ \E c \in Canceller, o \in Order : DecideCancel(c, o) \/ CommitCancel(c, o),
         ~ \E po \in ProviderOrder : EvaluateReady(po) \/ PromoteOrder(po)
  PROVE  SalesKept
<1> USE DEF TypeOK, SalesKept, Paid, orderVars, stockVars, otherVars
<1>1. CASE \E s \in Session :
             \/ Pay(s) \/ Claim(s) \/ AcknowledgeUnclaimed(s) \/ LoadSession(s) \/ Validate(s)
             \/ LockOrder(s) \/ Settle(s) \/ StatementFails(s) \/ HandlerCrash(s)
             \/ WindowElapses(s)
  BY <1>1 DEF Pay, Claim, AcknowledgeUnclaimed, LoadSession, Validate, LockOrder, Settle,
     StatementFails, HandlerCrash, WindowElapses
<1>2. CASE \E s \in Session : MarkDone(s) \/ MarkFailed(s)
  BY <1>2 DEF MarkDone, MarkFailed, Mark
<1>3. CASE (\E o \in Order : Lapse(o)) \/ FindLapsed \/ UNCHANGED vars
  BY <1>3 DEF Lapse, FindLapsed, vars
<1>4. CASE ExpireReservations
  BY <1>4 DEF ExpireReservations, eligibleStatuses
<1>5. ASSUME NEW po \in ProviderOrder, NEW role \in Role, NEW st \in ProviderOrderStatus,
             UpdateProviderOrderStatus(po, role, st)
      PROVE  SalesKept
  <2>1. poStatus[po] \notin {"PAID", "CANCELLED"}
    BY <1>5 DEF UpdateProviderOrderStatus, canTransitionProviderOrder,
       ProviderOrderTransitions
  <2>2. st \in {"READY_FOR_PICKUP"} \cup Dropped => evaluation'[po] = "due"
    BY <1>5 DEF UpdateProviderOrderStatus
  <2> QED
    BY <1>5, <2>1, <2>2 DEF UpdateProviderOrderStatus
<1> QED
  BY <1>1, <1>2, <1>3, <1>4, <1>5 DEF Next, Webhook, Confirmation

LEMMA StatusKept ==
  ASSUME TypeOK, StatusInv, SalesKept
  PROVE  StatusInv'
<1> USE ConstantsAssumption DEF SalesKept, StatusInv, Paid
<1>1. RestoredIsCancelled'
  BY DEF RestoredIsCancelled
<1>2. PaidPlaces'
  BY DEF PaidPlaces
<1>3. OrderPlaces'
  BY DEF OrderPlaces, SubOrders
<1>4. PromotesSold'
  BY DEF PromotesSold, SubOrders
<1>5. CancelsSold'
  BY DEF CancelsSold, ReturnsSold, SubOrders
<1> QED
  BY <1>1, <1>2, <1>3, <1>4, <1>5

\* A settlement sells what was not sold before, from stock that has it.
LEMMA CommitSells ==
  ASSUME TypeInv, ConfirmInv, LockInv, StatusInv, NEW s \in Session, Commit(s)
  PROVE  StatusInv' /\ Settlement!Sell(Owner[s])
<1> DEFINE po == Owner[s]
           o == OrderOf[po]
<1> USE ConstantsAssumption DEF TypeInv, TypeOK, StatusInv
<1>1. /\ po \in ProviderOrder /\ o \in Order /\ handler[s] = "settled"
      /\ paymentStatus' = [paymentStatus EXCEPT ![po] = "PAID"]
      /\ poStatus' = [poStatus EXCEPT ![po] = "PAID"]
      /\ orderStatus' = [orderStatus EXCEPT ![o] =
           IF allPaid[s] /\ orderStatus[o] = "PENDING" THEN "CONFIRMED" ELSE orderStatus[o]]
      /\ stock' = [p \in Product |-> stock[p] - Units[{po}][p]]
      /\ UNCHANGED <<restored, cancel, evaluation>>
  BY DEF Commit, Confirmed, otherVars
<1>2. po \notin Paid /\ Paid' = Paid \cup {po}
  BY <1>1 DEF LockInv, HeldAreUnpaid, HoldsProviderOrder, Paid
<1>3. \A q \in Order : orderStatus'[q] = orderStatus[q]
                       \/ (orderStatus[q] = "PENDING" /\ orderStatus'[q] = "CONFIRMED")
  BY <1>1
<1>4. RestoredIsCancelled'
  BY <1>1, <1>2, <1>3 DEF RestoredIsCancelled
<1>5. PaidPlaces'
  BY <1>1, <1>2 DEF PaidPlaces
<1>6. OrderPlaces'
  BY <1>2, <1>3 DEF OrderPlaces, SubOrders
<1>7. PromotesSold'
  BY <1>1, <1>2, <1>3 DEF PromotesSold, SubOrders
<1>8. CancelsSold'
  <2>1. \A c \in Canceller : cancel[c].order \in Order \cup {NoRef}
    BY DEF CancelRequest
  <2> QED
    BY <1>1, <1>2, <1>3, <2>1 DEF CancelsSold, ReturnsSold, SubOrders
<1>9. Settlement!Sell(po)
  <2>1. \A p \in Product : stock[p] >= Units[{po}][p]
    BY <1>1 DEF SettledInStock, InStock
  <2>2. allPaid[s] <=> SubOrders(o) \subseteq Paid'
    BY <1>1, <1>2 DEF ConfirmInv, SeesSiblings, SiblingsPaid, Siblings, SubOrders, Paid
  <2> QED
    BY <1>1, <1>2, <2>1, <2>2 DEF Settlement!Sell, Settlement!SubOrders, SubOrders
<1> QED
  BY <1>4, <1>5, <1>6, <1>7, <1>8, <1>9

\* A cancellation decides to return units only of an order that was sold altogether,
\* and leaves out what an earlier cancellation returned.
LEMMA DecideReturnsSold ==
  ASSUME TypeOK, ConfirmInv, StatusInv, NEW c \in Canceller, NEW o \in Order,
         DecideCancel(c, o)
  PROVE  StatusInv' /\ UNCHANGED <<orderStatus, Paid, restored, stock>>
<1> USE ConstantsAssumption DEF TypeOK, StatusInv
<1> DEFINE found == {po \in SubOrders(o) : poStatus[po] \notin Dropped}
<1>1. /\ UNCHANGED <<orderStatus, poStatus, paymentStatus, restored, stock, evaluation>>
      /\ cancel' = [cancel EXCEPT ![c] = [order |-> o, toCancel |-> found,
                                          restore |-> RestoresInventory(o)]]
      /\ orderStatus[o] # "CANCELLED"
  BY DEF DecideCancel, orderVars, stockVars, MayCancel, canTransitionOrder, OrderTransitions
<1>2. Paid' = Paid
  BY <1>1 DEF Paid
<1>3. ASSUME RestoresInventory(o)
      PROVE  /\ found \subseteq Paid \ restored
             /\ orderStatus[o] = "CONFIRMED" => found = SubOrders(o)
  <2>1. orderStatus[o] \in {"CONFIRMED", "READY_FOR_ASSIGNMENT"}
    BY <1>3 DEF RestoresInventory, OrderPlaces
  <2>2. SubOrders(o) \subseteq Paid
    BY <2>1 DEF OrderPlaces, ConfirmInv, ConfirmedMeansAllPaid
  <2>3. found \cap restored = {}
    BY DEF RestoredIsCancelled, Dropped
  <2>4. orderStatus[o] = "CONFIRMED" => found = SubOrders(o)
    BY DEF ConfirmInv, ConfirmedMeansAllPaid, Dropped
  <2> QED
    BY <2>2, <2>3, <2>4
<1>4. CancelsSold'
  <2> SUFFICES ASSUME NEW d \in Canceller
               PROVE  /\ cancel'[d].order # NoRef =>
                           orderStatus'[cancel'[d].order] # "CANCELLED"
                      /\ cancel'[d].restore => ReturnsSold(d)'
    BY DEF CancelsSold
  <2>1. CASE d = c
    <3>1. /\ cancel'[c].order = o /\ cancel'[c].toCancel = found
          /\ cancel'[c].restore <=> RestoresInventory(o)
      BY <1>1
    <3>2. RestoresInventory(o) => orderStatus[o] # "PENDING"
      BY DEF RestoresInventory
    <3> QED
      BY <1>1, <1>2, <1>3, <2>1, <3>1, <3>2 DEF ReturnsSold, SubOrders
  <2>2. CASE d # c
    <3>1. cancel'[d] = cancel[d]
      BY <1>1, <2>2
    <3> QED
      BY <1>1, <1>2, <3>1 DEF CancelsSold, ReturnsSold, SubOrders
  <2> QED
    BY <2>1, <2>2
<1> QED
  BY <1>1, <1>2, <1>4 DEF RestoredIsCancelled, PaidPlaces, OrderPlaces, PromotesSold, SubOrders

\* What a cancellation of an order returns was sold and is returned once, as long as no
\* other cancellation of the order is under way.
LEMMA CommitReturnsSold ==
  ASSUME TypeOK, ConfirmInv, StatusInv, SerialCancellations,
         NEW c \in Canceller, NEW o \in Order, CommitCancel(c, o)
  PROVE  LET back == IF cancel[c].restore THEN cancel[c].toCancel ELSE {}
         IN  StatusInv' /\ back \subseteq SubOrders(o) /\ Settlement!Cancel(o, back)
<1> USE ConstantsAssumption DEF TypeOK, StatusInv
<1> DEFINE back == IF cancel[c].restore THEN cancel[c].toCancel ELSE {}
<1>1. /\ cancel[c].order = o
      /\ stock' = [p \in Product |-> stock[p] + Units[back][p]]
      /\ restored' = restored \cup back
      /\ poStatus' = [po \in ProviderOrder |->
                        IF po \in cancel[c].toCancel THEN "CANCELLED" ELSE poStatus[po]]
      /\ orderStatus' = [orderStatus EXCEPT ![o] = "CANCELLED"]
      /\ cancel' = [cancel EXCEPT ![c] = NoCancel]
      /\ UNCHANGED <<paymentStatus, evaluation>>
  BY DEF CommitCancel
<1>2. Paid' = Paid
  BY <1>1 DEF Paid
<1>3. cancel[c].toCancel \subseteq SubOrders(o)
  BY <1>1 DEF ConfirmInv, CancelsOwn, CancelRequest, SubOrders
<1>4. /\ back \subseteq (SubOrders(o) \cap Paid) \ restored
      /\ back # {} => ReturnsSold(c) /\ back = cancel[c].toCancel
  BY <1>3 DEF CancelsSold, ReturnsSold
<1>5. orderStatus[o] # "CANCELLED"
  BY <1>1 DEF CancelsSold
<1>6. Settlement!Cancel(o, back)
  <2>1. back # {} => orderStatus[o] \in {"CONFIRMED", "READY_FOR_ASSIGNMENT"}
    BY <1>1, <1>4, <1>5 DEF ReturnsSold, OrderPlaces
  <2>2. orderStatus[o] = "CONFIRMED" => back \in {{}, SubOrders(o)}
    BY <1>1, <1>4 DEF ReturnsSold
  <2> QED
    BY <1>1, <1>2, <1>4, <1>5, <2>1, <2>2
    DEF Settlement!Cancel, Settlement!SubOrders, SubOrders
<1>7. RestoredIsCancelled'
  <2>1. \A po \in back : OrderOf[po] = o /\ po \in Paid /\ poStatus'[po] = "CANCELLED"
    BY <1>1, <1>4 DEF SubOrders
  <2>2. \A po \in restored : /\ po \in Paid /\ po \in ProviderOrder
                            /\ poStatus'[po] = "CANCELLED"
                            /\ orderStatus'[OrderOf[po]] \in {"READY_FOR_ASSIGNMENT", "CANCELLED"}
    BY <1>1 DEF RestoredIsCancelled, Paid
  <2>3. \A po \in back : orderStatus'[OrderOf[po]] = "CANCELLED"
    BY <1>1, <2>1
  <2> QED
    BY <1>1, <1>2, <2>1, <2>2, <2>3 DEF RestoredIsCancelled
<1>8. PaidPlaces'
  BY <1>1, <1>2 DEF PaidPlaces, Paid
<1>9. OrderPlaces' /\ PromotesSold'
  BY <1>1, <1>2 DEF OrderPlaces, PromotesSold, SubOrders
<1>10. CancelsSold'
  <2> SUFFICES ASSUME NEW d \in Canceller
               PROVE  /\ cancel'[d].order # NoRef =>
                           orderStatus'[cancel'[d].order] # "CANCELLED"
                      /\ cancel'[d].restore => ReturnsSold(d)'
    BY DEF CancelsSold
  <2>1. CASE d = c
    BY <1>1, <2>1 DEF NoCancel
  <2>2. CASE d # c
    <3>1. cancel'[d] = cancel[d] /\ cancel[d].order # o /\ cancel[d].order \in Order \cup {NoRef}
      BY <1>1, <2>2 DEF SerialCancellations, CancelRequest
    <3>2. cancel[d].toCancel \cap back = {}
      BY <1>4, <3>1 DEF ConfirmInv, CancelsOwn, SubOrders
    <3> QED
      BY <1>1, <1>2, <3>1, <3>2 DEF CancelsSold, ReturnsSold, SubOrders
  <2> QED
    BY <2>1, <2>2
<1> QED
  BY <1>4, <1>6, <1>7, <1>8, <1>9, <1>10

\* Only an order that is sold altogether is found ready, and it is promoted as such even
\* if it was cancelled in between.
LEMMA EvaluationPromotesSold ==
  ASSUME TypeOK, ConfirmInv, StatusInv, NEW po \in ProviderOrder,
         EvaluateReady(po) \/ PromoteOrder(po)
  PROVE  /\ StatusInv'
         /\ \/ UNCHANGED <<orderStatus, Paid, restored, stock>>
            \/ Settlement!Promote(OrderOf[po])
<1> USE ConstantsAssumption DEF TypeOK, StatusInv
<1> DEFINE o == OrderOf[po]
<1>1. o \in Order /\ UNCHANGED <<poStatus, paymentStatus, Paid, restored, stock, cancel>>
  BY DEF EvaluateReady, PromoteOrder, orderVars, stockVars, Paid
<1>2. CASE EvaluateReady(po)
  <2>1. /\ orderStatus' = orderStatus
        /\ \A q \in ProviderOrder : q # po => evaluation'[q] = evaluation[q]
        /\ evaluation'[po] = "ready" => orderStatus[o] = "CONFIRMED"
    BY <1>2 DEF EvaluateReady, ReadyForAssignment, orderVars
  <2>2. orderStatus[o] = "CONFIRMED" => SubOrders(o) \subseteq Paid
    BY <1>1 DEF ConfirmInv, ConfirmedMeansAllPaid
  <2>3. PromotesSold'
    BY <1>1, <2>1, <2>2 DEF PromotesSold, SubOrders
  <2> QED
    BY <1>1, <2>1, <2>3 DEF RestoredIsCancelled, PaidPlaces, OrderPlaces, CancelsSold,
       ReturnsSold, SubOrders
<1>3. CASE PromoteOrder(po)
  <2>1. /\ orderStatus' = [orderStatus EXCEPT ![o] = "READY_FOR_ASSIGNMENT"]
        /\ evaluation[po] = "ready"
        /\ \A q \in ProviderOrder : evaluation'[q] = "ready" => evaluation[q] = "ready"
    BY <1>3 DEF PromoteOrder
  <2>2. SubOrders(o) \subseteq Paid /\ orderStatus[o] # "PENDING"
    BY <2>1 DEF PromotesSold
  <2>3. Settlement!Promote(o)
    BY <1>1, <2>1, <2>2 DEF Settlement!Promote, Settlement!SubOrders, SubOrders
  <2>4. RestoredIsCancelled' /\ PaidPlaces' /\ OrderPlaces' /\ PromotesSold'
    BY <1>1, <2>1, <2>2 DEF RestoredIsCancelled, PaidPlaces, OrderPlaces, PromotesSold,
       SubOrders
  <2>5. CancelsSold'
    <3>1. \A c \in Canceller : cancel[c].order \in Order \cup {NoRef}
      BY DEF CancelRequest
    <3> QED
      BY <1>1, <2>1, <3>1 DEF CancelsSold, ReturnsSold, SubOrders
  <2> QED
    BY <2>3, <2>4, <2>5
<1> QED
  BY <1>2, <1>3

\* Every step keeps the invariant, and is a step of OrderSettlement or none.
LEMMA SettlementStep ==
  ASSUME TypeInv, ConfirmInv, LockInv, StatusInv, SerialCancellations, [Next]_vars
  PROVE  StatusInv' /\ [Settlement!Next]_(Settlement!vars)
<1> USE ConstantsAssumption
<1>1. TypeOK
  BY DEF TypeInv
<1>2. ASSUME NEW s \in Session, Commit(s)
      PROVE  StatusInv' /\ [Settlement!Next]_(Settlement!vars)
  BY <1>2, CommitSells DEF Settlement!Next
<1>3. ASSUME NEW c \in Canceller, NEW o \in Order, DecideCancel(c, o)
      PROVE  StatusInv' /\ [Settlement!Next]_(Settlement!vars)
  BY <1>1, <1>3, DecideReturnsSold DEF Settlement!vars
<1>4. ASSUME NEW c \in Canceller, NEW o \in Order, CommitCancel(c, o)
      PROVE  StatusInv' /\ [Settlement!Next]_(Settlement!vars)
  <2> DEFINE back == IF cancel[c].restore THEN cancel[c].toCancel ELSE {}
  <2>1. StatusInv' /\ back \subseteq SubOrders(o) /\ Settlement!Cancel(o, back)
    BY <1>1, <1>4, CommitReturnsSold
  <2>2. back \in SUBSET ProviderOrder
    BY <2>1 DEF SubOrders
  <2> QED
    BY <2>1, <2>2 DEF Settlement!Next
<1>5. ASSUME NEW po \in ProviderOrder, EvaluateReady(po) \/ PromoteOrder(po)
      PROVE  StatusInv' /\ [Settlement!Next]_(Settlement!vars)
  <2>1. OrderOf[po] \in Order
    OBVIOUS
  <2> QED
    BY <1>1, <1>5, <2>1, EvaluationPromotesSold DEF Settlement!Next, Settlement!vars
<1>6. ASSUME SalesKept PROVE StatusInv' /\ [Settlement!Next]_(Settlement!vars)
  <2>1. Paid' = Paid /\ UNCHANGED <<orderStatus, restored, stock>>
    BY <1>6 DEF SalesKept, Paid
  <2> QED
    BY <1>1, <1>6, <2>1, StatusKept DEF Settlement!vars
<1>7. ASSUME NEW s \in Session, Preparation(s) PROVE SalesKept
  BY <1>1, <1>7, PreparationKeepsSales
<1>8. ASSUME ~ \E s \in Session : Preparation(s) \/ Commit(s),
             ~ \E c \in Canceller, o \in Order : DecideCancel(c, o) \/ CommitCancel(c, o),
             ~ \E po \in ProviderOrder : EvaluateReady(po) \/ PromoteOrder(po)
      PROVE  SalesKept
  BY <1>1, <1>8, OthersKeepSales DEF StatusInv
<1> QED
  BY <1>2, <1>3, <1>4, <1>5, <1>6, <1>7, <1>8

LEMMA TypeInvCorrect == Spec => []TypeInv
<1>1. TypeInv /\ [Next]_vars => TypeInv'
  BY TypeStep, StockStep DEF TypeInv
<1> QED
  BY TypeInit, <1>1, PTL DEF Spec

LEMMA StatusCorrect == Spec /\ []SerialCancellations => []StatusInv
<1>1. Init => StatusInv
  <2> SUFFICES ASSUME Init PROVE StatusInv
    OBVIOUS
  <2> USE ConstantsAssumption DEF Init, NoCancel
  <2>1. RestoredIsCancelled /\ PaidPlaces /\ OrderPlaces
    BY DEF RestoredIsCancelled, PaidPlaces, OrderPlaces, Paid
  <2>2. PromotesSold /\ CancelsSold
    BY DEF PromotesSold, CancelsSold
  <2> QED
    BY <2>1, <2>2 DEF StatusInv
<1>2. TypeInv /\ ConfirmInv /\ LockInv /\ StatusInv /\ SerialCancellations /\ [Next]_vars
        => StatusInv'
  BY SettlementStep
<1> QED
  BY TypeInvCorrect, ConfirmCorrect, LockCorrect, <1>1, <1>2, PTL DEF Spec

\* Any number of sessions, webhooks, sweeps and cancellations implement OrderSettlement:
\* an observer of the orders, their payment and the stock sees atomic sales, returns of
\* what was sold, and promotions, as long as cancellations of one order do not overlap.
THEOREM SettlementImplemented == Spec /\ []SerialCancellations => ImplementsSettlement
<1>1. Init => Settlement!Init
  BY ConstantsAssumption DEF Init, Settlement!Init, Paid
<1>2. TypeInv /\ ConfirmInv /\ LockInv /\ StatusInv /\ SerialCancellations /\ [Next]_vars
        => [Settlement!Next]_(Settlement!vars)
  BY SettlementStep
<1> QED
  BY TypeInvCorrect, ConfirmCorrect, LockCorrect, StatusCorrect, <1>1, <1>2, PTL
  DEF Spec, ImplementsSettlement, Settlement!Spec

-----------------------------------------------------------------------------
(***************************************************************************)
(* Units, which add up along the sales and the returns of OrderSettlement. *)
(***************************************************************************)

\* Disjoint sets of provider orders ask for the sum.
LEMMA UnitsOfBoth ==
  ASSUME NEW A \in SUBSET ProviderOrder, NEW B \in SUBSET ProviderOrder, A \cap B = {},
         NEW C, C = A \cup B, NEW p \in Product
  PROVE  Units[C][p] = Units[A][p] + Units[B][p]
  BY ConstantsAssumption

\* The balance of a product, as numbers: before and after units are sold and returned.
LEMMA Balance ==
  ASSUME NEW before \in Nat, NEW sold \in Nat, NEW returned \in Nat, NEW initial \in Nat,
         before + sold = initial + returned, NEW n \in Nat, NEW after
  PROVE  /\ after = before - n => after + (sold + n) = initial + returned
         /\ after = before + n => after + sold = initial + (returned + n)
  OBVIOUS

LEMMA UnitsStep ==
  ASSUME TypeInv, TypeInv', UnitsConserved, supply' = supply,
         [Settlement!Next]_(Settlement!vars)
  PROVE  UnitsConserved'
<1>1. /\ Paid \in SUBSET ProviderOrder /\ restored \in SUBSET ProviderOrder
      /\ restored \subseteq Paid
      /\ \A p \in Product : /\ stock[p] \in Nat /\ supply[p] \in Nat
                            /\ stock[p] + Units[Paid][p] = supply[p] + Units[restored][p]
  BY DEF UnitsConserved, Paid, TypeInv, TypeOK
<1>2. \A p \in Product : Units[Paid][p] \in Nat /\ Units[restored][p] \in Nat
  BY <1>1, UnitsNat
<1>3. ASSUME NEW po \in ProviderOrder, Settlement!Sell(po) PROVE UnitsConserved'
  <2> DEFINE new == {po}
  <2>1. /\ restored' = restored
        /\ stock' = [p \in Product |-> stock[p] - Units[new][p]]
        /\ new \in SUBSET ProviderOrder /\ Paid \cap new = {} /\ Paid' = Paid \cup new
    BY <1>3 DEF Settlement!Sell
  <2> HIDE DEF new
  <2>2. ASSUME NEW p \in Product
        PROVE  stock'[p] + Units[Paid'][p] = supply'[p] + Units[restored'][p]
    <3>1. Units[Paid'][p] = Units[Paid][p] + Units[new][p]
      BY <1>1, <2>1, UnitsOfBoth
    <3>2. Units[new][p] \in Nat
      BY <2>1, UnitsNat
    <3>3. stock'[p] = stock[p] - Units[new][p] /\ supply'[p] = supply[p]
          /\ Units[restored'][p] = Units[restored][p]
      BY <2>1
    <3> QED
      BY <1>1, <1>2, <3>1, <3>2, <3>3, Balance
  <2> QED
    BY <1>1, <2>1, <2>2 DEF UnitsConserved
<1>4. ASSUME NEW o \in Order, NEW back \in SUBSET ProviderOrder, Settlement!Cancel(o, back)
      PROVE  UnitsConserved'
  <2>1. /\ back \subseteq Paid /\ restored \cap back = {}
        /\ restored' = restored \cup back /\ Paid' = Paid
        /\ stock' = [p \in Product |-> stock[p] + Units[back][p]]
    BY <1>4 DEF Settlement!Cancel
  <2>2. ASSUME NEW p \in Product
        PROVE  stock'[p] + Units[Paid'][p] = supply'[p] + Units[restored'][p]
    <3>1. Units[restored'][p] = Units[restored][p] + Units[back][p]
      BY <1>1, <2>1, UnitsOfBoth
    <3>2. Units[back][p] \in Nat
      BY UnitsNat
    <3>3. stock'[p] = stock[p] + Units[back][p] /\ supply'[p] = supply[p]
          /\ Units[Paid'][p] = Units[Paid][p]
      BY <2>1
    <3> QED
      BY <1>1, <1>2, <3>1, <3>2, <3>3, Balance
  <2> QED
    BY <1>1, <2>1, <2>2 DEF UnitsConserved
<1>5. CASE \/ \E o \in Order : Settlement!Promote(o)
           \/ UNCHANGED Settlement!vars
  <2>1. UNCHANGED <<Paid, restored, stock>>
    BY <1>5 DEF Settlement!Promote, Settlement!vars
  <2> QED
    BY <1>1, <2>1 DEF UnitsConserved
<1> QED
  BY <1>3, <1>4, <1>5 DEF Settlement!Next

\* The initial stock is never written.
LEMMA SupplyKept ==
  ASSUME [Next]_vars PROVE supply' = supply
<1> USE DEF stockVars
<1>1. CASE \E s \in Session : Preparation(s) \/ Pay(s)
  BY <1>1 DEF Preparation, ReuseSession, CreateSession, IntentCreated, IntentRefused,
     ResetProviderOrder, Activate, RejectActivation, FailSession, ActivationCrash, Pay
<1>2. CASE \E s \in Session : Webhook(s)
  BY <1>2 DEF Webhook, Claim, AcknowledgeUnclaimed, Confirmation, LoadSession, Validate,
     LockOrder, Settle, Commit, MarkDone, MarkFailed, Mark, StatementFails, HandlerCrash,
     WindowElapses
<1>3. CASE \/ \E o \in Order : Lapse(o)
           \/ \E c \in Canceller, o \in Order : DecideCancel(c, o) \/ CommitCancel(c, o)
           \/ FindLapsed \/ ExpireReservations
           \/ \E po \in ProviderOrder, role \in Role \ {"RUNNER"}, st \in ProviderOrderStatus :
                UpdateProviderOrderStatus(po, role, st)
           \/ \E po \in ProviderOrder : EvaluateReady(po) \/ PromoteOrder(po)
           \/ UNCHANGED vars
  BY <1>3 DEF Lapse, DecideCancel, CommitCancel, FindLapsed, ExpireReservations,
     UpdateProviderOrderStatus, EvaluateReady, PromoteOrder, vars
<1> QED
  BY <1>1, <1>2, <1>3 DEF Next

\* No unit is lost or made: what left the stock was sold, and what came back had been
\* sold, once, however settlements of several orders and cancellations interleave.
THEOREM UnitsAreConserved == Spec /\ []SerialCancellations => []UnitsConserved
<1>1. Init => UnitsConserved
  <2> SUFFICES ASSUME Init PROVE UnitsConserved
    OBVIOUS
  <2>1. Paid = {} /\ restored = {} /\ stock = supply
    BY DEF Init, Paid
  <2> QED
    BY <2>1 DEF UnitsConserved
<1>2. TypeInv /\ TypeInv' /\ ConfirmInv /\ LockInv /\ StatusInv /\ SerialCancellations
        /\ UnitsConserved /\ [Next]_vars => UnitsConserved'
  BY SettlementStep, SupplyKept, UnitsStep
<1> QED
  BY TypeInvCorrect, ConfirmCorrect, LockCorrect, StatusCorrect, <1>1, <1>2, PTL DEF Spec

\* Where cancellations do overlap, units may come back twice, but none gets lost: a
\* settlement takes from the stock what it sells and nothing else does.
NoUnitIsLost ==
  \A p \in Product : supply[p] + Units[restored][p] <= stock[p] + Units[Paid][p]

\* Only settlements and cancellations touch the stock.
LEMMA StockKept ==
  ASSUME [Next]_vars, ~ \E s \in Session : Commit(s),
         ~ \E c \in Canceller, o \in Order : CommitCancel(c, o)
  PROVE  UNCHANGED <<stock, restored>>
<1> USE DEF stockVars
<1>1. CASE \E s \in Session : Preparation(s) \/ Pay(s)
  BY <1>1 DEF Preparation, ReuseSession, CreateSession, IntentCreated, IntentRefused,
     ResetProviderOrder, Activate, RejectActivation, FailSession, ActivationCrash, Pay
<1>2. CASE \E s \in Session : Webhook(s)
  BY <1>2 DEF Webhook, Claim, AcknowledgeUnclaimed, Confirmation, LoadSession, Validate,
     LockOrder, Settle, MarkDone, MarkFailed, Mark, StatementFails, HandlerCrash,
     WindowElapses
<1>3. CASE \/ \E o \in Order : Lapse(o)
           \/ \E c \in Canceller, o \in Order : DecideCancel(c, o)
           \/ FindLapsed \/ ExpireReservations
           \/ \E po \in ProviderOrder, role \in Role \ {"RUNNER"}, st \in ProviderOrderStatus :
                UpdateProviderOrderStatus(po, role, st)
           \/ \E po \in ProviderOrder : EvaluateReady(po) \/ PromoteOrder(po)
           \/ UNCHANGED vars
  BY <1>3 DEF Lapse, DecideCancel, FindLapsed, ExpireReservations,
     UpdateProviderOrderStatus, EvaluateReady, PromoteOrder, vars
<1> QED
  BY <1>1, <1>2, <1>3 DEF Next

\* A union of sets of provider orders asks for no more than the two of them.
LEMMA UnitsOfUnion ==
  ASSUME NEW A \in SUBSET ProviderOrder, NEW B \in SUBSET ProviderOrder, NEW p \in Product
  PROVE  Units[A \cup B][p] <= Units[A][p] + Units[B][p]
<1> DEFINE new == B \ A
           old == B \cap A
<1>1. new \in SUBSET ProviderOrder /\ old \in SUBSET ProviderOrder /\ A \cup B \in SUBSET ProviderOrder
  OBVIOUS
<1>2. A \cap new = {} /\ old \cap new = {} /\ A \cup B = A \cup new /\ B = old \cup new
  OBVIOUS
<1> HIDE DEF new, old
<1>3. Units[A \cup B][p] = Units[A][p] + Units[new][p]
  BY <1>1, <1>2, UnitsOfBoth
<1>4. Units[B][p] = Units[old][p] + Units[new][p]
  BY <1>1, <1>2, UnitsOfBoth
<1>5. Units[A][p] \in Nat /\ Units[new][p] \in Nat /\ Units[old][p] \in Nat
  BY <1>1, UnitsNat
<1> QED
  BY <1>3, <1>4, <1>5

LEMMA NoUnitLostStep ==
  TypeInv /\ TypeInv' /\ LockInv /\ NoUnitIsLost /\ [Next]_vars => NoUnitIsLost'
<1> SUFFICES ASSUME TypeInv, TypeInv', LockInv, NoUnitIsLost, [Next]_vars PROVE NoUnitIsLost'
  OBVIOUS
<1>1. /\ Paid \in SUBSET ProviderOrder /\ restored \in SUBSET ProviderOrder
      /\ Paid' \in SUBSET ProviderOrder /\ restored' \in SUBSET ProviderOrder
      /\ \A p \in Product : stock[p] \in Nat /\ supply[p] \in Nat
  BY DEF Paid, TypeInv, TypeOK
<1>2. \A p \in Product : Units[Paid][p] \in Nat /\ Units[restored][p] \in Nat
  BY <1>1, UnitsNat
<1>3. supply' = supply
  BY SupplyKept
<1>4. ASSUME NEW s \in Session, Commit(s) PROVE NoUnitIsLost'
  <2> DEFINE sold == {Owner[s]}
  <2>1. /\ stock' = [p \in Product |-> stock[p] - Units[sold][p]] /\ restored' = restored
        /\ paymentStatus' = [paymentStatus EXCEPT ![Owner[s]] = "PAID"]
        /\ handler[s] = "settled" /\ Owner[s] \in ProviderOrder
    BY <1>4, ConstantsAssumption DEF Commit
  <2>2. Owner[s] \notin Paid
    BY <2>1 DEF LockInv, HeldAreUnpaid, HoldsProviderOrder
  <2>3. Paid' = Paid \cup sold /\ Paid \cap sold = {} /\ sold \in SUBSET ProviderOrder
    BY <2>1, <2>2 DEF Paid, TypeInv, TypeOK
  <2> HIDE DEF sold
  <2>4. ASSUME NEW p \in Product
        PROVE  supply'[p] + Units[restored'][p] <= stock'[p] + Units[Paid'][p]
    <3>1. Units[Paid'][p] = Units[Paid][p] + Units[sold][p] /\ Units[sold][p] \in Nat
      BY <1>1, <2>3, UnitsOfBoth, UnitsNat
    <3>2. stock'[p] = stock[p] - Units[sold][p] /\ Units[restored'][p] = Units[restored][p]
      BY <2>1
    <3>3. supply[p] + Units[restored][p] <= stock[p] + Units[Paid][p]
      BY DEF NoUnitIsLost
    <3> QED
      BY <1>1, <1>2, <1>3, <3>1, <3>2, <3>3
  <2> QED
    BY <2>4 DEF NoUnitIsLost
<1>5. ASSUME NEW c \in Canceller, NEW o \in Order, CommitCancel(c, o) PROVE NoUnitIsLost'
  <2> DEFINE back == IF cancel[c].restore THEN cancel[c].toCancel ELSE {}
  <2>1. /\ stock' = [p \in Product |-> stock[p] + Units[back][p]]
        /\ restored' = restored \cup back /\ paymentStatus' = paymentStatus
    BY <1>5 DEF CommitCancel
  <2>2. Paid' = Paid /\ back \in SUBSET ProviderOrder
    BY <2>1, ConstantsAssumption DEF Paid, TypeInv, TypeOK, CancelRequest
  <2> HIDE DEF back
  <2>3. ASSUME NEW p \in Product
        PROVE  supply'[p] + Units[restored'][p] <= stock'[p] + Units[Paid'][p]
    <3>1. /\ Units[restored'][p] <= Units[restored][p] + Units[back][p]
          /\ Units[restored'][p] \in Nat /\ Units[back][p] \in Nat
      BY <1>1, <2>1, <2>2, UnitsOfUnion, UnitsNat
    <3>2. stock'[p] = stock[p] + Units[back][p] /\ Units[Paid'][p] = Units[Paid][p]
      BY <2>1, <2>2
    <3>3. supply[p] + Units[restored][p] <= stock[p] + Units[Paid][p]
      BY DEF NoUnitIsLost
    <3> QED
      BY <1>1, <1>2, <1>3, <3>1, <3>2, <3>3
  <2> QED
    BY <2>3 DEF NoUnitIsLost
<1>6. ASSUME ~ \E s \in Session : Commit(s),
             ~ \E c \in Canceller, o \in Order : CommitCancel(c, o)
      PROVE  NoUnitIsLost'
  <2>1. Paid' = Paid
    BY <1>6, OnlyCommitPays, PaidStays DEF Paid, TypeInv
  <2> QED
    BY <1>3, <1>6, <2>1, StockKept DEF NoUnitIsLost
<1> QED
  BY <1>4, <1>5, <1>6

\* No unit is lost, whatever overlaps: what is missing in the stock was sold.
THEOREM NoUnitIsLostAlways == Spec => []NoUnitIsLost
<1>1. Init => NoUnitIsLost
  <2> SUFFICES ASSUME Init PROVE NoUnitIsLost
    OBVIOUS
  <2>1. Paid = {} /\ restored = {} /\ stock = supply
    BY DEF Init, Paid
  <2>2. \A p \in Product : stock[p] \in Nat /\ Units[{}][p] \in Nat
    <3>1. {} \in SUBSET ProviderOrder
      OBVIOUS
    <3> QED
      BY <3>1, TypeInit, UnitsNat DEF TypeInv, TypeOK
  <2> QED
    BY <2>1, <2>2 DEF NoUnitIsLost
<1> QED
  BY <1>1, TypeInvCorrect, LockCorrect, NoUnitLostStep, PTL DEF Spec
=============================================================================
