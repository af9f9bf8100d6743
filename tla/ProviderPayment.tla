-------------------------- MODULE ProviderPayment --------------------------
(***************************************************************************)
(* Payment of the provider orders of a checked-out root order: preparation *)
(* of a payment session, activation of its Stripe intent, the webhook that *)
(* reports a captured intent, its settlement against stock reservations,   *)
(* and what races with them (cancellation, the provider's decisions, the   *)
(* sweep of lapsed reservations, duplicated deliveries, failures).         *)
(*                                                                         *)
(* A step is what PostgreSQL makes atomic: a statement outside a           *)
(* transaction, a transaction that takes its row lock first, or one locked *)
(* stretch of the confirmation transaction, whose writes are private until *)
(* Commit. A row is locked exactly while the handler that locked it is at  *)
(* the places named in HoldsProviderOrder, HoldsOrder and HoldsProducts.   *)
(***************************************************************************)
EXTENDS Naturals, FiniteSets, StateMachine

CONSTANTS
  Order, ProviderOrder, Product,
  Session,        \* payment sessions; each has one intent and one webhook event
  OrderOf,        \* the root order of a provider order
  Owner,          \* the provider order of a session
  Units,          \* units of a product that a set of provider orders asks for
  Canceller,      \* cancellation requests that may be in flight
  NoRef,          \* null: of a paymentRef, of an idle request
  MaxStock,       \* bound on a product's initial stock
  MaxFaults,      \* bound on the crashes and aborted transactions
  ExpirySweep,    \* whether expireReservations() is run
  RetryInWindow   \* whether a delivery may repeat within the five-minute window

ASSUME ConstantsAssumption ==
  /\ OrderOf \in [ProviderOrder -> Order]
  /\ \A o \in Order : \E po \in ProviderOrder : OrderOf[po] = o
  /\ Owner \in [Session -> ProviderOrder]
  /\ Units \in [SUBSET ProviderOrder -> [Product -> Nat]]
  /\ \A A, B \in SUBSET ProviderOrder : A \cap B = {} =>
        \A p \in Product : Units[A \cup B][p] = Units[A][p] + Units[B][p]
  /\ NoRef \notin Session \cup Order
  /\ MaxStock \in Nat /\ MaxFaults \in Nat
  /\ ExpirySweep \in BOOLEAN /\ RetryInWindow \in BOOLEAN

VARIABLES
  orderStatus, poStatus, paymentStatus, paymentRef,   \* Order, ProviderOrder
  reservation, lapsed,     \* StockReservation.status; orders past expiresAt
  stock, supply,           \* Product.stock and its initial value
  session, external,       \* ProviderPaymentSession.status; has an intent id
  activation,              \* the request that is activating a session
  intent, delivery,        \* Stripe: the intent, the delivery of its event
  event, stale,            \* PaymentWebhookEvent.status; received 5 min ago
  handler, seen, allPaid,  \* the webhook handler and what it has read
  cancel, sweep,           \* cancelOrder and expireReservations in flight
  evaluation,              \* evaluateReadyForAssignment after a provider's decision
  restored,                \* history: provider orders whose units came back
  faults

orderVars == <<orderStatus, poStatus, paymentStatus, paymentRef>>
stockVars == <<reservation, stock, supply, restored>>
sessionVars == <<session, external, activation>>
stripeVars == <<intent, delivery>>
inboxVars == <<event, stale, handler, seen, allPaid>>
otherVars == <<lapsed, cancel, sweep, evaluation, faults>>
vars == <<orderVars, stockVars, sessionVars, stripeVars, inboxVars, otherVars>>

ReservationStatus == {"ACTIVE", "CONSUMED", "EXPIRED"}
SessionStatus == {"NONE", "CREATED", "READY", "EXPIRED", "COMPLETED", "FAILED"}
ProviderPaymentStatus == {"PENDING", "PAYMENT_READY", "PAID"}
EventStatus == {"NONE", "RECEIVED", "PROCESSED", "IGNORED", "FAILED"}
FINAL_STATUSES == {"PROCESSED", "IGNORED"}
HandlerPlace == {"idle", "claimed", "loaded", "validated", "ordered", "settled",
                 "committed", "ignored", "outOfStock", "failed"}
Open == {"CREATED", "READY"}
eligibleStatuses == {"PENDING", "PAYMENT_PENDING", "PAYMENT_READY"}

NoCancel == [order |-> NoRef, toCancel |-> {}, restore |-> FALSE]

SubOrders(o) == {po \in ProviderOrder : OrderOf[po] = o}
SessionsOf(po) == {s \in Session : Owner[s] = po}
Siblings(po) == SubOrders(OrderOf[po]) \ {po}

Init ==
  /\ orderStatus = [o \in Order |-> "PENDING"]
  /\ poStatus = [po \in ProviderOrder |-> "PENDING"]
  /\ paymentStatus = [po \in ProviderOrder |-> "PENDING"]
  /\ paymentRef = [po \in ProviderOrder |-> NoRef]
  /\ reservation = [po \in ProviderOrder |-> "ACTIVE"]
  /\ lapsed = {}
  \* Any stock: catalogue edits and imports set it without regard to reservations.
  /\ supply \in [Product -> 0..MaxStock]
  /\ stock = supply
  /\ session = [s \in Session |-> "NONE"]
  /\ external = {}
  /\ activation = [s \in Session |-> "idle"]
  /\ intent = [s \in Session |-> "none"]
  /\ delivery = [s \in Session |-> "none"]
  /\ event = [s \in Session |-> "NONE"]
  /\ stale = {}
  /\ handler = [s \in Session |-> "idle"]
  /\ seen = [s \in Session |-> "NONE"]
  /\ allPaid = [s \in Session |-> FALSE]
  /\ cancel = [c \in Canceller |-> NoCancel]
  /\ sweep = {}
  /\ evaluation = [po \in ProviderOrder |-> "idle"]
  /\ restored = {}
  /\ faults = 0

(***************************************************************************)
(* Row locks of the confirmation transaction.                              *)
(***************************************************************************)
HoldsProviderOrder == {"validated", "ordered", "settled"}
HoldsOrder == {"ordered", "settled"}
HoldsProducts == {"settled"}
InTransaction == {"loaded"} \cup HoldsProviderOrder

ProviderOrderFree(po) ==
  \A s \in SessionsOf(po) : handler[s] \notin HoldsProviderOrder
\* Mutant of OrderFree: the settlement does not lock the root order.
OrderUnlocked(o) == TRUE

OrderFree(o) ==
  \A s \in Session : OrderOf[Owner[s]] = o => handler[s] \notin HoldsOrder

ProductFree(p) ==
  \A s \in Session : Units[{Owner[s]}][p] > 0 => handler[s] \notin HoldsProducts

(***************************************************************************)
(* Preparation: one transaction that locks the ProviderOrder. All          *)
(* reservations of an order, and the sessions opened on them, expire at    *)
(* the same instant, so an order that has not lapsed has no session to     *)
(* expire by date.                                                         *)
(***************************************************************************)
CanPrepare(po) ==
  /\ ProviderOrderFree(po)
  /\ poStatus[po] \in eligibleStatuses
  /\ paymentStatus[po] # "PAID"
  /\ reservation[po] = "ACTIVE" /\ OrderOf[po] \notin lapsed

ActiveSessions(po) == {s \in SessionsOf(po) : session[s] = "READY" /\ s \in external}

\* Mutants of ExpireOpenSessions: a session still being activated is left open; the
\* reused session expires with the others.
ExpireReadySessions(po, keep) ==
  [s \in Session |-> IF Owner[s] = po /\ session[s] = "READY" /\ s \notin keep
                       THEN "EXPIRED" ELSE session[s]]
ExpireAllSessions(po, keep) ==
  [s \in Session |-> IF Owner[s] = po /\ session[s] \in Open
                       THEN "EXPIRED" ELSE session[s]]

ExpireOpenSessions(po, keep) ==
  [s \in Session |-> IF Owner[s] = po /\ session[s] \in Open /\ s \notin keep
                       THEN "EXPIRED" ELSE session[s]]

FromPending(po, next) == IF poStatus[po] = "PENDING" THEN next ELSE poStatus[po]

ReuseSession(po, s) ==
  /\ CanPrepare(po)
  /\ s \in ActiveSessions(po)
  /\ session' = ExpireOpenSessions(po, {s})
  /\ paymentStatus' = [paymentStatus EXCEPT ![po] = "PAYMENT_READY"]
  /\ paymentRef' = [paymentRef EXCEPT ![po] = s]
  /\ poStatus' = [poStatus EXCEPT ![po] = FromPending(po, "PAYMENT_READY")]
  /\ UNCHANGED <<orderStatus, external, activation, stockVars, stripeVars,
                 inboxVars, otherVars>>

CreateSession(po, s) ==
  /\ CanPrepare(po)
  /\ ActiveSessions(po) = {}
  /\ Owner[s] = po /\ session[s] = "NONE"
  /\ session' = [ExpireOpenSessions(po, {}) EXCEPT ![s] = "CREATED"]
  /\ activation' = [activation EXCEPT ![s] = "calling"]
  /\ paymentStatus' = [paymentStatus EXCEPT ![po] = "PENDING"]
  /\ paymentRef' = [paymentRef EXCEPT ![po] = NoRef]
  /\ poStatus' = [poStatus EXCEPT ![po] = FromPending(po, "PAYMENT_PENDING")]
  /\ UNCHANGED <<orderStatus, external, stockVars, stripeVars, inboxVars, otherVars>>

(***************************************************************************)
(* Activation of a created session, after the preparation has committed.   *)
(***************************************************************************)
IntentCreated(s) ==
  /\ activation[s] = "calling"
  /\ intent' = [intent EXCEPT ![s] = "open"]
  /\ activation' = [activation EXCEPT ![s] = "created"]
  /\ UNCHANGED <<orderVars, stockVars, session, external, delivery, inboxVars, otherVars>>

\* Stripe refuses: two updates outside any transaction.
IntentRefused(s) ==
  /\ activation[s] = "calling"
  /\ session' = [session EXCEPT ![s] = IF @ = "CREATED" THEN "FAILED" ELSE @]
  /\ activation' = [activation EXCEPT ![s] = "refused"]
  /\ UNCHANGED <<orderVars, stockVars, external, stripeVars, inboxVars, otherVars>>

\* Mutant of AwaitsPayment: the reset is not conditional.
AlwaysReset(po) == TRUE

AwaitsPayment(po) == paymentStatus[po] = "PENDING"

ResetProviderOrder(s) ==
  LET po == Owner[s] IN
  /\ activation[s] = "refused"
  /\ ProviderOrderFree(po)
  /\ poStatus' = [poStatus EXCEPT ![po] = IF AwaitsPayment(po) THEN "PENDING" ELSE @]
  /\ paymentStatus' = [paymentStatus EXCEPT ![po] =
                         IF AwaitsPayment(po) THEN "PENDING" ELSE @]
  /\ activation' = [activation EXCEPT ![s] = "idle"]
  /\ UNCHANGED <<orderStatus, paymentRef, stockVars, session, external,
                 stripeVars, inboxVars, otherVars>>

\* Mutant of CanActivate: the session is not read again under the lock.
CanActivateStale(s) ==
  /\ paymentStatus[Owner[s]] # "PAID"
  /\ reservation[Owner[s]] = "ACTIVE" /\ OrderOf[Owner[s]] \notin lapsed

CanActivate(s) ==
  /\ paymentStatus[Owner[s]] # "PAID"
  /\ reservation[Owner[s]] = "ACTIVE" /\ OrderOf[Owner[s]] \notin lapsed
  /\ session[s] = "CREATED"

Activate(s) ==
  LET po == Owner[s] IN
  /\ activation[s] = "created"
  /\ ProviderOrderFree(po)
  /\ CanActivate(s)
  /\ session' = [session EXCEPT ![s] = "READY"]
  /\ external' = external \cup {s}
  /\ activation' = [activation EXCEPT ![s] = "idle"]
  /\ paymentStatus' = [paymentStatus EXCEPT ![po] = "PAYMENT_READY"]
  /\ paymentRef' = [paymentRef EXCEPT ![po] = s]
  /\ poStatus' = [poStatus EXCEPT ![po] = "PAYMENT_READY"]
  /\ UNCHANGED <<orderStatus, stockVars, stripeVars, inboxVars, otherVars>>

\* The transaction throws (a guard, or a fault): the intent is cancelled on a
\* best-effort basis, then the session is failed.
RejectActivation(s) ==
  /\ activation[s] = "created"
  /\ ProviderOrderFree(Owner[s])
  /\ \/ ~CanActivate(s) /\ UNCHANGED faults
     \/ faults < MaxFaults /\ faults' = faults + 1
  /\ intent' \in {intent, [intent EXCEPT ![s] = "cancelled"]}
  /\ activation' = [activation EXCEPT ![s] = "rejected"]
  /\ UNCHANGED <<orderVars, stockVars, session, external, delivery, inboxVars,
                 lapsed, cancel, sweep, evaluation>>

FailSession(s) ==
  /\ activation[s] = "rejected"
  /\ session' = [session EXCEPT ![s] = IF @ \in Open THEN "FAILED" ELSE @]
  /\ activation' = [activation EXCEPT ![s] = "idle"]
  /\ UNCHANGED <<orderVars, stockVars, external, stripeVars, inboxVars, otherVars>>

ActivationCrash(s) ==
  /\ activation[s] # "idle" /\ faults < MaxFaults
  /\ activation' = [activation EXCEPT ![s] = "idle"]
  /\ faults' = faults + 1
  /\ UNCHANGED <<orderVars, stockVars, session, external, stripeVars, inboxVars,
                 lapsed, cancel, sweep, evaluation>>

(***************************************************************************)
(* Stripe (external): the client pays an intent whose secret it was given, *)
(* whatever has become of the session or the order meanwhile.              *)
(***************************************************************************)
Pay(s) ==
  /\ s \in external /\ intent[s] = "open"
  /\ intent' = [intent EXCEPT ![s] = "paid"]
  /\ delivery' = [delivery EXCEPT ![s] = "due"]
  /\ UNCHANGED <<orderVars, stockVars, sessionVars, inboxVars, otherVars>>

(***************************************************************************)
(* The webhook. Stripe delivers at least once, and again until a delivery  *)
(* is answered 200: delivery is "due" until then and "acked" after.        *)
(***************************************************************************)
\* Mutant of Claimable: a FAILED event is not reclaimed.
ClaimableOnce(s) == event[s] = "NONE" \/ (event[s] = "RECEIVED" /\ s \in stale)

\* create, or the updateMany that reclaims a FAILED or stale RECEIVED event.
Claimable(s) == \/ event[s] \in {"NONE", "FAILED"}
                \/ event[s] = "RECEIVED" /\ s \in stale

Claim(s) ==
  /\ delivery[s] # "none"
  /\ Claimable(s)
  /\ event' = [event EXCEPT ![s] = "RECEIVED"]
  /\ stale' = stale \ {s}
  /\ handler' = [handler EXCEPT ![s] = "claimed"]
  /\ UNCHANGED <<orderVars, stockVars, sessionVars, stripeVars, seen, allPaid, otherVars>>

\* isProcessed(), or claim() returning false: answered 200 without any work.
AcknowledgeUnclaimed(s) ==
  /\ delivery[s] = "due"
  /\ ~Claimable(s)
  /\ event[s] \notin FINAL_STATUSES => RetryInWindow
  /\ delivery' = [delivery EXCEPT ![s] = "acked"]
  /\ UNCHANGED <<orderVars, stockVars, sessionVars, intent, inboxVars, otherVars>>

\* The transaction reads the session before it holds any lock.
LoadSession(s) ==
  /\ handler[s] = "claimed"
  /\ seen' = [seen EXCEPT ![s] = session[s]]
  /\ handler' = [handler EXCEPT ![s] =
                   IF session[s] \in {"EXPIRED", "FAILED"} THEN "failed" ELSE "loaded"]
  /\ UNCHANGED <<orderVars, stockVars, sessionVars, stripeVars, event, stale,
                 allPaid, otherVars>>

Superseded(s) == paymentRef[Owner[s]] \notin {NoRef, s}
\* Mutant of AlreadyPaid: any payment in progress counts.
PaymentStarted(s) == seen[s] = "COMPLETED" \/ paymentStatus[Owner[s]] # "PENDING"

AlreadyPaid(s) == seen[s] = "COMPLETED" \/ paymentStatus[Owner[s]] = "PAID"

\* Locks the ProviderOrder and its reservations, re-reads them, and decides.
Validate(s) ==
  /\ handler[s] = "loaded"
  /\ ProviderOrderFree(Owner[s])
  /\ handler' = [handler EXCEPT ![s] =
       CASE Superseded(s) -> "failed"
         [] ~Superseded(s) /\ AlreadyPaid(s) -> "ignored"
         [] ~Superseded(s) /\ ~AlreadyPaid(s) ->
              IF reservation[Owner[s]] = "ACTIVE" THEN "validated" ELSE "failed"]
  /\ UNCHANGED <<orderVars, stockVars, sessionVars, stripeVars, event, stale,
                 seen, allPaid, otherVars>>

LockOrder(s) ==
  /\ handler[s] = "validated"
  /\ OrderFree(OrderOf[Owner[s]])
  /\ handler' = [handler EXCEPT ![s] = "ordered"]
  /\ UNCHANGED <<orderVars, stockVars, sessionVars, stripeVars, event, stale,
                 seen, allPaid, otherVars>>

\* Mutant of InStock: the decrement is not conditional.
AnyStock(po) == TRUE

InStock(po) == \A p \in Product : stock[p] >= Units[{po}][p]
\* Mutant of SiblingsPaid: a sibling that could be paid counts.
SiblingsReady(po) == \A sib \in Siblings(po) : paymentStatus[sib] # "PENDING"

SiblingsPaid(po) == \A sib \in Siblings(po) : paymentStatus[sib] = "PAID"

\* Locks the products, decrements each (or throws), and reads the siblings.
Settle(s) ==
  LET po == Owner[s] IN
  /\ handler[s] = "ordered"
  /\ \A p \in Product : Units[{po}][p] > 0 => ProductFree(p)
  /\ allPaid' = [allPaid EXCEPT ![s] = InStock(po) /\ SiblingsPaid(po)]
  /\ handler' = [handler EXCEPT ![s] = IF InStock(po) THEN "settled" ELSE "outOfStock"]
  /\ UNCHANGED <<orderVars, stockVars, sessionVars, stripeVars, event, stale,
                 seen, otherVars>>

\* Mutant of Confirmed: the order's status is not checked.
ConfirmedAnyway(o, paid) == IF paid THEN "CONFIRMED" ELSE orderStatus[o]

Confirmed(o, paid) == IF paid /\ orderStatus[o] = "PENDING" THEN "CONFIRMED"
                                                            ELSE orderStatus[o]

Commit(s) ==
  LET po == Owner[s]
      o == OrderOf[po]
  IN
  /\ handler[s] = "settled"
  /\ reservation' = [reservation EXCEPT ![po] = "CONSUMED"]
  /\ stock' = [p \in Product |-> stock[p] - Units[{po}][p]]
  /\ session' = [session EXCEPT ![s] = "COMPLETED"]
  /\ paymentStatus' = [paymentStatus EXCEPT ![po] = "PAID"]
  /\ poStatus' = [poStatus EXCEPT ![po] = "PAID"]
  /\ orderStatus' = [orderStatus EXCEPT ![o] = Confirmed(o, allPaid[s])]
  /\ handler' = [handler EXCEPT ![s] = "committed"]
  /\ UNCHANGED <<paymentRef, supply, restored, external, activation, stripeVars,
                 event, stale, seen, allPaid, otherVars>>

Mark(s, place, status) ==
  /\ handler[s] = place
  /\ event' = [event EXCEPT ![s] = status]
  /\ handler' = [handler EXCEPT ![s] = "idle"]
  /\ UNCHANGED <<orderVars, stockVars, sessionVars, intent, stale, seen, allPaid, otherVars>>

\* markStatus(PROCESSED) or markStatus(IGNORED), answered 200.
MarkDone(s) ==
  /\ Mark(s, "committed", "PROCESSED") \/ Mark(s, "ignored", "IGNORED")
  /\ delivery' = [delivery EXCEPT ![s] = "acked"]

\* markStatus(FAILED): 500, so Stripe retries, unless the message says that
\* stock was updated concurrently, which is answered 200.
MarkFailed(s) ==
  \/ Mark(s, "failed", "FAILED") /\ UNCHANGED delivery
  \/ /\ Mark(s, "outOfStock", "FAILED")
     /\ delivery' = [delivery EXCEPT ![s] = "acked"]

\* The database aborts the transaction (deadlock victim, timeout, lost connection),
\* the provider's payment account is found inactive, or what follows the commit
\* (the notification of the listeners, markStatus) throws.
StatementFails(s) ==
  /\ handler[s] \in InTransaction \cup {"committed", "ignored"} /\ faults < MaxFaults
  /\ handler' = [handler EXCEPT ![s] = "failed"]
  /\ faults' = faults + 1
  /\ UNCHANGED <<orderVars, stockVars, sessionVars, stripeVars, event, stale,
                 seen, allPaid, lapsed, cancel, sweep, evaluation>>

HandlerCrash(s) ==
  /\ handler[s] # "idle" /\ faults < MaxFaults
  /\ handler' = [handler EXCEPT ![s] = "idle"]
  /\ faults' = faults + 1
  /\ UNCHANGED <<orderVars, stockVars, sessionVars, stripeVars, event, stale,
                 seen, allPaid, lapsed, cancel, sweep, evaluation>>

\* Five minutes, far longer than a transaction may run, after a crash.
WindowElapses(s) ==
  /\ event[s] = "RECEIVED" /\ handler[s] = "idle" /\ s \notin stale
  /\ stale' = stale \cup {s}
  /\ UNCHANGED <<orderVars, stockVars, sessionVars, stripeVars, event, handler,
                 seen, allPaid, otherVars>>

(***************************************************************************)
(* Reservations lapse fifteen minutes after checkout. expireReservations() *)
(* lists them outside the transaction that expires them.                   *)
(***************************************************************************)
Lapse(o) ==
  /\ o \notin lapsed
  /\ lapsed' = lapsed \cup {o}
  /\ UNCHANGED <<orderVars, stockVars, sessionVars, stripeVars, inboxVars,
                 cancel, sweep, evaluation, faults>>

FindLapsed ==
  LET found == {po \in ProviderOrder : reservation[po] = "ACTIVE" /\ OrderOf[po] \in lapsed}
  IN
  /\ ExpirySweep /\ sweep = {} /\ found # {}
  /\ sweep' = found
  /\ UNCHANGED <<orderVars, stockVars, sessionVars, stripeVars, inboxVars,
                 lapsed, cancel, evaluation, faults>>

ExpireReservations ==
  /\ sweep # {}
  /\ \A po \in sweep : ProviderOrderFree(po)
  /\ reservation' = [po \in ProviderOrder |->
                       IF po \in sweep THEN "EXPIRED" ELSE reservation[po]]
  /\ poStatus' = [po \in ProviderOrder |->
                    IF po \in sweep /\ poStatus[po] \in eligibleStatuses
                      THEN "EXPIRED" ELSE poStatus[po]]
  /\ sweep' = {}
  /\ UNCHANGED <<orderStatus, paymentStatus, paymentRef, stock, supply, restored,
                 sessionVars, stripeVars, inboxVars, lapsed, cancel, evaluation, faults>>

(***************************************************************************)
(* cancelOrder() decides on what it read outside its transaction, which    *)
(* restores the items, cancels the provider orders and then the order.     *)
(***************************************************************************)
Dropped == {"REJECTED_BY_STORE", "CANCELLED"}

MayCancel(o, role) ==
  /\ \/ role = "ADMIN"
     \/ role = "CLIENT" /\ \/ orderStatus[o] = "PENDING"
                           \/ /\ orderStatus[o] = "CONFIRMED"
                              /\ \E po \in SubOrders(o) : poStatus[po] \in Dropped
  /\ canTransitionOrder(orderStatus[o], "CANCELLED")

\* Mutant of RestoresInventory: an order that sold nothing, or not everything, restores.
RestoresAlways(o) == orderStatus[o] # "DELIVERED"

RestoresInventory(o) ==
  orderStatus[o] \in {"CONFIRMED", "READY_FOR_ASSIGNMENT", "ASSIGNED"}

DecideCancel(c, o) ==
  /\ cancel[c] = NoCancel
  /\ \E role \in {"CLIENT", "ADMIN"} : MayCancel(o, role)
  /\ cancel' = [cancel EXCEPT ![c] =
       [order |-> o,
        toCancel |-> {po \in SubOrders(o) : poStatus[po] \notin Dropped},
        restore |-> RestoresInventory(o)]]
  /\ UNCHANGED <<orderVars, stockVars, sessionVars, stripeVars, inboxVars,
                 lapsed, sweep, evaluation, faults>>

CommitCancel(c, o) ==
  LET back == IF cancel[c].restore THEN cancel[c].toCancel ELSE {} IN
  /\ cancel[c].order = o
  /\ \A p \in Product : Units[back][p] > 0 => ProductFree(p)
  /\ \A po \in cancel[c].toCancel : ProviderOrderFree(po)
  /\ OrderFree(o)
  /\ stock' = [p \in Product |-> stock[p] + Units[back][p]]
  /\ restored' = restored \cup back
  /\ poStatus' = [po \in ProviderOrder |->
                    IF po \in cancel[c].toCancel THEN "CANCELLED" ELSE poStatus[po]]
  /\ orderStatus' = [orderStatus EXCEPT ![o] = "CANCELLED"]
  /\ cancel' = [cancel EXCEPT ![c] = NoCancel]
  /\ UNCHANGED <<paymentStatus, paymentRef, reservation, supply, sessionVars,
                 stripeVars, inboxVars, lapsed, sweep, evaluation, faults>>

(***************************************************************************)
(* updateProviderOrderStatus(): an update that is conditional on what was  *)
(* read, and then evaluateReadyForAssignment(), which reads the order and  *)
(* promotes it in separate statements. Here nothing gets as far as the     *)
(* runner; an evaluation is of a provider order dropped before payment.    *)
(***************************************************************************)
Unfinished == {"PENDING", "ACCEPTED", "PREPARING"}

ReadyForAssignment(o) ==
  /\ orderStatus[o] = "CONFIRMED"
  /\ \A po \in SubOrders(o) : poStatus[po] \notin Unfinished \cup Dropped

UpdateProviderOrderStatus(po, role, status) ==
  /\ canTransitionProviderOrder(poStatus[po], status, role)
  /\ ProviderOrderFree(po)
  /\ poStatus' = [poStatus EXCEPT ![po] = status]
  /\ evaluation' = [evaluation EXCEPT ![po] =
                      IF status \in {"READY_FOR_PICKUP"} \cup Dropped THEN "due" ELSE @]
  /\ UNCHANGED <<orderStatus, paymentStatus, paymentRef, stockVars, sessionVars,
                 stripeVars, inboxVars, lapsed, cancel, sweep, faults>>

EvaluateReady(po) ==
  /\ evaluation[po] = "due"
  /\ evaluation' = [evaluation EXCEPT ![po] =
                      IF ReadyForAssignment(OrderOf[po]) THEN "ready" ELSE "idle"]
  /\ UNCHANGED <<orderVars, stockVars, sessionVars, stripeVars, inboxVars,
                 lapsed, cancel, sweep, faults>>

\* updateStatus() is not conditional on the status that was read.
PromoteOrder(po) ==
  /\ evaluation[po] = "ready"
  /\ OrderFree(OrderOf[po])
  /\ orderStatus' = [orderStatus EXCEPT ![OrderOf[po]] = "READY_FOR_ASSIGNMENT"]
  /\ evaluation' = [evaluation EXCEPT ![po] = "idle"]
  /\ UNCHANGED <<poStatus, paymentStatus, paymentRef, stockVars, sessionVars,
                 stripeVars, inboxVars, lapsed, cancel, sweep, faults>>

Preparation(s) ==
  \/ ReuseSession(Owner[s], s) \/ CreateSession(Owner[s], s)
  \/ IntentCreated(s) \/ IntentRefused(s) \/ ResetProviderOrder(s)
  \/ Activate(s) \/ RejectActivation(s) \/ FailSession(s) \/ ActivationCrash(s)

Confirmation(s) ==
  \/ LoadSession(s) \/ Validate(s) \/ LockOrder(s) \/ Settle(s) \/ Commit(s)
  \/ MarkDone(s) \/ MarkFailed(s)

Webhook(s) ==
  \/ Claim(s) \/ AcknowledgeUnclaimed(s) \/ Confirmation(s)
  \/ StatementFails(s) \/ HandlerCrash(s) \/ WindowElapses(s)

Next ==
  \/ \E s \in Session : Preparation(s) \/ Pay(s) \/ Webhook(s)
  \/ \E o \in Order : Lapse(o)
  \/ \E c \in Canceller, o \in Order : DecideCancel(c, o) \/ CommitCancel(c, o)
  \/ FindLapsed \/ ExpireReservations
  \/ \E po \in ProviderOrder, role \in Role \ {"RUNNER"}, st \in ProviderOrderStatus :
       UpdateProviderOrderStatus(po, role, st)
  \/ \E po \in ProviderOrder : EvaluateReady(po) \/ PromoteOrder(po)

Spec == Init /\ [][Next]_vars

(***************************************************************************)
(* What the code's scheduling guarantees: Stripe repeats a delivery that   *)
(* is due, a handler that runs takes its next step once its row locks are  *)
(* free, and five minutes pass.                                            *)
(***************************************************************************)
Redeliver(s) == delivery[s] = "due" /\ Claim(s)

Fairness == \A s \in Session :
  /\ WF_vars(Redeliver(s)) /\ WF_vars(WindowElapses(s))
  /\ SF_vars(Confirmation(s))

FairSpec == Spec /\ Fairness

-----------------------------------------------------------------------------
(***************************************************************************)
(* Properties.                                                             *)
(***************************************************************************)
CancelRequest ==
  [order : Order \cup {NoRef}, toCancel : SUBSET ProviderOrder, restore : BOOLEAN]

\* Every row holds a value of its column's type; stock is never negative,
\* although a settlement may find less of it than was reserved.
TypeOK ==
  /\ orderStatus \in [Order -> DeliveryStatus]
  /\ poStatus \in [ProviderOrder -> ProviderOrderStatus]
  /\ paymentStatus \in [ProviderOrder -> ProviderPaymentStatus]
  /\ paymentRef \in [ProviderOrder -> Session \cup {NoRef}]
  /\ reservation \in [ProviderOrder -> ReservationStatus]
  /\ lapsed \subseteq Order
  /\ stock \in [Product -> Nat] /\ supply \in [Product -> Nat]
  /\ session \in [Session -> SessionStatus]
  /\ external \subseteq Session
  /\ activation \in [Session -> {"idle", "calling", "refused", "created", "rejected"}]
  /\ intent \in [Session -> {"none", "open", "paid", "cancelled"}]
  /\ delivery \in [Session -> {"none", "due", "acked"}]
  /\ event \in [Session -> EventStatus]
  /\ stale \subseteq Session
  /\ handler \in [Session -> HandlerPlace]
  /\ seen \in [Session -> SessionStatus]
  /\ allPaid \in [Session -> BOOLEAN]
  /\ cancel \in [Canceller -> CancelRequest]
  /\ sweep \subseteq ProviderOrder
  /\ evaluation \in [ProviderOrder -> {"idle", "due", "ready"}]
  /\ restored \subseteq ProviderOrder
  /\ faults \in 0..MaxFaults

Paid == {po \in ProviderOrder : paymentStatus[po] = "PAID"}

\* A provider order has at most one session a client could still be sent to,
\* however many preparations and late activations overlap.
OneOpenSession ==
  \A s, t \in Session :
    Owner[s] = Owner[t] /\ session[s] \in Open /\ session[t] \in Open => s = t

\* What the reports of the two reconciliation services look for: provider orders with
\* several open sessions, and provider orders that are paid by no completed session.
multipleOpenSessions == {po \in ProviderOrder : \E s, t \in Session :
  s # t /\ Owner[s] = po /\ Owner[t] = po /\ session[s] \in Open /\ session[t] \in Open}
PaidWithoutSession == {po \in Paid : ~ \E s \in Session :
  Owner[s] = po /\ session[s] = "COMPLETED"}

\* These reports are always empty: no overlap of preparations, late activations, sweeps
\* and webhooks opens a second session or leaves a payment that no session explains.
NothingToReconcile == multipleOpenSessions = {} /\ PaidWithoutSession = {}

\* No client is charged twice for a provider order: of all the intents that were
\* ever created for it, at most one is captured.
NeverChargedTwice ==
  \A s, t \in Session :
    Owner[s] = Owner[t] /\ intent[s] = "paid" /\ intent[t] = "paid" => s = t

\* Captured money can always be confirmed: the session of a captured intent was
\* neither expired, failed nor superseded by a preparation that raced the client.
CapturedIsConfirmable ==
  \A s \in Session :
    intent[s] = "paid" => session[s] \in {"READY", "COMPLETED"} /\ ~Superseded(s)

\* The confirmation of a root order is never lost: two settlements of its last two
\* provider orders cannot each miss the other's.
AllPaidConfirms ==
  \A o \in Order : SubOrders(o) \subseteq Paid => orderStatus[o] # "PENDING"

\* A root order is CONFIRMED only when all its provider orders are paid, and none
\* of them has been taken elsewhere by its provider, a sweep or a late activation.
ConfirmedMeansAllPaid ==
  \A o \in Order : orderStatus[o] = "CONFIRMED" =>
    \A po \in SubOrders(o) : po \in Paid /\ poStatus[po] = "PAID"

\* Every unit that left a product's stock was sold by exactly one settlement, and
\* what a cancellation puts back is what a settlement took, once.
UnitsConserved ==
  /\ restored \subseteq Paid
  /\ \A p \in Product : stock[p] + Units[Paid][p] = supply[p] + Units[restored][p]

\* A webhook event is closed as PROCESSED or IGNORED only if its provider order was
\* paid; a retry after a crash cannot close the event of an unpaid one.
TerminalMeansPaid ==
  \A s \in Session : event[s] \in FINAL_STATUSES => Owner[s] \in Paid

\* No request, however stale, takes back a payment.
PaidIsFinal ==
  [][\A po \in ProviderOrder : paymentStatus[po] = "PAID" => paymentStatus'[po] = "PAID"]_vars

\* Captured money is settled in the end, if the stock is there, despite aborted
\* transactions and crashes at any step of the handler.
CapturedIsSettled ==
  \A s \in Session :
    (intent[s] = "paid" /\ \A p \in Product : supply[p] >= Units[ProviderOrder][p])
      ~> (Owner[s] \in Paid)

Settlement == INSTANCE OrderSettlement WITH paid <- Paid

\* Whatever sessions, webhooks, sweeps and cancellations do, an observer of the
\* orders, their payment and the stock sees only sales and cancellations as
\* OrderSettlement describes them.
ImplementsSettlement == Settlement!Spec
=============================================================================
