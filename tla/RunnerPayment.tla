---------------------------- MODULE RunnerPayment ----------------------------
(***************************************************************************)
(* The client's payment of the runner of a delivery order, composed with   *)
(* the life of that order: preparation of a Stripe intent under the lock   *)
(* of the delivery order, and the webhook that records its outcome without *)
(* any lock. An intent is named by the session that would record it. Times *)
(* are reduced to whether a session is past its expiresAt.                 *)
(*                                                                         *)
(* A webhook handler claims its event and reads, writes, and marks the     *)
(* event; it may fail at each of these steps, or stop for good: a claimed  *)
(* event is never claimed again, whoever delivers it.                      *)
(***************************************************************************)
EXTENDS Delivery

CONSTANT Session   \* the sessions the delivery order may come to have

ASSUME NoneIsNoSession == None \notin Session

VARIABLES
  paymentStatus, paymentRef,  \* of the DeliveryOrder
  session,                    \* RunnerPaymentSession.status ("NONE": no row)
  overdue,                    \* the sessions past their expiresAt
  intent,                     \* the intents at Stripe
  event,                      \* RunnerWebhookEvent.status ("sent": no row yet)
  place, seen                 \* what a handler does next; the status a success has read

handlerVars == <<place, seen>>
paymentVars ==
  <<paymentStatus, paymentRef, session, overdue, intent, event, handlerVars>>
vars == <<deliveryVars, paymentVars>>

RunnerPaymentStatus == {"PENDING", "PAYMENT_READY", "PAID", "FAILED"}
Payable == {"RUNNER_ASSIGNED", "PICKUP_PENDING"}

Succeeded(s) == <<s, "succeeded">>
Failed(s) == <<s, "payment_failed">>
Event == Session \X {"succeeded", "payment_failed"}

PaymentInit ==
  /\ paymentStatus = "PENDING" /\ paymentRef = None
  /\ session = [s \in Session |-> "NONE"] /\ overdue = {}
  /\ intent = [s \in Session |-> "none"]
  /\ event = [e \in Event |-> "none"]
  /\ place = [e \in Event |-> "idle"] /\ seen = [s \in Session |-> "NONE"]

(***************************************************************************)
(* Preparation, one transaction under the lock of the delivery order.      *)
(***************************************************************************)
CanPrepare ==
  /\ runner # None /\ status \in Payable
  /\ paymentStatus # "PAID"

Active == {s \in Session : session[s] = "READY" /\ s \notin overdue}

\* Mutant of MarkExpired: a session past its time is left READY.
KeepExpired == session

MarkExpired ==
  [s \in Session |-> IF session[s] = "READY" /\ s \in overdue THEN "EXPIRED" ELSE session[s]]

ReuseSession ==
  /\ CanPrepare /\ Active # {}
  /\ session' = MarkExpired
  /\ paymentStatus' = "PAYMENT_READY"
  /\ UNCHANGED <<deliveryVars, paymentRef, overdue, intent, event, handlerVars>>

Unused(s) == intent[s] = "none"

CreateSession(s) ==
  /\ CanPrepare /\ Active = {} /\ Unused(s)
  /\ session' = [MarkExpired EXCEPT ![s] = "READY"]
  /\ intent' = [intent EXCEPT ![s] = "open"]
  /\ paymentStatus' = "PAYMENT_READY"
  /\ UNCHANGED <<deliveryVars, paymentRef, overdue, event, handlerVars>>

\* Mutant of PrepareAborts: the client is answered before the transaction commits.
PrepareAnswersEarly(s) ==
  /\ CanPrepare /\ Active = {} /\ Unused(s)
  /\ intent' = [intent EXCEPT ![s] = "open"]
  /\ UNCHANGED <<deliveryVars, paymentStatus, paymentRef, session, overdue, event, handlerVars>>

\* The intent is created inside the transaction: when that is rolled back no row names
\* the intent, and nobody is given its secret.
PrepareAborts(s) ==
  /\ CanPrepare /\ Active = {} /\ Unused(s)
  /\ intent' = [intent EXCEPT ![s] = "orphan"]
  /\ UNCHANGED <<deliveryVars, paymentStatus, paymentRef, session, overdue, event, handlerVars>>

SessionExpires(s) ==
  /\ session[s] = "READY" /\ s \notin overdue
  /\ overdue' = overdue \cup {s}
  /\ UNCHANGED <<deliveryVars, paymentStatus, paymentRef, session, intent, event, handlerVars>>

(***************************************************************************)
(* Stripe and the client, who holds the secret of every session's intent.  *)
(* An intent stays payable after a decline and after the session expired.  *)
(* Bound: Stripe tells of one declined attempt to pay an intent.           *)
(***************************************************************************)
Pay(s) ==
  /\ intent[s] = "open"
  /\ intent' = [intent EXCEPT ![s] = "paid"]
  /\ event' = [event EXCEPT ![Succeeded(s)] = "sent"]
  /\ UNCHANGED <<deliveryVars, paymentStatus, paymentRef, session, overdue, handlerVars>>

Decline(s) ==
  /\ intent[s] = "open" /\ event[Failed(s)] = "none"
  /\ event' = [event EXCEPT ![Failed(s)] = "sent"]
  /\ UNCHANGED <<deliveryVars, paymentStatus, paymentRef, session, overdue, intent, handlerVars>>

(***************************************************************************)
(* The webhook.                                                            *)
(***************************************************************************)
\* The insert of the event's row succeeds once.
Claimable(e) == event[e] = "sent"

\* The claim commits, and then the transaction begins and reads.
ClaimAndRead(e, done) ==
  /\ Claimable(e)
  /\ event' = [event EXCEPT ![e] = "RECEIVED"]
  /\ place' = [place EXCEPT ![e] = IF done THEN "mark" ELSE "write"]
  /\ UNCHANGED <<deliveryVars, paymentStatus, paymentRef, session, overdue, intent>>

\* Mutant of AlreadyPaid: a session that expired or failed is done with.
AlreadyPaidOrClosed(s) == session[s] # "READY" \/ paymentStatus = "PAID"

AlreadyPaid(s) == session[s] = "COMPLETED" \/ paymentStatus = "PAID"

ReceiveSuccess(s) ==
  /\ ClaimAndRead(Succeeded(s), AlreadyPaid(s))
  /\ seen' = [seen EXCEPT ![s] = IF AlreadyPaid(s) THEN "NONE" ELSE status]

ReceiveFailure(s) ==
  /\ ClaimAndRead(Failed(s), session[s] = "COMPLETED")
  /\ UNCHANGED seen

\* Mutant of NextStatus: the name is taken from the statuses of root orders.
NextStatusOfOrder(seenStatus) ==
  IF seenStatus \in {"PENDING", "RUNNER_ASSIGNED"} THEN "ASSIGNED" ELSE seenStatus

\* The status is computed from what was read, and written without condition.
NextStatus(seenStatus) ==
  IF seenStatus \in {"PENDING", "RUNNER_ASSIGNED"} THEN "PICKUP_PENDING" ELSE seenStatus

ConfirmRunnerPayment(s) ==
  /\ place[Succeeded(s)] = "write"
  /\ session' = [session EXCEPT ![s] = "COMPLETED"]
  /\ paymentStatus' = "PAID" /\ paymentRef' = s
  /\ status' = NextStatus(seen[s])
  /\ place' = [place EXCEPT ![Succeeded(s)] = "mark"]
  /\ seen' = [seen EXCEPT ![s] = "NONE"]
  /\ UNCHANGED <<runner, rootVars, jobVars, assigning, overdue, intent, event>>

FailRunnerPayment(s) ==
  /\ place[Failed(s)] = "write"
  /\ session' = [session EXCEPT ![s] = "FAILED"]
  /\ paymentStatus' = "FAILED"
  /\ place' = [place EXCEPT ![Failed(s)] = "mark"]
  /\ UNCHANGED <<deliveryVars, paymentRef, overdue, intent, event, seen>>

Marks(e, final) ==
  /\ event' = [event EXCEPT ![e] = final]
  /\ place' = [place EXCEPT ![e] = "idle"]
  /\ UNCHANGED <<deliveryVars, paymentStatus, paymentRef, session, overdue, intent, seen>>

MarkProcessed(e) == place[e] = "mark" /\ Marks(e, "PROCESSED")

\* The catch block, after a rollback of the transaction (as when PostgreSQL breaks a
\* deadlock with a preparation that expires the same session) or a failure to mark.
MarkFailed(e) == place[e] # "idle" /\ Marks(e, "FAILED")

Webhook(s) ==
  \/ ReceiveSuccess(s) \/ ReceiveFailure(s)
  \/ ConfirmRunnerPayment(s) \/ FailRunnerPayment(s)
  \/ \E e \in {Succeeded(s), Failed(s)} : MarkProcessed(e) \/ MarkFailed(e)

PaymentNext ==
  \/ ReuseSession
  \/ \E s \in Session :
       \/ CreateSession(s) \/ PrepareAborts(s) \/ SessionExpires(s)
       \/ Pay(s) \/ Decline(s) \/ Webhook(s)

Init == DeliveryInit /\ PaymentInit

Next == (DeliveryNext /\ UNCHANGED paymentVars) \/ PaymentNext

Spec == Init /\ [][Next]_vars

\* Stripe delivers what nobody has acknowledged, and a handler goes on to the end of
\* its request: nothing else is owed to anybody.
FairSpec == Spec /\ \A s \in Session : WF_vars(Webhook(s))

-----------------------------------------------------------------------------
TypeOK ==
  /\ DeliveryTypeOK
  /\ paymentStatus \in RunnerPaymentStatus /\ paymentRef \in Session \cup {None}
  /\ session \in [Session -> {"NONE", "READY", "COMPLETED", "FAILED", "EXPIRED"}]
  /\ overdue \subseteq Session
  /\ intent \in [Session -> {"none", "open", "orphan", "paid"}]
  /\ event \in [Event -> {"none", "sent", "RECEIVED", "PROCESSED", "FAILED"}]
  /\ place \in [Event -> {"idle", "write", "mark"}]
  /\ seen \in [Session -> DeliveryOrderStatus \cup {"NONE"}]

\* The rows cover what Stripe holds: two preparations never leave two sessions open to
\* be paid, whatever the webhook and the clock do to the sessions between them, and no
\* money is captured that no row knows of, though the intent is created at Stripe
\* before the transaction that records it commits.
SessionsMatchIntents ==
  /\ \A s1, s2 \in Session : session[s1] = "READY" /\ session[s2] = "READY" => s1 = s2
  /\ \A s \in Session : intent[s] = "paid" => session[s] # "NONE"

\* The log of events tells the truth: a success marked PROCESSED has put a captured
\* payment on the delivery order, though its session may have expired or failed before;
\* and a delivery order that is PAID has a completed session to show for it, as the
\* reconciliation of the observability module expects.
ProcessedIsRecorded ==
  /\ \A s \in Session : event[Succeeded(s)] = "PROCESSED" => paymentRef # None
  /\ paymentRef # None => intent[paymentRef] = "paid" /\ status # "NONE"
  /\ paymentStatus = "PAID" => \E s \in Session : session[s] = "COMPLETED"

\* A captured payment ends up on the delivery order, even when its session has expired,
\* been declined before or been replaced by a newer one, unless its handler has failed
\* and left an event that says so.
CaptureIsRecorded == \A s \in Session :
  intent[s] = "paid" ~> (paymentRef # None \/ event[Succeeded(s)] = "FAILED")
=============================================================================
