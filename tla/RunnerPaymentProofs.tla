------------------------ MODULE RunnerPaymentProofs ------------------------
(***************************************************************************)
(* Theorems about RunnerPayment, which extends Delivery, for any number of *)
(* runners, requests and sessions.                                         *)
(***************************************************************************)
EXTENDS RunnerPayment, DeliveryProofs

(***************************************************************************)
(* The payment. An intent that can be paid or was paid has a session and   *)
(* belongs to a delivery with a runner, so that the status a handler read  *)
(* of it, which it writes back later, is that of such a delivery.          *)
(***************************************************************************)
PayableHasSession ==
  \A s \in Session : intent[s] \in {"open", "paid"} =>
    session[s] # "NONE" /\ runner # None /\ status # "NONE"

\* Events of success are of captured intents, and handlers of claimed events.
EventsAreCaptures ==
  /\ \A s \in Session : event[Succeeded(s)] # "none" => intent[s] = "paid"
  /\ \A e \in Event : place[e] # "idle" => event[e] = "RECEIVED"
  /\ \A s \in Session : place[Succeeded(s)] = "write" => seen[s] # "NONE"

\* What says that the delivery was paid for was written along with the reference.
PaidHasReference ==
  /\ paymentStatus = "PAID" => paymentRef # None
  /\ \A s \in Session : session[s] = "COMPLETED" => paymentRef # None
  /\ \A s \in Session : place[Succeeded(s)] = "mark" => paymentRef # None

PaymentInv ==
  /\ TypeOK /\ DeliveryInv
  /\ PayableHasSession /\ EventsAreCaptures /\ PaidHasReference
  /\ SessionsMatchIntents /\ ProcessedIsRecorded

LEMMA PaymentInvInit == Init => PaymentInv
<1> SUFFICES ASSUME Init PROVE PaymentInv
  OBVIOUS
<1>1. DeliveryInv
  BY DeliveryInvInit DEF Init
<1>2. \A s \in Session : Succeeded(s) \in Event /\ Failed(s) \in Event
  BY DEF Succeeded, Failed, Event
<1>3. TypeOK
  BY <1>1 DEF Init, PaymentInit, TypeOK, DeliveryInv, RunnerPaymentStatus
<1>4. PayableHasSession /\ EventsAreCaptures /\ PaidHasReference
  BY <1>2 DEF Init, PaymentInit, PayableHasSession, EventsAreCaptures, PaidHasReference
<1>5. SessionsMatchIntents /\ ProcessedIsRecorded
  BY <1>2 DEF Init, PaymentInit, SessionsMatchIntents, ProcessedIsRecorded
<1> QED
  BY <1>1, <1>3, <1>4, <1>5 DEF PaymentInv

\* Steps of the delivery do not touch its payment, and leave a runner where one was.
LEMMA DeliveryKeepsPayment ==
  ASSUME PaymentInv, DeliveryNext, UNCHANGED paymentVars
  PROVE  PaymentInv'
<1>1. DeliveryInv'
  BY DeliveryInvStep DEF PaymentInv
<1>2. /\ runner # None => runner' # None
      /\ status # "NONE" => status' # "NONE"
  BY NoneIsNoRunner
  DEF DeliveryNext, CreateDeliveryOrder, WindowCloses, ExpireDeliveryJobs, RequestJob,
      AcceptDeliveryJob, RefuseJob, ReadAssignable, AssignRunner, AdvanceLifecycle,
      OrderMoves, AcceptRootOrder, SelectForRootOrder, allowedTransitions, jobVars
<1> QED
  BY <1>1, <1>2
  DEF PaymentInv, DeliveryInv, TypeOK, paymentVars, handlerVars, PayableHasSession,
      EventsAreCaptures, PaidHasReference, SessionsMatchIntents, ProcessedIsRecorded

\* An expired session is not READY, and no other is touched.
LEMMA MarkExpiredExpires ==
  ASSUME TypeOK, NEW s \in Session
  PROVE  /\ MarkExpired[s] = session[s] \/ (session[s] = "READY" /\ MarkExpired[s] = "EXPIRED")
         /\ MarkExpired[s] = "READY" => s \in Active
         /\ MarkExpired[s] \in {"NONE", "READY", "COMPLETED", "FAILED", "EXPIRED"}
  BY DEF TypeOK, MarkExpired, Active

LEMMA PaymentStep ==
  ASSUME PaymentInv, PaymentNext
  PROVE  PaymentInv'
<1> USE DEF PaymentInv
<1>1. \A s \in Session : Succeeded(s) \in Event /\ Failed(s) \in Event
  BY DEF Succeeded, Failed, Event
<1>2. \A s, t \in Session : /\ Succeeded(s) # Failed(t)
                            /\ Succeeded(s) = Succeeded(t) => s = t
  BY DEF Succeeded, Failed
<1> USE <1>1, <1>2
<1>3. CASE ReuseSession
  <2>1. UNCHANGED <<deliveryVars, paymentRef, overdue, intent, event, place, seen>>
    BY <1>3 DEF ReuseSession, handlerVars
  <2>2. session' = MarkExpired /\ paymentStatus' = "PAYMENT_READY"
    BY <1>3 DEF ReuseSession
  <2>3. DeliveryInv'
    BY <2>1, DeliveryInvStep
  <2>4. session' \in [Session -> {"NONE", "READY", "COMPLETED", "FAILED", "EXPIRED"}]
    BY <2>2, MarkExpiredExpires DEF MarkExpired
  <2>5. TypeOK'
    BY <2>1, <2>2, <2>3, <2>4 DEF TypeOK, DeliveryInv, RunnerPaymentStatus
  <2>6. \A s \in Session : \/ session'[s] = session[s]
                           \/ session[s] = "READY" /\ session'[s] = "EXPIRED"
    BY <2>2, MarkExpiredExpires
  <2>7. PayableHasSession' /\ EventsAreCaptures' /\ PaidHasReference'
    BY <2>1, <2>2, <2>6 DEF PayableHasSession, EventsAreCaptures, PaidHasReference, deliveryVars
  <2>8. SessionsMatchIntents' /\ ProcessedIsRecorded'
    BY <2>1, <2>2, <2>6 DEF SessionsMatchIntents, ProcessedIsRecorded, deliveryVars
  <2> QED
    BY <2>3, <2>5, <2>7, <2>8
<1>4. ASSUME NEW s \in Session, CreateSession(s) PROVE PaymentInv'
  <2>1. /\ UNCHANGED <<deliveryVars, paymentRef, overdue, event, place, seen>>
        /\ session' = [MarkExpired EXCEPT ![s] = "READY"]
        /\ intent' = [intent EXCEPT ![s] = "open"]
        /\ intent[s] = "none" /\ paymentStatus # "PAID" /\ paymentStatus' = "PAYMENT_READY"
        /\ Active = {} /\ runner # None /\ status # "NONE"
    BY <1>4 DEF CreateSession, handlerVars, Unused, CanPrepare, Payable
  <2>2. DeliveryInv'
    BY <2>1, DeliveryInvStep
  <2>3. MarkExpired \in [Session -> {"NONE", "READY", "COMPLETED", "FAILED", "EXPIRED"}]
    BY MarkExpiredExpires DEF MarkExpired
  <2>4. /\ session'[s] = "READY"
        /\ \A t \in Session : t # s =>
             /\ session'[t] # "READY"
             /\ session'[t] = session[t] \/ (session[t] = "READY" /\ session'[t] = "EXPIRED")
    BY <2>1, <2>3, MarkExpiredExpires
  <2>5. TypeOK'
    BY <2>1, <2>2, <2>3 DEF TypeOK, DeliveryInv, RunnerPaymentStatus
  <2>6. PayableHasSession' /\ EventsAreCaptures' /\ PaidHasReference'
    BY <2>1, <2>4 DEF TypeOK, PayableHasSession, EventsAreCaptures, PaidHasReference, deliveryVars
  <2>7. SessionsMatchIntents'
    BY <2>1, <2>4 DEF TypeOK, SessionsMatchIntents
  <2>8. ProcessedIsRecorded'
    BY <2>1 DEF TypeOK, ProcessedIsRecorded, deliveryVars
  <2> QED
    BY <2>2, <2>5, <2>6, <2>7, <2>8
<1>5. ASSUME NEW s \in Session, PrepareAborts(s) \/ SessionExpires(s) \/ Pay(s) \/ Decline(s)
      PROVE  PaymentInv'
  <2>1. /\ UNCHANGED <<deliveryVars, paymentStatus, paymentRef, session, place, seen>>
        /\ \/ intent' = intent
           \/ intent[s] = "none" /\ intent' = [intent EXCEPT ![s] = "orphan"]
           \/ intent[s] = "open" /\ intent' = [intent EXCEPT ![s] = "paid"]
    BY <1>5 DEF PrepareAborts, SessionExpires, Pay, Decline, handlerVars, Unused
  <2>2. DeliveryInv'
    BY <2>1, DeliveryInvStep
  <2>3. TypeOK'
    BY <1>5, <2>1, <2>2
    DEF TypeOK, DeliveryInv, PrepareAborts, SessionExpires, Pay, Decline, RunnerPaymentStatus
  <2>4. \/ event' = event
        \/ /\ event' = [event EXCEPT ![Succeeded(s)] = "sent"]
           /\ intent'[s] = "paid" /\ intent[s] = "open"
        \/ event' = [event EXCEPT ![Failed(s)] = "sent"] /\ event[Failed(s)] = "none"
    BY <1>5 DEF TypeOK, PrepareAborts, SessionExpires, Pay, Decline
  <2>5. PayableHasSession' /\ EventsAreCaptures' /\ PaidHasReference'
    BY <2>1, <2>4 DEF TypeOK, PayableHasSession, EventsAreCaptures, PaidHasReference, deliveryVars
  <2>6. SessionsMatchIntents' /\ ProcessedIsRecorded'
    BY <2>1, <2>4
    DEF TypeOK, SessionsMatchIntents, ProcessedIsRecorded, PayableHasSession, deliveryVars
  <2> QED
    BY <2>2, <2>3, <2>5, <2>6
<1>6. ASSUME NEW s \in Session, ReceiveSuccess(s) \/ ReceiveFailure(s) PROVE PaymentInv'
  <2>1. UNCHANGED <<deliveryVars, paymentStatus, paymentRef, session, overdue, intent>>
    BY <1>6 DEF ReceiveSuccess, ReceiveFailure, ClaimAndRead
  <2>2. DeliveryInv'
    BY <2>1, DeliveryInvStep
  <2>3. TypeOK'
    BY <1>6, <2>1, <2>2
    DEF TypeOK, ReceiveSuccess, ReceiveFailure, ClaimAndRead, RunnerPaymentStatus,
        DeliveryTypeOK, DeliveryInv
  <2>4. CASE ReceiveSuccess(s)
    <3>1. /\ event[Succeeded(s)] = "sent"
          /\ event' = [event EXCEPT ![Succeeded(s)] = "RECEIVED"]
          /\ place' = [place EXCEPT ![Succeeded(s)] = IF AlreadyPaid(s) THEN "mark" ELSE "write"]
          /\ seen' = [seen EXCEPT ![s] = IF AlreadyPaid(s) THEN "NONE" ELSE status]
      BY <2>4 DEF ReceiveSuccess, ClaimAndRead, Claimable
    <3>2. intent[s] = "paid" /\ status # "NONE"
      BY <3>1 DEF EventsAreCaptures, PayableHasSession
    <3>3. AlreadyPaid(s) => paymentRef # None
      BY DEF AlreadyPaid, PaidHasReference
    <3> QED
      BY <2>1, <2>2, <2>3, <3>1, <3>2, <3>3
      DEF TypeOK, PayableHasSession, EventsAreCaptures, PaidHasReference, SessionsMatchIntents,
          ProcessedIsRecorded, deliveryVars
  <2>5. CASE ReceiveFailure(s)
    <3>1. /\ event' = [event EXCEPT ![Failed(s)] = "RECEIVED"] /\ seen' = seen
          /\ place' = [place EXCEPT ![Failed(s)] =
                         IF session[s] = "COMPLETED" THEN "mark" ELSE "write"]
      BY <2>5 DEF ReceiveFailure, ClaimAndRead
    <3> QED
      BY <2>1, <2>2, <2>3, <3>1
      DEF TypeOK, PayableHasSession, EventsAreCaptures, PaidHasReference, SessionsMatchIntents,
          ProcessedIsRecorded, deliveryVars
  <2> QED
    BY <1>6, <2>4, <2>5
<1>7. ASSUME NEW s \in Session, ConfirmRunnerPayment(s) PROVE PaymentInv'
  <2>1. /\ place[Succeeded(s)] = "write"
        /\ session' = [session EXCEPT ![s] = "COMPLETED"]
        /\ paymentStatus' = "PAID" /\ paymentRef' = s /\ paymentRef' # None
        /\ status' = NextStatus(seen[s])
        /\ place' = [place EXCEPT ![Succeeded(s)] = "mark"]
        /\ seen' = [seen EXCEPT ![s] = "NONE"]
        /\ UNCHANGED <<runner, rootVars, jobVars, assigning, overdue, intent, event>>
    BY <1>7, NoneIsNoSession DEF ConfirmRunnerPayment
  <2>2. intent[s] = "paid" /\ runner # None /\ seen[s] \in DeliveryOrderStatus
    BY <2>1 DEF TypeOK, EventsAreCaptures, PayableHasSession
  <2>3. status' \in DeliveryOrderStatus /\ status' # "NONE"
    BY <2>1, <2>2 DEF NextStatus, DeliveryOrderStatus
  <2>4. DeliveryInv'
    BY <2>1, <2>2, <2>3
    DEF TypeOK, DeliveryInv, JobHasDelivery, DeliveryTypeOK, OneRunner, SingleWinner,
        RunnersAgree, rootVars, jobVars, DeliveryOrderStatus
  <2>5. TypeOK'
    BY <2>1, <2>4 DEF TypeOK, DeliveryInv, RunnerPaymentStatus
  <2>6. PayableHasSession' /\ EventsAreCaptures' /\ PaidHasReference'
    BY <2>1, <2>2, <2>3 DEF TypeOK, PayableHasSession, EventsAreCaptures, PaidHasReference
  <2>7. SessionsMatchIntents' /\ ProcessedIsRecorded'
    BY <2>1, <2>2, <2>3 DEF TypeOK, SessionsMatchIntents, ProcessedIsRecorded
  <2> QED
    BY <2>4, <2>5, <2>6, <2>7
<1>8. ASSUME NEW s \in Session, FailRunnerPayment(s) PROVE PaymentInv'
  <2>1. /\ session' = [session EXCEPT ![s] = "FAILED"]
        /\ paymentStatus' = "FAILED"
        /\ place' = [place EXCEPT ![Failed(s)] = "mark"] /\ place[Failed(s)] = "write"
        /\ UNCHANGED <<deliveryVars, paymentRef, overdue, intent, event, seen>>
    BY <1>8 DEF FailRunnerPayment
  <2>2. DeliveryInv'
    BY <2>1, DeliveryInvStep
  <2>3. TypeOK'
    BY <2>1, <2>2 DEF TypeOK, DeliveryInv, RunnerPaymentStatus
  <2>4. PayableHasSession' /\ EventsAreCaptures' /\ PaidHasReference'
    BY <2>1 DEF TypeOK, PayableHasSession, EventsAreCaptures, PaidHasReference, deliveryVars
  <2>5. SessionsMatchIntents' /\ ProcessedIsRecorded'
    BY <2>1 DEF TypeOK, SessionsMatchIntents, ProcessedIsRecorded, deliveryVars
  <2> QED
    BY <2>2, <2>3, <2>4, <2>5
<1>9. ASSUME NEW s \in Session, NEW e \in {Succeeded(s), Failed(s)},
             MarkProcessed(e) \/ MarkFailed(e)
      PROVE  PaymentInv'
  <2>1. /\ UNCHANGED <<deliveryVars, paymentStatus, paymentRef, session, overdue, intent, seen>>
        /\ place' = [place EXCEPT ![e] = "idle"] /\ place[e] # "idle"
        /\ \/ event' = [event EXCEPT ![e] = "PROCESSED"] /\ place[e] = "mark"
           \/ event' = [event EXCEPT ![e] = "FAILED"]
    BY <1>9 DEF MarkProcessed, MarkFailed, Marks
  <2>2. DeliveryInv'
    BY <2>1, DeliveryInvStep
  <2>3. e \in Event /\ event[e] = "RECEIVED"
    BY <2>1 DEF EventsAreCaptures
  <2>4. TypeOK'
    BY <2>1, <2>2, <2>3 DEF TypeOK, DeliveryInv
  <2>5. PayableHasSession' /\ EventsAreCaptures' /\ PaidHasReference' /\ SessionsMatchIntents'
    BY <2>1, <2>3
    DEF TypeOK, PayableHasSession, EventsAreCaptures, PaidHasReference, SessionsMatchIntents,
        deliveryVars
  <2>6. ProcessedIsRecorded'
    BY <2>1, <2>3 DEF TypeOK, PaidHasReference, ProcessedIsRecorded, deliveryVars
  <2> QED
    BY <2>2, <2>4, <2>5, <2>6
<1> QED
  BY <1>3, <1>4, <1>5, <1>6, <1>7, <1>8, <1>9 DEF PaymentNext, Webhook

LEMMA PaymentInvCorrect == Spec => []PaymentInv
<1>1. PaymentInv /\ UNCHANGED vars => PaymentInv'
  BY DEF PaymentInv, TypeOK, DeliveryInv, JobHasDelivery, DeliveryTypeOK, OneRunner,
     SingleWinner, RunnersAgree, PayableHasSession, EventsAreCaptures, PaidHasReference, SessionsMatchIntents,
     ProcessedIsRecorded, vars, deliveryVars, rootVars, jobVars, paymentVars, handlerVars
<1>2. PaymentInv /\ [Next]_vars => PaymentInv'
  BY <1>1, DeliveryKeepsPayment, PaymentStep DEF Next
<1> QED
  BY PaymentInvInit, <1>2, PTL DEF Spec

\* The same with payments, whose confirmation writes back a status that was read
\* in an earlier step (OneRunner, with RunnerPayment's steps among those of Delivery).
THEOREM OneRunnerAlways == Spec => []OneRunner
  BY PaymentInvCorrect, PTL DEF PaymentInv, DeliveryInv

\* However preparations, expiries and webhooks interleave, one session at most is open
\* to be paid, and every captured intent has its row (SessionsMatchIntents).
THEOREM SessionsMatchIntentsAlways == Spec => []SessionsMatchIntents
  BY PaymentInvCorrect, PTL DEF PaymentInv

\* Every success marked PROCESSED put a captured payment on the delivery order
\* (ProcessedIsRecorded).
THEOREM ProcessedIsRecordedAlways == Spec => []ProcessedIsRecorded
  BY PaymentInvCorrect, PTL DEF PaymentInv
=============================================================================
