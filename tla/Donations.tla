------------------------------ MODULE Donations ------------------------------
(***************************************************************************)
(* A donation to the platform and its payment: preparation under the lock  *)
(* of the donation, and a webhook that records the outcome of an intent    *)
(* without a lock, in a transaction that reads and then writes. An intent  *)
(* is named by the session that would record it.                           *)
(***************************************************************************)
CONSTANTS
  Session,   \* the sessions the donation may come to have
  Attempt,   \* the declined attempts to pay one intent that Stripe tells of
  NoReference       \* null: no reference

VARIABLES
  donationStatus, externalRef,   \* of the PlatformDonation
  session, overdue,      \* DonationSession.status ("NONE": no row); past expiresAt
  intent,                \* the intents at Stripe
  event,                 \* DonationWebhookEvent.status ("sent": no row yet)
  place                  \* what a handler does next

donationVars == <<donationStatus, externalRef, session, overdue, intent, event, place>>

DonationStatus == {"CREATED", "READY", "COMPLETED", "FAILED", "EXPIRED"}

Succeeded(s) == <<s, "succeeded", NoReference>>
Failed(s, a) == <<s, "payment_failed", a>>
Event == {Succeeded(s) : s \in Session} \cup {Failed(s, a) : s \in Session, a \in Attempt}

DonationInit ==
  /\ donationStatus = "CREATED" /\ externalRef = NoReference
  /\ session = [s \in Session |-> "NONE"] /\ overdue = {}
  /\ intent = [s \in Session |-> "none"]
  /\ event = [e \in Event |-> "none"] /\ place = [e \in Event |-> "idle"]

(***************************************************************************)
(* Preparation. A rollback after the intent leaves an intent nobody knows. *)
(***************************************************************************)
CanPrepare == donationStatus # "COMPLETED"

Active == {s \in Session : session[s] = "READY" /\ s \notin overdue}

MarkExpired ==
  [s \in Session |-> IF session[s] = "READY" /\ s \in overdue THEN "EXPIRED" ELSE session[s]]

ReuseSession(s) ==
  /\ CanPrepare /\ s \in Active
  /\ session' = MarkExpired
  /\ donationStatus' = "READY" /\ externalRef' = s
  /\ UNCHANGED <<overdue, intent, event, place>>

NoneActive == Active = {}

CreateSession(s) ==
  /\ CanPrepare /\ NoneActive /\ intent[s] = "none"
  /\ session' = [MarkExpired EXCEPT ![s] = "READY"]
  /\ intent' = [intent EXCEPT ![s] = "open"]
  /\ donationStatus' = "READY" /\ externalRef' = s
  /\ UNCHANGED <<overdue, event, place>>

PrepareAborts(s) ==
  /\ CanPrepare /\ NoneActive /\ intent[s] = "none"
  /\ intent' = [intent EXCEPT ![s] = "orphan"]
  /\ UNCHANGED <<donationStatus, externalRef, session, overdue, event, place>>

SessionExpires(s) ==
  /\ session[s] = "READY" /\ s \notin overdue
  /\ overdue' = overdue \cup {s}
  /\ UNCHANGED <<donationStatus, externalRef, session, intent, event, place>>

(***************************************************************************)
(* Stripe and the donor, and the webhook. An event is claimed once.        *)
(***************************************************************************)
Pay(s) ==
  /\ intent[s] = "open"
  /\ intent' = [intent EXCEPT ![s] = "paid"]
  /\ event' = [event EXCEPT ![Succeeded(s)] = "sent"]
  /\ UNCHANGED <<donationStatus, externalRef, session, overdue, place>>

Decline(s, a) ==
  /\ intent[s] = "open" /\ event[Failed(s, a)] = "none"
  /\ event' = [event EXCEPT ![Failed(s, a)] = "sent"]
  /\ UNCHANGED <<donationStatus, externalRef, session, overdue, intent, place>>

ClaimAndRead(e, next) ==
  /\ event[e] = "sent"
  /\ event' = [event EXCEPT ![e] = "RECEIVED"]
  /\ place' = [place EXCEPT ![e] = next]
  /\ UNCHANGED <<donationStatus, externalRef, session, overdue, intent>>

ReceiveSuccess(s) ==
  ClaimAndRead(Succeeded(s),
    IF session[s] = "COMPLETED" \/ donationStatus = "COMPLETED" THEN "mark" ELSE "write")

NothingToFail(s) == session[s] = "COMPLETED"

ReceiveFailure(s, a) ==
  ClaimAndRead(Failed(s, a), IF NothingToFail(s) THEN "ignore" ELSE "write")

\* Mutant of RefOnConfirm: the reference the preparation wrote is kept.
RefAsPrepared(s) == externalRef

RefOnConfirm(s) == s

ConfirmDonationPayment(s) ==
  /\ place[Succeeded(s)] = "write"
  /\ session' = [session EXCEPT ![s] = "COMPLETED"]
  /\ donationStatus' = "COMPLETED" /\ externalRef' = RefOnConfirm(s)
  /\ place' = [place EXCEPT ![Succeeded(s)] = "mark"]
  /\ UNCHANGED <<overdue, intent, event>>

\* It looks at the session it has read, not at the donation.
FailDonationPayment(s, a) ==
  /\ place[Failed(s, a)] = "write"
  /\ session' = [session EXCEPT ![s] = "FAILED"]
  /\ donationStatus' = "FAILED" /\ externalRef' = s
  /\ place' = [place EXCEPT ![Failed(s, a)] = "mark"]
  /\ UNCHANGED <<overdue, intent, event>>

Marks(e, final) ==
  /\ event' = [event EXCEPT ![e] = final]
  /\ place' = [place EXCEPT ![e] = "idle"]
  /\ UNCHANGED <<donationStatus, externalRef, session, overdue, intent>>

MarkOutcome(e) ==
  \/ place[e] = "mark" /\ Marks(e, "PROCESSED")
  \/ place[e] = "ignore" /\ Marks(e, "IGNORED")

\* The catch block, after a rollback or a failure to mark.
MarkFailed(e) == place[e] # "idle" /\ Marks(e, "FAILED")

DonationNext ==
  \/ \E s \in Session :
       \/ ReuseSession(s) \/ CreateSession(s) \/ PrepareAborts(s) \/ SessionExpires(s)
       \/ Pay(s) \/ ReceiveSuccess(s) \/ ConfirmDonationPayment(s)
       \/ \E a \in Attempt : Decline(s, a) \/ ReceiveFailure(s, a) \/ FailDonationPayment(s, a)
  \/ \E e \in Event : MarkOutcome(e) \/ MarkFailed(e)

DonationSpec == DonationInit /\ [][DonationNext]_donationVars

-----------------------------------------------------------------------------
DonationTypeOK ==
  /\ donationStatus \in DonationStatus /\ externalRef \in Session \cup {NoReference}
  /\ session \in [Session -> {"NONE", "READY", "COMPLETED", "FAILED", "EXPIRED"}]
  /\ overdue \subseteq Session
  /\ intent \in [Session -> {"none", "open", "orphan", "paid"}]
  /\ event \in [Event -> {"none", "sent", "RECEIVED", "PROCESSED", "IGNORED", "FAILED"}]
  /\ place \in [Event -> {"idle", "write", "mark", "ignore"}]

\* At any time one session at most is open to be paid.
OneReadySession == \A s1, s2 \in Session :
  session[s1] = "READY" /\ session[s2] = "READY" => s1 = s2

\* A donation that is COMPLETED names an intent that was captured, whichever of its
\* sessions was prepared, declined or paid last.
CompletedIsCaptured ==
  donationStatus = "COMPLETED" => externalRef \in Session /\ intent[externalRef] = "paid"

\* A failure is ignored only in favour of a payment through the intent it is about, be
\* the donation completed by another one and the attempts told of in any order.
IgnoredIsPaid == \A s \in Session, a \in Attempt :
  event[Failed(s, a)] = "IGNORED" => intent[s] = "paid"
=============================================================================
