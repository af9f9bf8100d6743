--------------------------- MODULE DonationsProofs ---------------------------
(***************************************************************************)
(* Proofs about Donations, for any number of sessions and of declined      *)
(* attempts that Stripe tells of.                                          *)
(***************************************************************************)
EXTENDS Donations, TLAPS

\* What only a payment brings about: its event and its handler, a completed session, a
\* failure that is ignored, a completed donation.
Captured ==
  /\ \A s \in Session : event[Succeeded(s)] # "none" => intent[s] = "paid"
  /\ \A s \in Session : place[Succeeded(s)] # "idle" => intent[s] = "paid"
  /\ \A s \in Session : session[s] = "COMPLETED" => intent[s] = "paid"
  /\ \A s \in Session, a \in Attempt :
       place[Failed(s, a)] = "ignore" \/ event[Failed(s, a)] = "IGNORED" => intent[s] = "paid"
  /\ donationStatus = "COMPLETED" => externalRef \in Session /\ intent[externalRef] = "paid"

DonationInv == DonationTypeOK /\ Captured /\ OneReadySession

LEMMA EventsDiffer ==
  ASSUME NEW s \in Session, NEW r \in Session, NEW a \in Attempt, NEW b \in Attempt
  PROVE  /\ Succeeded(s) \in Event /\ Failed(s, a) \in Event
         /\ Succeeded(s) # Failed(r, a)
         /\ Succeeded(s) = Succeeded(r) <=> s = r
         /\ Failed(s, a) = Failed(r, b) <=> s = r /\ a = b
BY DEF Event, Succeeded, Failed

LEMMA SucceededIsEvent ==
  ASSUME NEW s \in Session, NEW r \in Session
  PROVE  Succeeded(s) \in Event /\ (Succeeded(s) = Succeeded(r) <=> s = r)
BY DEF Event, Succeeded

LEMMA DonationsAtFirst == DonationInit => DonationInv
<1> SUFFICES ASSUME DonationInit PROVE DonationInv
  OBVIOUS
<1>1. DonationTypeOK
  BY DEF DonationInit, DonationTypeOK, DonationStatus
<1>2. Captured
  BY EventsDiffer, SucceededIsEvent DEF DonationInit, Captured
<1>3. OneReadySession
  BY DEF DonationInit, OneReadySession
<1> QED BY <1>1, <1>2, <1>3 DEF DonationInv

LEMMA PreparationKeeps ==
  ASSUME DonationInv, NEW s \in Session,
         ReuseSession(s) \/ CreateSession(s) \/ PrepareAborts(s) \/ SessionExpires(s)
  PROVE  DonationInv'
<1> USE DEF DonationInv
<1>1. CASE ReuseSession(s)
  <2>1. DonationTypeOK'
    BY <1>1 DEF DonationTypeOK, ReuseSession, MarkExpired, DonationStatus
  <2>2. Captured'
    BY <1>1, SucceededIsEvent DEF DonationTypeOK, Captured, ReuseSession, MarkExpired
  <2>3. OneReadySession'
    BY <1>1 DEF OneReadySession, ReuseSession, MarkExpired
  <2> QED BY <2>1, <2>2, <2>3
<1>2. CASE CreateSession(s)
  <2>1. DonationTypeOK'
    BY <1>2 DEF DonationTypeOK, CreateSession, MarkExpired, DonationStatus
  <2>2. Captured'
    BY <1>2, SucceededIsEvent DEF DonationTypeOK, Captured, CreateSession, MarkExpired
  <2>3. \A r \in Session \ {s} : session'[r] # "READY"
    BY <1>2 DEF DonationTypeOK, CreateSession, MarkExpired, NoneActive, Active
  <2>4. OneReadySession'
    BY <2>3 DEF OneReadySession
  <2> QED BY <2>1, <2>2, <2>4
<1>3. CASE PrepareAborts(s)
  <2>1. DonationTypeOK' /\ OneReadySession'
    BY <1>3 DEF DonationTypeOK, OneReadySession, PrepareAborts
  <2>2. Captured'
    BY <1>3 DEF DonationTypeOK, Captured, PrepareAborts
  <2> QED BY <2>1, <2>2
<1>4. CASE SessionExpires(s)
  BY <1>4 DEF DonationTypeOK, Captured, OneReadySession, SessionExpires
<1> QED BY <1>1, <1>2, <1>3, <1>4

LEMMA StripeKeeps ==
  ASSUME DonationInv, NEW s \in Session, Pay(s) \/ \E a \in Attempt : Decline(s, a)
  PROVE  DonationInv'
<1> USE DEF DonationInv
<1>1. CASE Pay(s)
  <2>1. DonationTypeOK' /\ OneReadySession'
    BY <1>1 DEF DonationTypeOK, OneReadySession, Pay
  <2>2. Captured'
    BY <1>1, SucceededIsEvent, EventsDiffer DEF DonationTypeOK, Captured, Pay
  <2> QED BY <2>1, <2>2
<1>2. ASSUME NEW a \in Attempt, Decline(s, a) PROVE DonationInv'
  <2>1. DonationTypeOK' /\ OneReadySession'
    <3>1. DonationTypeOK'
      BY <1>2 DEF DonationTypeOK, Decline
    <3>2. OneReadySession'
      BY <1>2 DEF DonationTypeOK, OneReadySession, Decline
    <3> QED BY <3>1, <3>2
  <2>2. Captured'
    BY <1>2, SucceededIsEvent, EventsDiffer DEF DonationTypeOK, Captured, Decline
  <2> QED BY <2>1, <2>2
<1> QED BY <1>1, <1>2

\* A handler of a success may claim and go on when the money is captured, one of a
\* failure may be on its way to ignore it then.
LEMMA ClaimKeeps ==
  ASSUME DonationInv, NEW s \in Session,
         ReceiveSuccess(s) \/ \E a \in Attempt : ReceiveFailure(s, a)
  PROVE  DonationInv'
<1> USE DEF DonationInv
<1>1. CASE ReceiveSuccess(s)
  <2>1. DonationTypeOK' /\ OneReadySession'
    BY <1>1 DEF DonationTypeOK, OneReadySession, ReceiveSuccess, ClaimAndRead
  <2>2. Captured'
    BY <1>1, SucceededIsEvent, EventsDiffer DEF DonationTypeOK, Captured, ReceiveSuccess, ClaimAndRead
  <2> QED BY <2>1, <2>2
<1>2. ASSUME NEW a \in Attempt, ReceiveFailure(s, a) PROVE DonationInv'
  <2>1. DonationTypeOK' /\ OneReadySession'
    <3>1. DonationTypeOK'
      BY <1>2 DEF DonationTypeOK, ReceiveFailure, ClaimAndRead
    <3>2. OneReadySession'
      BY <1>2 DEF DonationTypeOK, OneReadySession, ReceiveFailure, ClaimAndRead
    <3> QED BY <3>1, <3>2
  <2>2. Captured'
    BY <1>2, SucceededIsEvent, EventsDiffer
       DEF DonationTypeOK, Captured, ReceiveFailure, ClaimAndRead, NothingToFail
  <2> QED BY <2>1, <2>2
<1> QED BY <1>1, <1>2

LEMMA OutcomeKeeps ==
  ASSUME DonationInv, NEW s \in Session,
         ConfirmDonationPayment(s) \/ \E a \in Attempt : FailDonationPayment(s, a)
  PROVE  DonationInv'
<1> USE DEF DonationInv
<1>1. CASE ConfirmDonationPayment(s)
  <2>1. DonationTypeOK' /\ OneReadySession'
    BY <1>1 DEF DonationTypeOK, OneReadySession, ConfirmDonationPayment, RefOnConfirm, DonationStatus
  <2>2. Captured'
    BY <1>1, SucceededIsEvent, EventsDiffer
       DEF DonationTypeOK, Captured, ConfirmDonationPayment, RefOnConfirm
  <2> QED BY <2>1, <2>2
<1>2. ASSUME NEW a \in Attempt, FailDonationPayment(s, a) PROVE DonationInv'
  <2>1. DonationTypeOK' /\ OneReadySession'
    <3>1. DonationTypeOK'
      BY <1>2 DEF DonationTypeOK, FailDonationPayment, DonationStatus
    <3>2. OneReadySession'
      BY <1>2 DEF DonationTypeOK, OneReadySession, FailDonationPayment
    <3> QED BY <3>1, <3>2
  <2>2. Captured'
    BY <1>2, SucceededIsEvent, EventsDiffer DEF DonationTypeOK, Captured, FailDonationPayment
  <2> QED BY <2>1, <2>2
<1> QED BY <1>1, <1>2

LEMMA MarkKeeps ==
  ASSUME DonationInv, NEW e \in Event, MarkOutcome(e) \/ MarkFailed(e)
  PROVE  DonationInv'
<1> USE DEF DonationInv
<1>1. DonationTypeOK' /\ OneReadySession'
  BY DEF DonationTypeOK, OneReadySession, MarkOutcome, MarkFailed, Marks
<1>2. Captured'
  BY SucceededIsEvent, EventsDiffer DEF DonationTypeOK, Captured, MarkOutcome, MarkFailed, Marks
<1> QED BY <1>1, <1>2

LEMMA DonationsStep == DonationInv /\ [DonationNext]_donationVars => DonationInv'
<1> SUFFICES ASSUME DonationInv, [DonationNext]_donationVars PROVE DonationInv'
  OBVIOUS
<1>1. CASE DonationNext
  BY <1>1, PreparationKeeps, StripeKeeps, ClaimKeeps, OutcomeKeeps, MarkKeeps DEF DonationNext
<1>2. CASE UNCHANGED donationVars
  BY <1>2 DEF DonationInv, DonationTypeOK, Captured, OneReadySession, donationVars
<1> QED BY <1>1, <1>2

\* A completed donation names a captured payment, whatever the order in which its
\* sessions are prepared, declined and paid and the events handled.
THEOREM CompletedIsCapturedAlways == DonationSpec => []CompletedIsCaptured
<1>1. DonationInv => CompletedIsCaptured
  BY DEF DonationInv, Captured, CompletedIsCaptured
<1> QED BY <1>1, DonationsAtFirst, DonationsStep, PTL DEF DonationSpec

\* The donor never has two sessions open to be paid.
THEOREM OneReadySessionAlways == DonationSpec => []OneReadySession
<1>1. DonationInv => OneReadySession
  BY DEF DonationInv
<1> QED BY <1>1, DonationsAtFirst, DonationsStep, PTL DEF DonationSpec

\* A failure is ignored only when its own intent was captured.
THEOREM IgnoredIsPaidAlways == DonationSpec => []IgnoredIsPaid
<1>1. DonationInv => IgnoredIsPaid
  BY DEF DonationInv, Captured, IgnoredIsPaid
<1> QED BY <1>1, DonationsAtFirst, DonationsStep, PTL DEF DonationSpec

\* The donation, its sessions, intents and events keep to their types.
THEOREM DonationTypes == DonationSpec => []DonationTypeOK
<1>1. DonationInv => DonationTypeOK
  BY DEF DonationInv
<1> QED BY <1>1, DonationsAtFirst, DonationsStep, PTL DEF DonationSpec
=============================================================================
