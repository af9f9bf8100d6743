------------------------------ MODULE Refunds ------------------------------
(***************************************************************************)
(* Refund requests on captured payments: a client or an administrator asks *)
(* for one, an administrator reviews, approves or rejects it, and executes *)
(* it at Stripe. An execution commits the row as EXECUTING, calls Stripe   *)
(* outside every transaction, and records the outcome in another; it can   *)
(* die or fail at every step, and an administrator may execute again what  *)
(* is still EXECUTING.                                                     *)
(*                                                                         *)
(* A boundary is the ProviderOrder or the DeliveryOrder that was paid: the *)
(* code treats both alike. It is PAID for good (see ProviderPaymentProofs) *)
(* and its captured amount does not change. A request is one POST /refunds *)
(* and the row it creates.                                                 *)
(***************************************************************************)
EXTENDS Naturals, FiniteSets

CONSTANTS
  Request, Boundary, Actor,
  BoundaryOf, AskedBy,  \* the payment and the actor of a request
  Captured,             \* amount captured by the payment of a boundary
  Total,                \* sum of the amounts of a set of requests
  RequestLimit,         \* requests of an actor on a boundary (3 in the code)
  Call,                 \* executeRefund() calls that may be in flight
  None                  \* the request of a call that is not in flight

ASSUME ConstantsAssumption ==
  /\ BoundaryOf \in [Request -> Boundary]
  /\ AskedBy \in [Request -> Actor]
  /\ Captured \in [Boundary -> Nat]
  /\ Total \in [SUBSET Request -> Nat]
  /\ \A A, B \in SUBSET Request : A \cap B = {} => Total[A \cup B] = Total[A] + Total[B]
  /\ \A r \in Request : Total[{r}] \in 1..Captured[BoundaryOf[r]]
  /\ RequestLimit \in Nat
  /\ None \notin Request

VARIABLES
  status,     \* RefundRequest.status, or how far requestRefund() is with the row
  at,         \* what an executeRefund() call does next
  of,         \* the request it executes
  wire,       \* refund creations sent to Stripe
  made,       \* those Stripe refunded
  declined,   \* those Stripe refused
  overlapped  \* history: requests that two calls were executing at once

stripeVars == <<wire, made, declined>>
vars == <<status, at, of, stripeVars, overlapped>>

Asking == {"NEW", "COUNTED", "CHECKED"}
Live == {"REQUESTED", "UNDER_REVIEW", "APPROVED", "EXECUTING", "COMPLETED"}
Status == Asking \cup Live \cup {"REJECTED", "FAILED"}

Init ==
  /\ status = [r \in Request |-> "NEW"]
  /\ at = [c \in Call |-> "idle"]
  /\ of = [c \in Call |-> None]
  /\ wire = {} /\ made = {} /\ declined = {}
  /\ overlapped = {}

(***************************************************************************)
(* requestRefund(): one transaction, without a lock on the boundary.       *)
(***************************************************************************)
Peers(r) == {q \in Request : BoundaryOf[q] = BoundaryOf[r]}

CountRequests(r) ==
  /\ status[r] = "NEW"
  /\ Cardinality({q \in Peers(r) : AskedBy[q] = AskedBy[r] /\ status[q] \notin Asking})
       < RequestLimit
  /\ status' = [status EXCEPT ![r] = "COUNTED"]
  /\ UNCHANGED <<at, of, stripeVars, overlapped>>

\* Mutant of Reserved: what is being executed is not counted.
ReservedIdle(r) == {q \in Peers(r) \ {r} : status[q] \in Live \ {"EXECUTING"}}

\* What assertRefundCapacity() aggregates: the other live requests of the boundary.
Reserved(r) == {q \in Peers(r) \ {r} : status[q] \in Live}

Fits(r) == Total[Reserved(r)] + Total[{r}] <= Captured[BoundaryOf[r]]

CheckCapacity(r) ==
  /\ status[r] = "COUNTED" /\ Fits(r)
  /\ status' = [status EXCEPT ![r] = "CHECKED"]
  /\ UNCHANGED <<at, of, stripeVars, overlapped>>

CreateRequest(r) ==
  /\ status[r] = "CHECKED"
  /\ status' = [status EXCEPT ![r] = "REQUESTED"]
  /\ UNCHANGED <<at, of, stripeVars, overlapped>>

(***************************************************************************)
(* transitionRefundStatus(), under the lock of the row. To repeat a        *)
(* transition changes nothing.                                             *)
(***************************************************************************)
Transition(r, current, next) ==
  /\ status[r] = current
  /\ status' = [status EXCEPT ![r] = next]
  /\ UNCHANGED <<at, of, stripeVars, overlapped>>

ReviewRefund(r) == Transition(r, "REQUESTED", "UNDER_REVIEW")
ApproveRefund(r) == Transition(r, "UNDER_REVIEW", "APPROVED")

\* Mutant of RejectRefund: every request that is not completed can be rejected.
RejectAny(r) ==
  /\ status[r] \in Live \ {"COMPLETED"}
  /\ Transition(r, status[r], "REJECTED")

RejectRefund(r) == Transition(r, "UNDER_REVIEW", "REJECTED")

(***************************************************************************)
(* executeRefund().                                                        *)
(***************************************************************************)
Busy(r) == {c \in Call : of[c] = r}

\* Mutant of Creation: the idempotency key is the call's own.
CreationOfCall(c, r) == [key |-> <<c, r>>, of |-> r]

\* What is sent to Stripe: the idempotency key is refund-request:<id>.
Creation(c, r) == [key |-> r, of |-> r]

\* Mutant of PrepareExecution: a completed request is executed again.
PrepareAgain(c, r) ==
  /\ at[c] = "idle"
  /\ status[r] \in {"APPROVED", "EXECUTING", "COMPLETED"}
  /\ Fits(r)
  /\ status' = [status EXCEPT ![r] = "EXECUTING"]
  /\ at' = [at EXCEPT ![c] = "calling"]
  /\ of' = [of EXCEPT ![c] = r]
  /\ wire' = wire \cup {Creation(c, r)}
  /\ overlapped' = IF Busy(r) = {} THEN overlapped ELSE overlapped \cup {r}
  /\ UNCHANGED <<made, declined>>

\* The first transaction holds the locks of the row and of its boundary, so that
\* no other execution on the boundary comes between the aggregate and the update.
\* Then Stripe is called: a creation that is lost, or that a crash keeps from
\* being sent, is one Stripe never processes.
PrepareExecution(c, r) ==
  /\ at[c] = "idle"
  /\ status[r] \in {"APPROVED", "EXECUTING"}
  /\ Fits(r)
  /\ status' = [status EXCEPT ![r] = "EXECUTING"]
  /\ at' = [at EXCEPT ![c] = "calling"]
  /\ of' = [of EXCEPT ![c] = r]
  /\ wire' = wire \cup {Creation(c, r)}
  /\ overlapped' = IF Busy(r) = {} THEN overlapped ELSE overlapped \cup {r}
  /\ UNCHANGED <<made, declined>>

\* Mutant of Answer: the outcome of the creation is not looked at.
AnswerUnchecked(c) ==
  /\ at[c] = "calling"
  /\ \E m \in made \cup declined : m = Creation(c, of[c])
  /\ at' = [at EXCEPT ![c] = "refunded"]
  /\ UNCHANGED <<status, of, stripeVars, overlapped>>

\* Stripe's answer: the refund, or an error, which the code catches.
Answer(c) ==
  /\ at[c] = "calling"
  /\ \/ /\ Creation(c, of[c]) \in made
        /\ at' = [at EXCEPT ![c] = "refunded"]
     \/ /\ Creation(c, of[c]) \in declined
        /\ at' = [at EXCEPT ![c] = "failed"]
  /\ UNCHANGED <<status, of, stripeVars, overlapped>>

\* The call times out or its answer is lost; or Stripe has refunded and a statement
\* of the last transaction fails. Both are caught in the same place.
ExecutionFails(c) ==
  /\ at[c] \in {"calling", "refunded"}
  /\ at' = [at EXCEPT ![c] = "failed"]
  /\ UNCHANGED <<status, of, stripeVars, overlapped>>

Finish(c) ==
  /\ at' = [at EXCEPT ![c] = "idle"]
  /\ of' = [of EXCEPT ![c] = None]
  /\ UNCHANGED <<stripeVars, overlapped>>

\* Mutant of Complete: the row takes the status of Stripe's refund.
CompleteAsStripe(c) ==
  /\ at[c] = "refunded"
  /\ status' = [status EXCEPT ![of[c]] = "succeeded"]
  /\ Finish(c)

\* The last transaction, under the lock of the row, whatever its status is now.
Complete(c) ==
  /\ at[c] = "refunded"
  /\ status' = [status EXCEPT ![of[c]] = "COMPLETED"]
  /\ Finish(c)

\* The handler of errors: no lock, and no condition on the row's status.
MarkFailed(c) ==
  /\ at[c] = "failed"
  /\ status' = [status EXCEPT ![of[c]] = "FAILED"]
  /\ Finish(c)

\* The process dies, or the handler's own statement fails.
Crash(c) ==
  /\ at[c] # "idle"
  /\ Finish(c)
  /\ UNCHANGED status

(***************************************************************************)
(* Stripe: a key is processed once, and a payment is never refunded beyond *)
(* what it captured.                                                       *)
(***************************************************************************)
Refunded(b) == {r \in Request : BoundaryOf[r] = b /\ \E m \in made : m.of = r}

StripeProcesses(m) ==
  LET b == BoundaryOf[m.of] IN
  /\ \A n \in made \cup declined : n.key # m.key
  /\ \/ /\ Total[Refunded(b)] + Total[{m.of}] <= Captured[b]
        /\ made' = made \cup {m} /\ UNCHANGED declined
     \/ /\ Total[Refunded(b)] + Total[{m.of}] > Captured[b]
        /\ declined' = declined \cup {m} /\ UNCHANGED made
  /\ UNCHANGED <<status, at, of, wire, overlapped>>

Next ==
  \/ \E r \in Request :
       \/ CountRequests(r) \/ CheckCapacity(r) \/ CreateRequest(r)
       \/ ReviewRefund(r) \/ ApproveRefund(r) \/ RejectRefund(r)
       \/ \E c \in Call : PrepareExecution(c, r)
  \/ \E c \in Call : Answer(c) \/ ExecutionFails(c) \/ Complete(c) \/ MarkFailed(c) \/ Crash(c)
  \/ \E m \in wire : StripeProcesses(m)

Spec == Init /\ [][Next]_vars

-----------------------------------------------------------------------------
(***************************************************************************)
(* Properties.                                                             *)
(***************************************************************************)

\* Rows hold the schema's statuses, and a call in flight knows its request.
TypeOK ==
  /\ status \in [Request -> Status]
  /\ at \in [Call -> {"idle", "calling", "refunded", "failed"}]
  /\ of \in [Call -> Request \cup {None}]
  /\ \A c \in Call : at[c] = "idle" <=> of[c] = None
  /\ \A m \in wire : m.of \in Request
  /\ made \subseteq wire /\ declined \subseteq wire
  /\ overlapped \subseteq Request

\* However often a request is executed, again after a crash, in parallel, or after an
\* answer was lost, its amount is refunded at Stripe at most once.
RefundedOnce == \A m, n \in made : m.of = n.of => m = n

\* No money moves for a request nobody approved, nor is one rejected whose money moved.
RefundedWasApproved ==
  \A m \in made : status[m.of] \in {"EXECUTING", "COMPLETED", "FAILED"}

\* A request is COMPLETED only if Stripe refunded it, whichever of several executions
\* of it has recorded its outcome last.
CompletedIsRefunded ==
  \A r \in Request : status[r] = "COMPLETED" => \E m \in made : m.of = r

Committed(b) ==
  {r \in Request : BoundaryOf[r] = b /\ status[r] \in {"EXECUTING", "COMPLETED"}}

NotOverlapped(b) == \A r \in overlapped : BoundaryOf[r] # b

\* What is being refunded and what was refunded on a payment never exceed what it
\* captured, even if concurrent requests together do, unless two calls executed the
\* same request at once: one may then record FAILED, and free the amount, before the
\* other records COMPLETED.
CommittedWithinCapture ==
  \A b \in Boundary : NotOverlapped(b) => Total[Committed(b)] <= Captured[b]

\* A completed refund stays completed, unless two calls executed it at once: the one
\* that fails would overwrite the other's outcome.
CompletedStays ==
  [][\A r \in Request \ overlapped : status[r] = "COMPLETED" => status'[r] = "COMPLETED"]_vars

-----------------------------------------------------------------------------
(***************************************************************************)
(* RefundLedger is implemented: a request that was executed was approved,  *)
(* and its amount has moved as often as Stripe made a refund of it.        *)
(***************************************************************************)
Decision ==
  [r \in Request |->
     IF status[r] \in {"APPROVED", "EXECUTING", "COMPLETED", "FAILED"} THEN "approved"
     ELSE IF status[r] = "REJECTED" THEN "rejected" ELSE "open"]

RefundsOf(r) == {m \in made : m.of = r}

Ledger == INSTANCE RefundLedger WITH
  decision <- Decision, refunds <- [r \in Request |-> Cardinality(RefundsOf(r))]

\* However executions overlap, fail, are lost and repeated, an observer of the decisions
\* and of the money sees requests decided for good, and approved ones refunded once, in one
\* step, within the capture: no money moves for a request nobody approved, and none is
\* rejected whose money moved.
ImplementsLedger == Ledger!Spec
=============================================================================
