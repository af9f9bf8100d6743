--------------------------- MODULE RefundsProofs ---------------------------
(***************************************************************************)
(* Theorems about Refunds, for every value of its constants: any number of *)
(* payments, of requests of whatever amounts, and of executions in flight. *)
(***************************************************************************)
EXTENDS Refunds, FiniteSetTheorems, TLAPS

\* The type invariant of the run.
LEMMA TypeStep == TypeOK /\ [Next]_vars => TypeOK'
<1> SUFFICES ASSUME TypeOK, [Next]_vars PROVE TypeOK'
  OBVIOUS
<1> USE ConstantsAssumption DEF TypeOK
<1>1. ASSUME NEW r \in Request, NEW s \in Status, status' = [status EXCEPT ![r] = s],
             UNCHANGED <<at, of, stripeVars, overlapped>>
      PROVE  TypeOK'
  BY <1>1 DEF stripeVars
<1>2. ASSUME NEW r \in Request, \/ CountRequests(r) \/ CheckCapacity(r) \/ CreateRequest(r)
                                \/ ReviewRefund(r) \/ ApproveRefund(r) \/ RejectRefund(r)
      PROVE  TypeOK'
  BY <1>1, <1>2 DEF CountRequests, CheckCapacity, CreateRequest, ReviewRefund,
     ApproveRefund, RejectRefund, Transition, Status, Asking, Live
<1>3. ASSUME NEW r \in Request, NEW c \in Call, PrepareExecution(c, r) PROVE TypeOK'
  BY <1>3 DEF PrepareExecution, Creation, Status, Live
<1>4. ASSUME NEW c \in Call, Answer(c) \/ ExecutionFails(c) PROVE TypeOK'
  BY <1>4 DEF Answer, ExecutionFails, stripeVars
<1>5. ASSUME NEW c \in Call, Complete(c) \/ MarkFailed(c) \/ Crash(c) PROVE TypeOK'
  BY <1>5 DEF Complete, MarkFailed, Crash, Finish, stripeVars, Status, Live
<1>6. ASSUME NEW m \in wire, StripeProcesses(m) PROVE TypeOK'
  BY <1>6 DEF StripeProcesses
<1>7. CASE UNCHANGED vars
  BY <1>7 DEF vars, stripeVars
<1> QED
  BY <1>2, <1>3, <1>4, <1>5, <1>6, <1>7 DEF Next

\* Rows hold the schema's statuses, in every reachable state.
THEOREM RefundTypes == Spec => []TypeOK
<1>1. Init => TypeOK
  BY ConstantsAssumption DEF Init, TypeOK, Status, Asking
<1> QED
  BY <1>1, TypeStep, PTL DEF Spec

-----------------------------------------------------------------------------
(***************************************************************************)
(* Stripe and the rows. What was sent names its request by the key and was *)
(* approved; a call in flight has sent its creation, and one that was told *)
(* of the refund is right.                                                 *)
(***************************************************************************)
Executed == {"EXECUTING", "COMPLETED", "FAILED"}

KeysOfRequests == \A m \in wire : m = [key |-> m.of, of |-> m.of]

SentWasApproved == \A m \in wire : status[m.of] \in Executed

CallsSent ==
  \A c \in Call : /\ of[c] # None => Creation(c, of[c]) \in wire
                  /\ at[c] = "refunded" => Creation(c, of[c]) \in made

StripeInv ==
  /\ TypeOK
  /\ KeysOfRequests /\ SentWasApproved /\ CallsSent /\ CompletedIsRefunded

\* A step that only moves a row which was not executed keeps the invariant.
LEMMA UnexecutedStep ==
  ASSUME StripeInv, TypeOK', NEW r \in Request, status[r] \notin Executed,
         NEW s \in Status \ {"COMPLETED"}, status' = [status EXCEPT ![r] = s],
         UNCHANGED <<at, of, stripeVars, overlapped>>
  PROVE  StripeInv'
BY DEF StripeInv, TypeOK, KeysOfRequests, SentWasApproved, CallsSent, CompletedIsRefunded,
   Creation, stripeVars

\* An execution sends the creation of a request that was approved.
LEMMA PrepareStripe ==
  ASSUME StripeInv, TypeOK', NEW r \in Request, NEW c \in Call, PrepareExecution(c, r)
  PROVE  StripeInv'
<1> USE ConstantsAssumption DEF StripeInv, TypeOK, PrepareExecution, Creation
<1>1. KeysOfRequests'
  BY DEF KeysOfRequests
<1>2. SentWasApproved'
  BY DEF SentWasApproved, Executed
<1>3. CallsSent'
  BY DEF CallsSent
<1>4. CompletedIsRefunded'
  BY DEF CompletedIsRefunded
<1> QED
  BY <1>1, <1>2, <1>3, <1>4

\* A call that ends records what it knows of a request whose creation was sent.
LEMMA FinishStripe ==
  ASSUME StripeInv, TypeOK', NEW c \in Call, Complete(c) \/ MarkFailed(c) \/ Crash(c)
  PROVE  StripeInv'
<1> USE ConstantsAssumption DEF StripeInv, TypeOK, Complete, MarkFailed, Crash, Finish, stripeVars
<1>1. of[c] \in Request
  OBVIOUS
<1>2. KeysOfRequests'
  BY DEF KeysOfRequests
<1>3. SentWasApproved'
  BY <1>1 DEF SentWasApproved, Executed
<1>4. CallsSent'
  BY DEF CallsSent, Creation
<1>5. ASSUME Complete(c) PROVE \E m \in made : m.of = of[c]
  <2> DEFINE sent == [key |-> of[c], of |-> of[c]]
  <2>1. sent \in made
    BY <1>5 DEF CallsSent, Creation
  <2>2. sent.of = of[c]
    OBVIOUS
  <2> HIDE DEF sent
  <2> QED
    BY <2>1, <2>2
<1>6. CompletedIsRefunded'
  BY <1>1, <1>5 DEF CompletedIsRefunded
<1> QED
  BY <1>2, <1>3, <1>4, <1>6

LEMMA StripeStep == StripeInv /\ [Next]_vars => StripeInv'
<1> SUFFICES ASSUME StripeInv, [Next]_vars PROVE StripeInv'
  OBVIOUS
<1>0. TypeOK'
  BY TypeStep DEF StripeInv
<1>1. ASSUME NEW r \in Request, \/ CountRequests(r) \/ CheckCapacity(r) \/ CreateRequest(r)
                                \/ ReviewRefund(r) \/ ApproveRefund(r) \/ RejectRefund(r)
      PROVE  StripeInv'
  BY <1>0, <1>1, UnexecutedStep DEF CountRequests, CheckCapacity, CreateRequest, ReviewRefund,
     ApproveRefund, RejectRefund, Transition, Status, Asking, Live, Executed
<1>2. ASSUME NEW c \in Call, Answer(c) \/ ExecutionFails(c) PROVE StripeInv'
  BY <1>0, <1>2 DEF Answer, ExecutionFails, StripeInv, TypeOK, KeysOfRequests,
     SentWasApproved, CallsSent, CompletedIsRefunded, Creation, stripeVars
<1>3. ASSUME NEW m \in wire, StripeProcesses(m) PROVE StripeInv'
  BY <1>0, <1>3 DEF StripeProcesses, StripeInv, TypeOK, KeysOfRequests,
     SentWasApproved, CallsSent, CompletedIsRefunded, Creation
<1>4. CASE UNCHANGED vars
  BY <1>4 DEF vars, stripeVars, StripeInv, TypeOK, KeysOfRequests,
     SentWasApproved, CallsSent, CompletedIsRefunded, Creation
<1> QED
  BY <1>0, <1>1, <1>2, <1>3, <1>4, PrepareStripe, FinishStripe DEF Next

LEMMA StripeCorrect == Spec => []StripeInv
<1>1. Init => StripeInv
  BY ConstantsAssumption DEF Init, StripeInv, TypeOK, Status, Asking, KeysOfRequests,
     SentWasApproved, CallsSent, CompletedIsRefunded
<1> QED
  BY <1>1, StripeStep, PTL DEF Spec

\* A request is refunded at most once, however often it is executed.
THEOREM RefundedOnceAlways == Spec => []RefundedOnce
<1>1. StripeInv => RefundedOnce
  BY DEF StripeInv, TypeOK, KeysOfRequests, RefundedOnce
<1> QED
  BY <1>1, StripeCorrect, PTL

\* No money moves for a request nobody approved, or that is rejected.
THEOREM RefundedWasApprovedAlways == Spec => []RefundedWasApproved
<1>1. StripeInv => RefundedWasApproved
  BY DEF StripeInv, TypeOK, SentWasApproved, Executed, RefundedWasApproved
<1> QED
  BY <1>1, StripeCorrect, PTL

\* What is recorded as completed was refunded.
THEOREM CompletedIsRefundedAlways == Spec => []CompletedIsRefunded
<1>1. StripeInv => CompletedIsRefunded
  BY DEF StripeInv
<1> QED
  BY <1>1, StripeCorrect, PTL

-----------------------------------------------------------------------------
(***************************************************************************)
(* RefundLedger. Every step is a decision, the one refund of an approved   *)
(* request, or nothing the ledger shows.                                   *)
(***************************************************************************)
\* Of creations keyed by their request, one is of a request or none.
LEMMA RefundsCounted ==
  ASSUME NEW creations, \A m \in creations : m = [key |-> m.of, of |-> m.of], NEW r
  PROVE  Cardinality({m \in creations : m.of = r}) =
           IF \E m \in creations : m.of = r THEN 1 ELSE 0
<1> DEFINE sent == [key |-> r, of |-> r]
<1>1. CASE \E m \in creations : m.of = r
  <2>1. {m \in creations : m.of = r} = {sent}
    BY <1>1
  <2> QED
    BY <1>1, <2>1, FS_Singleton
<1>2. CASE ~ \E m \in creations : m.of = r
  <2>1. {m \in creations : m.of = r} = {}
    BY <1>2
  <2> QED
    BY <1>2, <2>1, FS_EmptySet
<1> QED
  BY <1>1, <1>2

\* A decision is of the request whose row changes.
LEMMA DecisionStep ==
  ASSUME TypeOK, NEW r \in Request, NEW s \in Status, status' = [status EXCEPT ![r] = s]
  PROVE  Decision' = [Decision EXCEPT ![r] =
           IF s \in {"APPROVED", "EXECUTING", "COMPLETED", "FAILED"} THEN "approved"
           ELSE IF s = "REJECTED" THEN "rejected" ELSE "open"]
BY DEF TypeOK, Decision

\* A decision that is written again is the same.
LEMMA DecisionAgain ==
  ASSUME NEW r \in Request, NEW d, d = Decision[r], Decision' = [Decision EXCEPT ![r] = d]
  PROVE  Decision' = Decision
BY DEF Decision

\* A refund that Stripe makes is the first of an approved request, and fits.
LEMMA RefundMoves ==
  ASSUME StripeInv, StripeInv', NEW m \in wire, StripeProcesses(m)
  PROVE  [Ledger!Next]_(Ledger!vars)
<1> DEFINE r == m.of
           b == BoundaryOf[r]
<1>1. /\ TypeOK /\ r \in Request /\ m = [key |-> r, of |-> r] /\ status[r] \in Executed
      /\ \A n \in made : n.key = n.of
  BY DEF StripeInv, TypeOK, KeysOfRequests, SentWasApproved
<1>2. Decision' = Decision /\ Decision[r] = "approved"
  BY <1>1 DEF StripeProcesses, Decision, Executed
<1>3. CASE made' = made
  BY <1>2, <1>3 DEF Ledger!vars, RefundsOf
<1>4. CASE /\ Total[Refunded(b)] + Total[{r}] <= Captured[b]
           /\ made' = made \cup {m}
  <2>1. \A n \in made : n.of # r
    BY <1>1 DEF StripeProcesses
  <2>2. r \notin Refunded(b) /\ Refunded(b)' = Refunded(b) \cup {r}
    BY <1>1, <1>4, <2>1 DEF Refunded
  <2>3. Total[Refunded(b)'] <= Captured[b]
    <3>1. Total[Refunded(b) \cup {r}] = Total[Refunded(b)] + Total[{r}]
      BY <1>1, <2>2, ConstantsAssumption DEF Refunded
    <3> QED
      BY <1>4, <2>2, <3>1
  <2>4. \A q : Cardinality(RefundsOf(q)') = IF \E n \in made' : n.of = q THEN 1 ELSE 0
    <3>1. \A n \in made' : n = [key |-> n.of, of |-> n.of]
      BY DEF StripeInv, TypeOK, KeysOfRequests
    <3> QED
      BY <3>1, RefundsCounted DEF RefundsOf
  <2>5. Cardinality(RefundsOf(r)) = 0 /\ Cardinality(RefundsOf(r)') = 1
    <3>1. m \in made' /\ m.of = r
      BY <1>4
    <3>2. RefundsOf(r) = {}
      BY <2>1 DEF RefundsOf
    <3> QED
      BY <2>4, <3>1, <3>2, FS_EmptySet
  <2>6. \A q \in Request \ {r} : RefundsOf(q)' = RefundsOf(q)
    BY <1>4 DEF RefundsOf
  <2>7. [q \in Request |-> Cardinality(RefundsOf(q))]' =
          [[q \in Request |-> Cardinality(RefundsOf(q))] EXCEPT ![r] = 1]
    BY <2>5, <2>6
  <2>8. Ledger!Refunded(b)' = Refunded(b)'
    BY <2>4 DEF Ledger!Refunded, Refunded
  <2>9. Ledger!Refund(r)
    BY <1>1, <1>2, <2>3, <2>5, <2>7, <2>8 DEF Ledger!Refund
  <2> QED
    BY <1>1, <2>9 DEF Ledger!Next
<1> QED
  BY <1>3, <1>4 DEF StripeProcesses

LEMMA LedgerStep == StripeInv /\ StripeInv' /\ [Next]_vars => [Ledger!Next]_(Ledger!vars)
<1> SUFFICES ASSUME StripeInv, StripeInv', [Next]_vars PROVE [Ledger!Next]_(Ledger!vars)
  OBVIOUS
<1>1. TypeOK
  BY DEF StripeInv
<1>2. ASSUME Decision' = Decision, made' = made PROVE UNCHANGED Ledger!vars
  BY <1>2 DEF Ledger!vars, RefundsOf
<1>3. ASSUME NEW r \in Request, CountRequests(r) \/ CheckCapacity(r) \/ CreateRequest(r) \/ ReviewRefund(r)
      PROVE  UNCHANGED Ledger!vars
  <2>1. PICK s \in {"COUNTED", "CHECKED", "REQUESTED", "UNDER_REVIEW"} :
          /\ status' = [status EXCEPT ![r] = s] /\ made' = made
          /\ status[r] \in {"NEW", "COUNTED", "CHECKED", "REQUESTED"}
    BY <1>3 DEF CountRequests, CheckCapacity, CreateRequest, ReviewRefund, Transition, stripeVars
  <2>2. Decision' = [Decision EXCEPT ![r] = "open"] /\ Decision[r] = "open"
    BY <1>1, <2>1, DecisionStep DEF Status, Asking, Live, Decision
  <2> QED
    BY <1>2, <2>1, <2>2, DecisionAgain
<1>4. ASSUME NEW r \in Request, ApproveRefund(r) \/ RejectRefund(r) PROVE Ledger!Next
  <2>1. PICK s \in {"APPROVED", "REJECTED"} :
          /\ status[r] = "UNDER_REVIEW" /\ status' = [status EXCEPT ![r] = s]
          /\ made' = made
    BY <1>4 DEF ApproveRefund, RejectRefund, Transition, stripeVars
  <2>2. Decision[r] = "open"
    BY <2>1 DEF Decision
  <2>3. /\ s = "APPROVED" => Decision' = [Decision EXCEPT ![r] = "approved"]
        /\ s = "REJECTED" => Decision' = [Decision EXCEPT ![r] = "rejected"]
    BY <1>1, <2>1, DecisionStep DEF Status, Asking, Live
  <2>4. Ledger!Decide(r, "approved") \/ Ledger!Decide(r, "rejected")
    BY <2>1, <2>2, <2>3 DEF Ledger!Decide, RefundsOf
  <2> QED
    BY <2>4 DEF Ledger!Next
<1>5. ASSUME NEW c \in Call, NEW r \in Request, PrepareExecution(c, r) PROVE UNCHANGED Ledger!vars
  <2>1. /\ status[r] \in {"APPROVED", "EXECUTING"} /\ made' = made
        /\ status' = [status EXCEPT ![r] = "EXECUTING"]
    BY <1>5 DEF PrepareExecution
  <2>2. Decision' = [Decision EXCEPT ![r] = "approved"] /\ Decision[r] = "approved"
    BY <1>1, <2>1, DecisionStep DEF Status, Asking, Live, Decision
  <2> QED
    BY <1>2, <2>1, <2>2, DecisionAgain
<1>6. ASSUME NEW c \in Call, Complete(c) \/ MarkFailed(c) PROVE UNCHANGED Ledger!vars
  <2>1. PICK s \in {"COMPLETED", "FAILED"} : status' = [status EXCEPT ![of[c]] = s] /\ made' = made
    BY <1>6 DEF Complete, MarkFailed, Finish, stripeVars
  <2>2. of[c] \in Request
    BY <1>1, <1>6, ConstantsAssumption DEF Complete, MarkFailed, TypeOK
  <2>3. status[of[c]] \in Executed
    <3>1. [key |-> of[c], of |-> of[c]] \in wire
      BY <2>2, ConstantsAssumption DEF StripeInv, CallsSent, Creation
    <3> QED
      BY <3>1 DEF StripeInv, SentWasApproved
  <2>4. Decision' = [Decision EXCEPT ![of[c]] = "approved"] /\ Decision[of[c]] = "approved"
    BY <1>1, <2>1, <2>2, <2>3, DecisionStep DEF Status, Asking, Live, Decision, Executed
  <2> QED
    BY <1>2, <2>1, <2>2, <2>4, DecisionAgain
<1>7. ASSUME NEW c \in Call, Answer(c) \/ ExecutionFails(c) \/ Crash(c) PROVE UNCHANGED Ledger!vars
  BY <1>2, <1>7 DEF Answer, ExecutionFails, Crash, Finish, stripeVars, Decision
<1>8. CASE UNCHANGED vars
  BY <1>2, <1>8 DEF vars, stripeVars, Decision
<1> QED
  BY <1>3, <1>4, <1>5, <1>6, <1>7, <1>8, RefundMoves DEF Next

\* Any number of executions, overlapping, failing and repeated, implement RefundLedger.
THEOREM LedgerImplemented == Spec => ImplementsLedger
<1>1. Init => Ledger!Init
  <2> SUFFICES ASSUME Init PROVE Ledger!Init
    OBVIOUS
  <2>1. Decision = [r \in Request |-> "open"]
    BY DEF Init, Decision
  <2>2. \A r \in Request : Cardinality(RefundsOf(r)) = 0
    <3>1. \A r \in Request : RefundsOf(r) = {}
      BY DEF Init, RefundsOf
    <3> QED
      BY <3>1, FS_EmptySet
  <2> QED
    BY <2>1, <2>2 DEF Ledger!Init
<1> QED
  BY <1>1, StripeCorrect, LedgerStep, PTL DEF Spec, ImplementsLedger, Ledger!Spec

-----------------------------------------------------------------------------
(***************************************************************************)
(* Capacity. Two calls on one request are recorded as overlapped; the only *)
(* call on a request that never was finds it still EXECUTING. So only an   *)
(* execution adds to what is committed, and it counts all that is.         *)
(***************************************************************************)
Exclusive == \A c, d \in Call : c # d /\ of[c] = of[d] /\ of[c] # None => of[c] \in overlapped

AloneExecuting ==
  \A c \in Call : of[c] # None /\ of[c] \notin overlapped => status[of[c]] = "EXECUTING"

CapacityInv == TypeOK /\ Exclusive /\ AloneExecuting /\ CommittedWithinCapture

\* A larger set of requests asks for at least as much.
LEMMA TotalMonotone ==
  ASSUME NEW B \in SUBSET Request, NEW A \in SUBSET B
  PROVE  Total[A] <= Total[B]
<1>1. /\ A \in SUBSET Request /\ B \ A \in SUBSET Request
      /\ A \cap (B \ A) = {} /\ A \cup (B \ A) = B
  OBVIOUS
<1>2. Total[B] = Total[A] + Total[B \ A]
  BY <1>1, ConstantsAssumption
<1>3. Total[A] \in Nat /\ Total[B \ A] \in Nat
  BY <1>1, ConstantsAssumption
<1> QED
  BY <1>2, <1>3

\* A step that commits nothing more keeps within what was captured.
LEMMA NothingCommitted ==
  ASSUME TypeOK, CommittedWithinCapture, overlapped' = overlapped,
         \A b \in Boundary : NotOverlapped(b) => Committed(b)' \subseteq Committed(b)
  PROVE  CommittedWithinCapture'
<1>1. SUFFICES ASSUME NEW b \in Boundary, NotOverlapped(b)
               PROVE  Total[Committed(b)'] <= Captured[b]
  BY DEF CommittedWithinCapture, NotOverlapped
<1>2. Committed(b) \in SUBSET Request /\ Committed(b)' \in SUBSET Committed(b)
  BY <1>1 DEF Committed
<1>3. Total[Committed(b)'] <= Total[Committed(b)]
  BY <1>2, TotalMonotone
<1>4. Total[Committed(b)] <= Captured[b]
  BY <1>1 DEF CommittedWithinCapture
<1>5. Total[Committed(b)'] \in Nat /\ Total[Committed(b)] \in Nat /\ Captured[b] \in Nat
  BY <1>2, ConstantsAssumption
<1> QED
  BY <1>3, <1>4, <1>5

\* An execution counts every other committed request of its boundary.
LEMMA PrepareCapacity ==
  ASSUME CapacityInv, NEW r \in Request, NEW c \in Call, PrepareExecution(c, r)
  PROVE  CommittedWithinCapture'
<1>1. SUFFICES ASSUME NEW b \in Boundary, NotOverlapped(b)'
               PROVE  Total[Committed(b)'] <= Captured[b]
  BY DEF CommittedWithinCapture
<1>2. NotOverlapped(b)
  BY <1>1 DEF NotOverlapped, PrepareExecution
<1>3. status' = [status EXCEPT ![r] = "EXECUTING"] /\ status \in [Request -> Status]
  BY DEF PrepareExecution, CapacityInv, TypeOK
<1>4. CASE BoundaryOf[r] # b
  <2>1. Committed(b)' = Committed(b)
    BY <1>3, <1>4 DEF Committed
  <2> QED
    BY <1>2, <2>1 DEF CapacityInv, CommittedWithinCapture
<1>5. CASE BoundaryOf[r] = b
  <2> DEFINE others == Committed(b) \ {r}
  <2>1. Committed(b)' = others \cup {r} /\ others \cap {r} = {}
    BY <1>3, <1>5 DEF Committed
  <2>2. /\ others \in SUBSET Reserved(r) /\ Reserved(r) \in SUBSET Request
        /\ others \in SUBSET Request /\ {r} \in SUBSET Request
    BY <1>5 DEF Committed, Reserved, Peers, Live
  <2>3. Total[others] <= Total[Reserved(r)]
    BY <2>2, TotalMonotone
  <2>4. Total[others \cup {r}] = Total[others] + Total[{r}]
    BY <2>1, <2>2, ConstantsAssumption
  <2>5. Total[Reserved(r)] + Total[{r}] <= Captured[b]
    BY <1>5 DEF PrepareExecution, Fits
  <2>6. /\ Total[others] \in Nat /\ Total[{r}] \in Nat /\ Total[Reserved(r)] \in Nat
        /\ Captured[b] \in Nat
    BY <2>2, ConstantsAssumption
  <2> HIDE DEF others
  <2> QED
    BY <2>1, <2>3, <2>4, <2>5, <2>6
<1> QED
  BY <1>4, <1>5

\* A call that ends keeps the invariant: alone on its request, it finds it EXECUTING.
LEMMA FinishCapacity ==
  ASSUME CapacityInv, TypeOK', NEW c \in Call, Complete(c) \/ MarkFailed(c) \/ Crash(c)
  PROVE  CapacityInv'
<1> USE DEF CapacityInv, TypeOK, Complete, MarkFailed, Crash, Finish
<1>1. of[c] \in Request /\ overlapped' = overlapped
  BY ConstantsAssumption
<1>2. Exclusive'
  BY ConstantsAssumption DEF Exclusive
<1>3. AloneExecuting'
  BY <1>1, ConstantsAssumption DEF AloneExecuting, Exclusive
<1>4. ASSUME NEW b \in Boundary, NotOverlapped(b) PROVE Committed(b)' \subseteq Committed(b)
  <2>1. BoundaryOf[of[c]] = b => status[of[c]] = "EXECUTING"
    BY <1>1, <1>4 DEF NotOverlapped, AloneExecuting
  <2> QED
    BY <1>1, <2>1 DEF Committed
<1>5. CommittedWithinCapture'
  BY <1>1, <1>4, NothingCommitted
<1> QED
  BY <1>2, <1>3, <1>5

LEMMA CapacityStep == CapacityInv /\ [Next]_vars => CapacityInv'
<1> SUFFICES ASSUME CapacityInv, [Next]_vars PROVE CapacityInv'
  OBVIOUS
<1>0. TypeOK'
  BY TypeStep DEF CapacityInv
<1>1. ASSUME NEW r \in Request, status[r] \notin Executed, NEW s \in Status \ Executed,
             status' = [status EXCEPT ![r] = s], UNCHANGED <<at, of, overlapped>>
      PROVE  CapacityInv'
  <2>1. Exclusive' /\ AloneExecuting'
    BY <1>1, ConstantsAssumption
       DEF CapacityInv, TypeOK, Exclusive, AloneExecuting, Executed
  <2>2. \A b \in Boundary : Committed(b)' \subseteq Committed(b)
    BY <1>1 DEF CapacityInv, TypeOK, Committed, Executed
  <2> QED
    BY <1>0, <1>1, <2>1, <2>2, NothingCommitted DEF CapacityInv
<1>2. ASSUME NEW r \in Request, \/ CountRequests(r) \/ CheckCapacity(r) \/ CreateRequest(r)
                                \/ ReviewRefund(r) \/ ApproveRefund(r) \/ RejectRefund(r)
      PROVE  CapacityInv'
  BY <1>1, <1>2 DEF CountRequests, CheckCapacity, CreateRequest, ReviewRefund,
     ApproveRefund, RejectRefund, Transition, Status, Asking, Live, Executed
<1>3. ASSUME NEW r \in Request, NEW c \in Call, PrepareExecution(c, r) PROVE CapacityInv'
  <2>1. Exclusive'
    BY <1>3, ConstantsAssumption DEF PrepareExecution, CapacityInv, TypeOK, Exclusive, Busy
  <2>2. AloneExecuting'
    BY <1>3, ConstantsAssumption DEF PrepareExecution, CapacityInv, TypeOK, AloneExecuting
  <2> QED
    BY <1>0, <1>3, <2>1, <2>2, PrepareCapacity DEF CapacityInv
<1>4. CASE UNCHANGED <<status, of, overlapped>>
  BY <1>0, <1>4, NothingCommitted DEF CapacityInv, Exclusive, AloneExecuting, Committed
<1>5. ASSUME NEW c \in Call, Answer(c) \/ ExecutionFails(c) PROVE CapacityInv'
  BY <1>4, <1>5 DEF Answer, ExecutionFails
<1>6. ASSUME NEW m \in wire, StripeProcesses(m) PROVE CapacityInv'
  BY <1>4, <1>6 DEF StripeProcesses
<1> QED
  BY <1>0, <1>2, <1>3, <1>4, <1>5, <1>6, FinishCapacity DEF Next, vars

LEMMA CapacityCorrect == Spec => []CapacityInv
<1>1. ASSUME Init PROVE CapacityInv
  <2>1. TypeOK
    BY <1>1, ConstantsAssumption DEF Init, TypeOK, Status, Asking
  <2>2. Exclusive /\ AloneExecuting
    BY <1>1 DEF Init, Exclusive, AloneExecuting
  <2>3. \A b \in Boundary : Committed(b) = {}
    BY <1>1 DEF Init, Committed
  <2>4. Total[{}] = 0
    BY ConstantsAssumption
  <2> QED
    BY <2>1, <2>2, <2>3, <2>4, ConstantsAssumption DEF CapacityInv, CommittedWithinCapture
<1> QED
  BY <1>1, CapacityStep, PTL DEF Spec

\* What is being refunded and was refunded on a payment is within what it captured,
\* unless two calls executed one request at once.
THEOREM CommittedWithinCaptureAlways == Spec => []CommittedWithinCapture
<1>1. CapacityInv => CommittedWithinCapture
  BY DEF CapacityInv
<1> QED
  BY <1>1, CapacityCorrect, PTL

\* A completed refund stays completed, unless two calls executed it at once.
THEOREM CompletedStaysAlways == Spec => CompletedStays
<1>1. ASSUME CapacityInv, [Next]_vars, NEW r \in Request \ overlapped, status[r] = "COMPLETED"
      PROVE  status'[r] = "COMPLETED"
  <2>1. ASSUME NEW c \in Call, Complete(c) \/ MarkFailed(c) \/ Crash(c)
        PROVE  status'[r] = "COMPLETED"
    <3>1. of[c] \in Request /\ of[c] # r
      BY <1>1, <2>1, ConstantsAssumption
         DEF CapacityInv, TypeOK, AloneExecuting, Complete, MarkFailed, Crash
    <3> QED
      BY <1>1, <2>1, <3>1 DEF CapacityInv, TypeOK, Complete, MarkFailed, Crash
  <2> QED
    BY <1>1, <2>1 DEF Next, vars, CapacityInv, TypeOK, CountRequests, CheckCapacity,
       CreateRequest, ReviewRefund, ApproveRefund, RejectRefund, Transition,
       PrepareExecution, Answer, ExecutionFails, StripeProcesses
<1>2. CapacityInv /\ [Next]_vars
        => [\A r \in Request \ overlapped : status[r] = "COMPLETED" => status'[r] = "COMPLETED"]_vars
  BY <1>1
<1> QED
  BY <1>2, CapacityCorrect, PTL DEF Spec, CompletedStays
=============================================================================
