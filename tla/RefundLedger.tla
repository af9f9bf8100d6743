---------------------------- MODULE RefundLedger ----------------------------
(***************************************************************************)
(* What refunds promise, without calls, locks, keys or answers that are    *)
(* lost: a request is decided once and for good, and the money of an       *)
(* approved one moves in one step, at most once, within what its payment   *)
(* captured.                                                               *)
(***************************************************************************)
EXTENDS Naturals

CONSTANTS Request, Boundary, BoundaryOf, Captured, Total

VARIABLES
  decision,  \* of each request
  refunds    \* how many times its amount was refunded

vars == <<decision, refunds>>

Init ==
  /\ decision = [r \in Request |-> "open"]
  /\ refunds = [r \in Request |-> 0]

Decide(r, next) ==
  /\ decision[r] = "open"
  /\ decision' = [decision EXCEPT ![r] = next]
  /\ UNCHANGED refunds

Refunded(b) == {r \in Request : BoundaryOf[r] = b /\ refunds[r] > 0}

Refund(r) ==
  /\ decision[r] = "approved" /\ refunds[r] = 0
  /\ refunds' = [refunds EXCEPT ![r] = 1]
  /\ Total[Refunded(BoundaryOf[r])'] <= Captured[BoundaryOf[r]]
  /\ UNCHANGED decision

Next ==
  \E r \in Request : Decide(r, "approved") \/ Decide(r, "rejected") \/ Refund(r)

Spec == Init /\ [][Next]_vars
=============================================================================
