--------------------------- MODULE DeliveryClaims ---------------------------
(***************************************************************************)
(* What documents of the repository say of a delivery order and of its     *)
(* payment, stated as properties of RunnerPayment. They are refuted by     *)
(* runs that README.md explains.                                           *)
(***************************************************************************)
EXTENDS RunnerPayment

\* docs/delivery-lifecycle-spec.md:42: transitions remain restricted to the allowed
\* state machine. From the pickup on, the status follows it.
FollowsTheTable ==
  [][(status \in {"PICKED_UP", "IN_TRANSIT", "DELIVERED"} /\ status' # status)
       => <<status, status'>> \in allowedTransitions]_vars

\* docs/delivery-runner-payment-spec.md:40: what is paid is not payable again.
PaidIsNotPayable == [][paymentStatus = "PAID" => paymentStatus' = "PAID"]_vars
=============================================================================
