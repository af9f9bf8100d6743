------------------------------ MODULE MCDelivery ------------------------------
(***************************************************************************)
(* Instances of RunnerPayment for TLC: two payment sessions, the second of *)
(* which can replace the first, and one runner (the race for the job is    *)
(* checked by MCServices), or two and a direct assignment for the claims.  *)
(***************************************************************************)
EXTENDS DeliveryClaims

CONSTANTS r1, r2, q1, s1, s2

Runners == {r1, r2}
Assigners == {q1}
Sessions == {s1, s2}

\* The root order gets its runner from the delivery alone: what else it does is checked
\* by MCServices, and the payment reads none of it.
PaymentInstance == Init /\ orderRunner = None /\ ~orderReady /\ [][Next /\ UNCHANGED orderReady]_vars

MCFairSpec == PaymentInstance /\ \A s \in Session : WF_vars(Webhook(s))
===============================================================================
