----------------------- MODULE ProviderPaymentClaims -----------------------
(***************************************************************************)
(* What a comment of the repository says of provider payments, stated as a *)
(* property of ProviderPayment. The code does not keep it: it is refuted   *)
(* by a run that README.md explains.                                       *)
(***************************************************************************)
EXTENDS ProviderPayment

\* webhooks.controller.ts:131: "Ignore known concurrent errors if already processed
\* successfully by an overlapping webhook". A settlement whose stock conflict is
\* answered 200 is of a provider order that is already paid.
IgnoredConflictsArePaid ==
  \A s \in Session : handler[s] = "outOfStock" => Owner[s] \in Paid
=============================================================================
