---------------------------- MODULE PaymentsPage ----------------------------
(***************************************************************************)
(* The page on which a client pays the provider orders of one order. A     *)
(* load asks for the order and then for the aggregate, for which the       *)
(* server prepares a session per provider order that needs one; what comes *)
(* last is shown, whichever load asked for it first. Meanwhile payments    *)
(* are settled and provider orders end, or become payable again when the   *)
(* activation of a session that began before their end comes back. Only    *)
(* whether a provider order needs a payment is kept of the answers. The    *)
(* delivery's own payment is left out.                                     *)
(***************************************************************************)
CONSTANTS
  ProviderOrder,
  Load,    \* loads of the page that may overlap
  Nothing  \* no answer yet, no load, no provider order being prepared

VARIABLES
  unavailable,  \* a demonstration, where payments are confirmed without Stripe
  paid, ended,  \* provider orders that are PAID; that are inactive, like a cancelled one
  prepared,     \* those with a session to pay through
  order, aggregate,  \* what the page keeps: per provider order, whether it is payable
  load,         \* what a load has been answered
  preparing     \* the provider order whose button was pressed, and its answer

serverVars == <<unavailable, paid, ended, prepared>>
answers == <<order, aggregate, load>>
pageVars == <<serverVars, answers, preparing>>

\* What the page is told of each; "outdated" is history, an answer "covered" that was given
\* before the provider order became payable again. The page takes the two for the same.
Answer == [ProviderOrder -> {"payable", "covered", "outdated"}]
Doing ==
  [at : {"order", "ask", "aggregate"}, seen : Answer \cup {Nothing}, left : SUBSET ProviderOrder]

Init ==
  /\ unavailable \in BOOLEAN
  /\ paid = {} /\ ended = {} /\ prepared = {}
  /\ order = Nothing /\ aggregate = Nothing
  /\ load = [l \in Load |-> Nothing] /\ preparing = Nothing

At(l, place) == IF load[l] = Nothing THEN FALSE ELSE load[l].at = place
Step(l, doing) == load' = [load EXCEPT ![l] = doing]

-----------------------------------------------------------------------------
(***************************************************************************)
(* The server.                                                             *)
(***************************************************************************)
\* Mutant of Payable: what has a session to pay through is settled.
PayableUnprepared(po) == po \notin paid \cup ended \cup prepared

Payable(po) == po \notin paid \cup ended

\* What the server says of each at this moment.
Now == [po \in ProviderOrder |-> IF Payable(po) THEN "payable" ELSE "covered"]

\* Its webhook settles a payment.
Settle(po) ==
  /\ po \in prepared \ paid /\ paid' = paid \cup {po}
  /\ UNCHANGED <<unavailable, ended, prepared, answers, preparing>>

\* Cancelled, rejected or delivered, or its stock reservation expires.
End(po) ==
  /\ po \notin ended /\ ended' = ended \cup {po}
  /\ UNCHANGED <<unavailable, paid, prepared, answers, preparing>>

SessionExpires(po) ==
  /\ po \in prepared \ paid /\ prepared' = prepared \ {po}
  /\ UNCHANGED <<unavailable, paid, ended, answers, preparing>>

Outdated(answer, po) ==
  IF answer = Nothing \/ po \notin ended THEN answer
  ELSE [answer EXCEPT ![po] = IF @ = "covered" THEN "outdated" ELSE @]

\* The status is written over whatever it has become.
Reopens(po) ==
  /\ ended' = ended \ {po}
  /\ order' = Outdated(order, po) /\ aggregate' = Outdated(aggregate, po)
  /\ load' = [l \in Load |-> IF load[l] = Nothing THEN Nothing
                             ELSE [load[l] EXCEPT !.seen = Outdated(@, po)]]

\* A session's activation commits for this page or another, and may have begun before the
\* provider order ended: it asks only for the payment that is still due.
Activate(po) ==
  /\ ~unavailable /\ po \notin paid /\ prepared' = prepared \cup {po}
  /\ Reopens(po)
  /\ UNCHANGED <<unavailable, paid, preparing>>

\* Stripe refuses a session, and the status is reset unless another session got on.
ActivationFails(po) ==
  /\ ~unavailable /\ po \notin paid \cup prepared
  /\ Reopens(po)
  /\ UNCHANGED <<unavailable, paid, prepared, preparing>>

-----------------------------------------------------------------------------
(***************************************************************************)
(* loadPage(), when the page opens, when it is refreshed, or after a       *)
(* payment through the form.                                               *)
(***************************************************************************)
GetOrder(l) ==
  /\ load[l] = Nothing
  /\ Step(l, [at |-> "order", seen |-> Now, left |-> {}])
  /\ UNCHANGED <<serverVars, order, aggregate, preparing>>

\* fallbackProviderPayments() shows the order itself.
OrderComes(l) ==
  /\ At(l, "order")
  /\ order' = load[l].seen
  /\ Step(l, [at |-> "ask", seen |-> Nothing, left |-> {}])
  /\ UNCHANGED <<serverVars, aggregate, preparing>>

\* prepareOrderProviderPayments() reads the order, and prepares what it saw payable.
ReadForAggregate(l) ==
  /\ At(l, "ask")
  /\ Step(l, [at |-> "aggregate", seen |-> Now,
              left |-> IF unavailable THEN {} ELSE {po \in ProviderOrder : Payable(po)}])
  /\ UNCHANGED <<serverVars, order, aggregate, preparing>>

\* Its session, found or activated.
PrepareNext(l) ==
  /\ At(l, "aggregate")
  /\ \E po \in load[l].left \cap prepared : Step(l, [load[l] EXCEPT !.left = @ \ {po}])
  /\ UNCHANGED <<serverVars, order, aggregate, preparing>>

AggregateComes(l) ==
  /\ At(l, "aggregate") /\ load[l].left = {}
  /\ aggregate' = load[l].seen /\ Step(l, Nothing)
  /\ UNCHANGED <<serverVars, order, preparing>>

\* One that has been paid or has ended since, or that Stripe refuses, fails the whole; the
\* page goes back to the order.
AggregateFails(l) ==
  /\ At(l, "aggregate") \/ At(l, "ask")
  /\ aggregate' = Nothing /\ Step(l, Nothing)
  /\ UNCHANGED <<serverVars, order, preparing>>

OrderFails(l) ==
  /\ At(l, "order") /\ Step(l, Nothing)
  /\ UNCHANGED <<serverVars, order, aggregate, preparing>>

-----------------------------------------------------------------------------
(***************************************************************************)
(* The buttons of a provider order that the page shows to be payable.      *)
(***************************************************************************)
Shown == IF aggregate # Nothing THEN aggregate ELSE order

Press(po) ==
  /\ Shown # Nothing /\ preparing = Nothing
  /\ IF Shown = Nothing THEN FALSE ELSE Shown[po] = "payable"
  /\ preparing' = [po |-> po, answered |-> FALSE]
  /\ UNCHANGED <<serverVars, order, aggregate, load>>

\* prepareProviderPayment(), or the demonstration's, which prepares and settles at once.
ServerPrepares ==
  /\ preparing # Nothing /\ ~preparing.answered
  /\ preparing' = [preparing EXCEPT !.answered = TRUE]
  /\ \/ ~unavailable /\ preparing.po \in prepared /\ UNCHANGED <<paid, prepared>>
     \/ /\ unavailable /\ Payable(preparing.po)
        /\ prepared' = prepared \cup {preparing.po} /\ paid' = paid \cup {preparing.po}
  /\ UNCHANGED <<unavailable, ended, order, aggregate, load>>

\* The session is merged into the aggregate of the moment, whichever load it is of.
SessionComes ==
  /\ preparing # Nothing /\ preparing.answered /\ ~unavailable
  /\ aggregate' = IF aggregate = Nothing THEN Nothing
                  ELSE [aggregate EXCEPT ![preparing.po] = "payable"]
  /\ preparing' = Nothing
  /\ UNCHANGED <<serverVars, order, load>>

\* Refused, lost, or of a demonstration, after which the page is loaded again.
PrepareReturns ==
  /\ preparing # Nothing /\ preparing' = Nothing
  /\ UNCHANGED <<serverVars, order, aggregate, load>>

Next ==
  \/ \E po \in ProviderOrder :
       \/ Settle(po) \/ End(po) \/ SessionExpires(po)
       \/ Activate(po) \/ ActivationFails(po) \/ Press(po)
  \/ \E l \in Load :
       \/ GetOrder(l) \/ OrderComes(l) \/ ReadForAggregate(l) \/ PrepareNext(l)
       \/ AggregateComes(l) \/ AggregateFails(l) \/ OrderFails(l)
  \/ ServerPrepares \/ SessionComes \/ PrepareReturns

Spec == Init /\ [][Next]_pageVars

-----------------------------------------------------------------------------
TypeOK ==
  /\ unavailable \in BOOLEAN
  /\ paid \subseteq ProviderOrder /\ ended \subseteq ProviderOrder
  /\ prepared \subseteq ProviderOrder
  /\ order \in Answer \cup {Nothing} /\ aggregate \in Answer \cup {Nothing}
  /\ load \in [Load -> Doing \cup {Nothing}]
  /\ preparing \in [po : ProviderOrder, answered : BOOLEAN] \cup {Nothing}

\* allProviderPaymentsCovered: the page shows a provider order as covered only if it is paid
\* or over, whichever answers come late, fail half-way or are merged into one another. The
\* one exception is an answer that was right when it was given and that an activation
\* outdated before the page asked again.
CoveredMeansPaid ==
  Shown # Nothing => \A po \in ProviderOrder : Shown[po] = "covered" => po \in paid \cup ended
=============================================================================
