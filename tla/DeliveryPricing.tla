--------------------------- MODULE DeliveryPricing ---------------------------
(***************************************************************************)
(* What the delivery of an order costs: checkout quotes it from the city's *)
(* fees and the farthest provider and keeps the parts in the order, the    *)
(* delivery order copies the sum, and the payment summary shows the parts  *)
(* again. Money is in cents, distances in hundredths of a kilometre.       *)
(* Checkout multiplies in binary and rounds with Math.round, the summary   *)
(* with toFixed, so that either may round a half either way.               *)
(***************************************************************************)
EXTENDS Naturals, FiniteSetsExt

CONSTANTS
  Provider,   \* whose orders a checkout may hold
  City,       \* the fees of a city and its limit, which may be None
  Distance,   \* from a provider to the address
  Radius,     \* limits of a provider, and of what the client looks at
  RunnerFee,  \* prices a runner may have
  None

PricingAssumption ==
  /\ City \subseteq [base : Nat, perKm : Nat, extra : Nat, limit : Nat \cup {None}]
  /\ RunnerFee \subseteq [base : Nat, perKm : Nat]
  /\ Distance \subseteq Nat /\ Radius \subseteq Nat /\ None \notin Nat
  /\ IsFiniteSet(Provider)

VARIABLES
  order,     \* what a checkout keeps in its order
  selected,  \* a runner was selected by hand, who has prices of her own
  delivery   \* the fee of the delivery order: what the runner's payment asks for

pricingVars == <<order, selected, delivery>>

Init == order = None /\ selected = FALSE /\ delivery = None

\* A product of cents and hundredths, in cents; up says how a half is rounded.
Rounded(product, up) == (product + (IF up THEN 50 ELSE 49)) \div 100

AdditionalPickups(providers) == Cardinality(providers) - 1

-----------------------------------------------------------------------------
\* A city whose limit is 0 has none.
CoverageLimit(city, discovery, service) ==
  Min({discovery, service} \cup ({city.limit} \ {None, 0}))

Covered(city, distance, discovery, service) ==
  \A p \in DOMAIN distance : distance[p] <= CoverageLimit(city, discovery, service[p])

\* Mutant of Quote: every pickup is charged as an additional one.
QuoteEveryPickup(city, distance, up) ==
  LET providers == DOMAIN distance
      farthest == Max({distance[p] : p \in providers})
  IN [providers |-> providers, distance |-> farthest,
      base |-> city.base, perKm |-> city.perKm, extra |-> city.extra,
      fee |-> city.base + Rounded(farthest * city.perKm, up)
              + Cardinality(providers) * city.extra]

\* buildDeliveryPricingSnapshot()
Quote(city, distance, up) ==
  LET providers == DOMAIN distance
      farthest == Max({distance[p] : p \in providers})
  IN [providers |-> providers, distance |-> farthest,
      base |-> city.base, perKm |-> city.perKm, extra |-> city.extra,
      fee |-> city.base + Rounded(farthest * city.perKm, up)
              + AdditionalPickups(providers) * city.extra]

\* A provider that is too far refuses the checkout.
CreateOrder(city, distance, discovery, service, up) ==
  /\ order = None
  /\ Covered(city, distance, discovery, service)
  /\ order' = Quote(city, distance, up)
  /\ UNCHANGED <<selected, delivery>>

\* selectRunner(): her prices replace the city's, and the distance goes.
SelectRunner(runner) ==
  /\ order # None /\ ~selected
  /\ selected' = TRUE
  /\ order' = [order EXCEPT !.base = runner.base, !.perKm = runner.perKm, !.distance = 0]
  /\ UNCHANGED delivery

\* createDeliveryOrder(): the client states the fee, which must be the order's.
CreateDeliveryOrder ==
  /\ order # None /\ delivery = None
  /\ delivery' = order.fee
  /\ UNCHANGED <<order, selected>>

Next ==
  \/ \E city \in City, providers \in (SUBSET Provider) \ {{}}, discovery \in Radius, up \in BOOLEAN :
       \E distance \in [providers -> Distance], service \in [providers -> Radius] :
         CreateOrder(city, distance, discovery, service, up)
  \/ \E runner \in RunnerFee : SelectRunner(runner)
  \/ CreateDeliveryOrder

-----------------------------------------------------------------------------
\* buildRunnerPaymentSummary()
Parts(up) ==
  order.base + Rounded(order.distance * order.perKm, up)
  + AdditionalPickups(order.providers) * order.extra

Spec == Init /\ [][Next]_pricingVars

TypeOK ==
  /\ order # None =>
       /\ order.providers \in (SUBSET Provider) \ {{}}
       /\ {order.distance, order.base, order.perKm, order.extra, order.fee} \subseteq Nat
  /\ selected \in BOOLEAN
  /\ delivery # None => delivery \in Nat

\* What the client is asked to pay for a delivery is what the parts the summary shows add
\* up to, but for a cent; unless a runner was selected by hand, which replaces parts of the
\* order and leaves its fee.
PartsAddUp ==
  (order # None /\ ~selected) =>
    \A up \in BOOLEAN :
      LET asked == IF delivery = None THEN order.fee ELSE delivery IN
      Parts(up) <= asked + 1 /\ asked <= Parts(up) + 1
=============================================================================
