----------------------------- MODULE MCServices -----------------------------
(***************************************************************************)
(* Values for TLC of the services. The ones that do not run keep one       *)
(* initial state each.                                                     *)
(***************************************************************************)
EXTENDS Services, TLC

CONSTANTS u1, u2, c1, c2, a1

Users == {u1, u2}
Calls == {c1, c2}

\* An update names the price, both prices, or takes the discount away and states the stock.
Edits == {[price |-> 1, discount |-> -1, stock |-> -1],
          [price |-> 2, discount |-> 1, stock |-> -1],
          [price |-> -1, discount |-> None, stock |-> 1]}
Files == {[price |-> 2, discount |-> 1, stock |-> 1], [price |-> 1, discount |-> 1, stock |-> 1]}

\* Distances whose products with the fees end on a half cent, and beyond each limit.
Fees == {[base |-> 350, perKm |-> k, extra |-> x, limit |-> l] :
           k \in {90, 95}, x \in {0, 150}, l \in {None, 0, 200}}
RunnerFees == {[base |-> 200, perKm |-> 70]}

CityOf == [l \in Users |-> "city"]

\* Links to verify outlive every other.
Lifetimes == [verification |-> 2, reset |-> 1, otp |-> 1]

\* A runner claims many jobs in two windows, which the category caps, and jumps once.
CategoryOf == [k \in 1..3 |-> IF k = 3 THEN "RUNNER_GPS_ANOMALY" ELSE "RUNNER_JOB_GRABBING"]
ScoreOf == [k \in 1..3 |-> 20]
MaxContribution == [RUNNER_JOB_GRABBING |-> 35, RUNNER_GPS_ANOMALY |-> 45]

\* Two users, then their roles, and two of the scenarios: one that stays pending, one that
\* goes on to the support artifacts.
SeedingSteps == <<"user", "user", "role", "role", "account", "product",
                  "order", "order", "payment", "delivery", "lifecycle">>

\* What is initially arbitrary is so for the service that runs.
MCInit ==
  /\ Init
  /\ focus # "delivery" => orderRunner = None /\ ~orderReady
  /\ focus # "fulfilment" => stock = 1
  /\ focus # "roles" => roles = [u \in Users |-> {"ADMIN"}]
  /\ focus # "guest" => ~gCookie
  /\ focus # "accounts" => pRoles = {}
  /\ focus # "email" => eLegacy = None
  /\ focus # "page" => ~vUnavailable
  /\ focus # "emails" => ~aAccount
  /\ focus # "map" => mViewer = "client"

MCSpec == MCInit /\ [][Next]_vars

\* Beyond these states the properties of the carts and the migration promise nothing.
Promised == ~cCrossed /\ ~gEdited

\* Two units in the server's cart, of one product or of two; profile requests overlap as
\* long as no run is under way and none was interrupted.
MigrationBound ==
  /\ gServer[u1] + gServer[u2] <= 2
  /\ gSync # None \/ gInterrupted => \E a \in Calls : gProfile[a] = "none"

\* One provider order at a time has ended, and may become payable again; loads overlap as
\* long as none has ended and no button is pressed.
PageBound ==
  /\ Cardinality(vEnded) <= 1
  /\ vEnded # {} \/ vPreparing # None => \E l \in Calls : vLoad[l] = None

Sym == Permutations(Users) \cup Permutations(Calls)
=============================================================================
