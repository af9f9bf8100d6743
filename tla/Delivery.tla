------------------------------ MODULE Delivery ------------------------------
(***************************************************************************)
(* The delivery order of a root order: its creation with a job that        *)
(* runners race for, direct assignment by a client or an administrator,    *)
(* the expiry of the job, and the lifecycle up to the customer's door.     *)
(*                                                                         *)
(* The root order has a way of its own to a runner, acceptOrder() and      *)
(* selectRunner(), whether it has a delivery order or not. Its life is     *)
(* module OrderFulfilment; here it may be READY_FOR_ASSIGNMENT at any time *)
(* and cease to be, and those two write its runner while it is.            *)
(*                                                                         *)
(* A transaction that first locks the row it decides on is one step.       *)
(* assignRunner() locks nothing, so what it reads and what it writes are   *)
(* two steps; acceptDeliveryJob() takes the time before its transaction.   *)
(***************************************************************************)
EXTENDS Naturals, FiniteSets, Runners

CONSTANT
  Assigner     \* assignRunner() requests that may be in flight

VARIABLES
  status, runner,      \* DeliveryOrder.status ("NONE": no row) and .runnerId
  orderRunner,         \* Order.runnerId
  orderReady,          \* whether Order.status is READY_FOR_ASSIGNMENT
  selected,            \* history: the runner selectRunner() wrote last
  job, claims,         \* DeliveryJob.status; the runners with a DeliveryJobClaim
  windowOver,          \* the job is past its expiresAt
  accepting,           \* a runner's acceptDeliveryJob(), by when it was called
  assigning            \* the runner an assignRunner() request is about to write

jobVars == <<job, claims, windowOver, accepting>>
rootVars == <<orderRunner, orderReady, selected>>
deliveryVars == <<status, runner, rootVars, jobVars, assigning>>

DeliveryOrderStatus == {"PENDING", "RUNNER_ASSIGNED", "PICKUP_PENDING", "PICKED_UP",
                        "IN_TRANSIT", "DELIVERED", "CANCELLED"}
DeliveryJobStatus == {"OPEN", "ASSIGNED", "EXPIRED", "CANCELLED"}
Assignable == {"PENDING", "RUNNER_ASSIGNED"}

allowedTransitions ==
  {<<"RUNNER_ASSIGNED", "PICKUP_PENDING">>, <<"PICKUP_PENDING", "PICKED_UP">>,
   <<"PICKED_UP", "IN_TRANSIT">>, <<"IN_TRANSIT", "DELIVERED">>}

DeliveryInit ==
  /\ status = "NONE" /\ runner = None
  /\ orderRunner \in Runner \cup {None} /\ orderReady \in BOOLEAN /\ selected = None
  /\ job = "NONE" /\ claims = {} /\ windowOver = FALSE
  /\ accepting = [r \in Runner |-> "idle"]
  /\ assigning = [q \in Assigner |-> None]

\* One transaction that locks the root order and asks for neither its status nor its
\* runner. It publishes the only job there is: a later createDeliveryJob() returns it.
CreateDeliveryOrder ==
  /\ status = "NONE"
  /\ status' = "PENDING"
  /\ job' = "OPEN"
  /\ UNCHANGED <<runner, rootVars, claims, windowOver, accepting, assigning>>

(***************************************************************************)
(* The job: the window closes, the worker expires it, runners accept it.   *)
(* Once it is not OPEN the time means nothing to it any more, and whoever  *)
(* asks for it from then on is refused: neither is a step.                 *)
(***************************************************************************)
WindowCloses ==
  /\ job = "OPEN" /\ ~windowOver
  /\ windowOver' = TRUE
  /\ UNCHANGED <<status, runner, rootVars, job, claims, accepting, assigning>>

Expirable == windowOver /\ job = "OPEN"

ExpireDeliveryJobs ==
  /\ Expirable
  /\ job' = "EXPIRED"
  /\ UNCHANGED <<status, runner, rootVars, claims, windowOver, accepting, assigning>>

\* acceptDeliveryJob() takes the time, and only then opens its transaction.
RequestJob(r) ==
  /\ job = "OPEN" /\ accepting[r] = "idle"
  /\ accepting' = [accepting EXCEPT ![r] = IF windowOver THEN "late" ELSE "inTime"]
  /\ UNCHANGED <<status, runner, rootVars, job, claims, windowOver, assigning>>

Acceptable(r) == r \notin claims /\ job = "OPEN" /\ accepting[r] = "inTime"

\* Under the lock of the job. Nothing is asked of the delivery order, whose runner
\* and status are overwritten.
AcceptDeliveryJob(r) ==
  /\ Acceptable(r)
  /\ claims' = claims \cup {r}
  /\ job' = "ASSIGNED"
  /\ runner' = r /\ status' = "RUNNER_ASSIGNED"
  /\ orderRunner' = r
  /\ accepting' = [accepting EXCEPT ![r] = "idle"]
  /\ UNCHANGED <<orderReady, selected, windowOver, assigning>>

\* A conflict. That of a late request rolls its own update to EXPIRED back.
RefuseJob(r) ==
  /\ accepting[r] # "idle" /\ ~Acceptable(r)
  /\ accepting' = [accepting EXCEPT ![r] = "idle"]
  /\ UNCHANGED <<status, runner, rootVars, job, claims, windowOver, assigning>>

(***************************************************************************)
(* Direct assignment, which leaves the job as it is.                       *)
(***************************************************************************)
ReadAssignable(q, r) ==
  /\ assigning[q] = None
  /\ status \in Assignable
  /\ assigning' = [assigning EXCEPT ![q] = r]
  /\ UNCHANGED <<status, runner, rootVars, jobVars>>

AssignRunner(q) ==
  /\ assigning[q] # None
  /\ runner' = assigning[q] /\ status' = "RUNNER_ASSIGNED"
  /\ orderRunner' = assigning[q]
  /\ assigning' = [assigning EXCEPT ![q] = None]
  /\ UNCHANGED <<orderReady, selected, jobVars>>

(***************************************************************************)
(* The root order's own way to a runner. Both are conditional updates.     *)
(***************************************************************************)
\* Promoted, perhaps once more by a late evaluation; or cancelled.
OrderMoves ==
  /\ orderReady' = ~orderReady
  /\ UNCHANGED <<status, runner, orderRunner, selected, jobVars, assigning>>

\* Mutant of Takeable: a runner who is there already is not looked at.
TakeableFromRunner == orderReady

Takeable == orderReady /\ orderRunner = None

AcceptRootOrder(r) ==
  /\ Takeable
  /\ orderRunner' = r /\ orderReady' = FALSE
  /\ UNCHANGED <<status, runner, selected, jobVars, assigning>>

\* Its update asks for the status alone.
SelectForRootOrder(r) ==
  /\ orderReady
  /\ orderRunner' = r /\ orderReady' = FALSE /\ selected' = r
  /\ UNCHANGED <<status, runner, jobVars, assigning>>

\* The assigned runner or an administrator, under the lock of the delivery order.
AdvanceLifecycle(next) ==
  /\ <<status, next>> \in allowedTransitions
  /\ status' = next
  /\ UNCHANGED <<runner, rootVars, jobVars, assigning>>

DeliveryNext ==
  \/ CreateDeliveryOrder \/ WindowCloses \/ ExpireDeliveryJobs
  \/ \E r \in Runner : RequestJob(r) \/ AcceptDeliveryJob(r) \/ RefuseJob(r)
  \/ \E q \in Assigner, r \in Runner : ReadAssignable(q, r)
  \/ \E q \in Assigner : AssignRunner(q)
  \/ OrderMoves
  \/ \E r \in Runner : AcceptRootOrder(r) \/ SelectForRootOrder(r)
  \/ \E next \in DeliveryOrderStatus : AdvanceLifecycle(next)

DeliverySpec == DeliveryInit /\ [][DeliveryNext]_deliveryVars

-----------------------------------------------------------------------------
DeliveryTypeOK ==
  /\ status \in DeliveryOrderStatus \cup {"NONE"}
  /\ runner \in Runner \cup {None} /\ orderRunner \in Runner \cup {None}
  /\ orderReady \in BOOLEAN /\ selected \in Runner \cup {None}
  /\ job \in DeliveryJobStatus \cup {"NONE"} /\ claims \subseteq Runner
  /\ windowOver \in BOOLEAN
  /\ accepting \in [Runner -> {"idle", "inTime", "late"}]
  /\ assigning \in [Assigner -> Runner \cup {None}]

\* Accepting is single-winner: however many runners accept the job, while it expires
\* or the delivery is assigned directly, one at most is told that the job is its own,
\* and a job is ASSIGNED exactly when one was.
SingleWinner ==
  /\ \A r1, r2 \in claims : r1 = r2
  /\ job = "ASSIGNED" <=> claims # {}

\* A delivery on its way has a runner, and acceptOrder() never takes the order from the
\* runner of its delivery: once there is one, the order names that runner, or else the
\* one whom selectRunner(), which does not ask whether there is a runner, wrote over it.
RunnersAgree ==
  /\ status \notin {"NONE", "PENDING"} => runner # None
  /\ runner # None => orderRunner # None /\ orderRunner \in {runner, selected}

\* Whatever crosses, a job has one winner, and the delivery and its order name one runner
\* but for a selection by the client.
OneRunner == SingleWinner /\ RunnersAgree
=============================================================================
