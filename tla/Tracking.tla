------------------------------ MODULE Tracking ------------------------------
(***************************************************************************)
(* Where a delivery is: its runner's requests record positions, each in a  *)
(* transaction under the lock of the delivery order, with a clock that was *)
(* read before the lock. A position is near or far from the one before.    *)
(***************************************************************************)
EXTENDS Integers, FiniteSets

CONSTANTS
  Delivery, User,
  Admin,              \* users who may update any delivery
  Interval,           \* RUNNER_LOCATION_MIN_INTERVAL_MS
  Retention,          \* RUNNER_LOCATION_RETENTION_HOURS
  MaxTime,            \* bound: the clock
  Call,               \* update requests that may overlap
  None                \* null: no runner, no call

ClockIsEnough ==
  /\ Interval \in Nat \ {0} /\ Retention \in Nat /\ MaxTime \in Nat
  /\ Admin \subseteq User /\ None \notin User

VARIABLES
  clock,
  runner, active,   \* of each DeliveryOrder: runnerId; whether its status is tracked
  last,             \* lastLocationUpdateAt
  located,          \* recordedAt of the newest RunnerLocation of each user
  reported,         \* deliveries with a RUNNER_GPS_ANOMALY event
  call              \* what a request is doing

trackingVars == <<clock, runner, active, last, located, reported, call>>

Never == -1
Time == 0..MaxTime

Doing ==
  [at : {"asked", "locked"}, delivery : Delivery, user : User,
   now : Time, far : BOOLEAN]

Init ==
  /\ clock = 0
  /\ runner = [d \in Delivery |-> None] /\ active = [d \in Delivery |-> FALSE]
  /\ last = [d \in Delivery |-> Never] /\ located = [u \in User |-> Never]
  /\ reported = {} /\ call = [c \in Call |-> None]

At(c, place) == IF call[c] = None THEN FALSE ELSE call[c].at = place
Step(c, doing) == call' = [call EXCEPT ![c] = doing]
Recent(time, now, span) == time # Never /\ now - time < span

Tick ==
  /\ clock < MaxTime /\ clock' = clock + 1
  /\ UNCHANGED <<runner, active, last, located, reported, call>>

\* Dispatch and the lifecycle, as far as tracking reads them.
Reassign(d, u) ==
  /\ runner[d] # u /\ runner' = [runner EXCEPT ![d] = u]
  /\ active' = [active EXCEPT ![d] = TRUE]
  /\ UNCHANGED <<clock, last, located, reported, call>>

Deliver(d) ==
  /\ active[d] /\ active' = [active EXCEPT ![d] = FALSE]
  /\ UNCHANGED <<clock, runner, last, located, reported, call>>

-----------------------------------------------------------------------------
(***************************************************************************)
(* updateRunnerLocation()                                                  *)
(***************************************************************************)
RequestUpdate(c, d, u, far) ==
  /\ call[c] = None
  /\ Step(c, [at |-> "asked", delivery |-> d, user |-> u, now |-> clock, far |-> far])
  /\ UNCHANGED <<clock, runner, active, last, located, reported>>

\* Mutant of DeliveryFree: the row is read without FOR UPDATE.
DeliveryUnlocked(d) == TRUE

\* SELECT ... FOR UPDATE on the delivery order.
DeliveryFree(d) == \A c \in Call : ~(At(c, "locked") /\ call[c].delivery = d)

MayUpdate(d, u) == (u \in Admin \/ runner[d] = u) /\ active[d]

\* Under the lock: the runner's newest position, then the delivery's, is old enough.
LockDelivery(c) ==
  LET r == call[c] IN
  /\ At(c, "asked") /\ DeliveryFree(r.delivery) /\ MayUpdate(r.delivery, r.user)
  /\ ~Recent(located[r.user], r.now, Interval)
  /\ ~Recent(last[r.delivery], r.now, Interval)
  /\ Step(c, [r EXCEPT !.at = "locked"])
  /\ UNCHANGED <<clock, runner, active, last, located, reported>>

RecordLocation(c) ==
  LET r == call[c] IN
  /\ At(c, "locked")
  /\ located' = [located EXCEPT ![r.user] = IF @ < r.now THEN r.now ELSE @]
  /\ last' = [last EXCEPT ![r.delivery] = r.now]
  /\ Step(c, None)
  /\ UNCHANGED <<clock, runner, active, reported>>

\* A jump is looked for only where the update is refused as too frequent anyway, and only
\* once the user's own newest position is old: another user has updated the delivery.
ReportJump(c) ==
  LET r == call[c] IN
  /\ At(c, "asked") /\ DeliveryFree(r.delivery) /\ MayUpdate(r.delivery, r.user)
  /\ ~Recent(located[r.user], r.now, Interval)
  /\ Recent(last[r.delivery], r.now, Interval) /\ r.far
  /\ reported' = reported \cup {r.delivery}
  /\ Step(c, None)
  /\ UNCHANGED <<clock, runner, active, last, located>>

\* What is older than the retention goes.
CleanupRunnerLocations ==
  /\ located' = [u \in User |-> IF located[u] < clock - Retention THEN Never ELSE located[u]]
  /\ UNCHANGED <<clock, runner, active, last, reported, call>>

\* Refused: not the runner, not tracked, too frequent; or the transaction is rolled back.
Refuse(c) ==
  /\ call[c] # None /\ Step(c, None)
  /\ UNCHANGED <<clock, runner, active, last, located, reported>>

Next ==
  \/ Tick \/ CleanupRunnerLocations
  \/ \E d \in Delivery : Deliver(d) \/ \E u \in User : Reassign(d, u)
  \/ \E c \in Call :
       \/ \E d \in Delivery, u \in User, far \in BOOLEAN : RequestUpdate(c, d, u, far)
       \/ LockDelivery(c) \/ RecordLocation(c) \/ ReportJump(c) \/ Refuse(c)

Spec == Init /\ [][Next]_trackingVars

-----------------------------------------------------------------------------
TypeOK ==
  /\ clock \in Time /\ runner \in [Delivery -> User \cup {None}]
  /\ active \in [Delivery -> BOOLEAN]
  /\ last \in [Delivery -> Time \cup {Never}] /\ located \in [User -> Time \cup {Never}]
  /\ reported \subseteq Delivery /\ call \in [Call -> Doing \cup {None}]

\* The recorded positions of a delivery are an interval apart and in the order of their
\* clocks, however its updates overlap and whoever carries it meanwhile.
UpdatesAreSpaced ==
  [][\A d \in Delivery :
       last'[d] # last[d] /\ last[d] # Never => last'[d] >= last[d] + Interval]_trackingVars
=============================================================================
