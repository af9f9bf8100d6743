------------------------------ MODULE Incidents ------------------------------
(***************************************************************************)
(* The incidents one actor reports about deliveries, and their review. A   *)
(* request counts the rows there are twice, then inserts its own, in a     *)
(* READ COMMITTED transaction that locks nothing; a review holds the lock  *)
(* of the incident. The points an incident costs are in module Risk.       *)
(***************************************************************************)
EXTENDS Naturals, FiniteSets

CONSTANTS
  Delivery,      \* the deliveries the actor takes part in
  Call,          \* the actor's requests that may overlap
  DailyLimit,    \* getIncidentDailyLimit()
  DeliveryLimit, \* getIncidentPerDeliveryLimit()
  MaxIncidents,  \* bound: rows that are ever inserted
  None           \* null: no row; no request

\* Assumed of every instance.
LimitsAreNumbers ==
  /\ DailyLimit \in Nat \ {0} /\ DeliveryLimit \in Nat \ {0} /\ MaxIncidents \in Nat
  /\ IsFiniteSet(Call)

VARIABLES
  incident,  \* the rows, or None
  report     \* where a request stands, or None

incidentVars == <<incident, report>>

Number == 1..MaxIncidents
IncidentStatus == {"OPEN", "UNDER_REVIEW", "RESOLVED", "REJECTED"}
Incident == [delivery : Delivery, status : IncidentStatus, recent : BOOLEAN]
Report == [delivery : Delivery, at : {"daily", "delivery", "create"}]

Init == incident = [i \in Number |-> None] /\ report = [c \in Call |-> None]

Rows == {i \in Number : incident[i] # None}
Recent == {i \in Rows : incident[i].recent}
Of(d) == {i \in Rows : incident[i].delivery = d}

CreateIncident(c, d) ==
  /\ report[c] = None
  /\ report' = [report EXCEPT ![c] = [delivery |-> d, at |-> "daily"]]
  /\ UNCHANGED incident

At(c, place) == report[c] # None /\ report[c].at = place

\* Mutant of Below: the limit itself is allowed.
AtMost(n, limit) == n <= limit

Below(n, limit) == n < limit

\* A count that reaches its limit answers 429.
Continue(c, within, next) ==
  /\ report' = [report EXCEPT ![c] = IF within THEN [@ EXCEPT !.at = next] ELSE None]
  /\ UNCHANGED incident

CountDay(c) ==
  At(c, "daily") /\ Continue(c, Below(Cardinality(Recent), DailyLimit), "delivery")

CountDelivery(c) ==
  /\ At(c, "delivery")
  /\ Continue(c, Below(Cardinality(Of(report[c].delivery)), DeliveryLimit), "create")

Insert(c) ==
  /\ At(c, "create")
  /\ \E i \in Number \ Rows :
       /\ \A j \in Number \ Rows : i <= j
       /\ incident' = [incident EXCEPT ![i] =
            [delivery |-> report[c].delivery, status |-> "OPEN", recent |-> TRUE]]
  /\ report' = [report EXCEPT ![c] = None]

\* The transaction is rolled back.
Abort(c) ==
  /\ report[c] # None
  /\ report' = [report EXCEPT ![c] = None]
  /\ UNCHANGED incident

DayPasses(i) ==
  /\ i \in Recent
  /\ incident' = [incident EXCEPT ![i].recent = FALSE]
  /\ UNCHANGED report

allowedTransitions ==
  [OPEN |-> {"UNDER_REVIEW"}, UNDER_REVIEW |-> {"RESOLVED", "REJECTED"},
   RESOLVED |-> {}, REJECTED |-> {}]

\* reviewIncident(), resolveIncident() and rejectIncident(); a repeated one changes nothing.
TransitionIncidentStatus(i, next) ==
  /\ i \in Rows /\ next \in allowedTransitions[incident[i].status]
  /\ incident' = [incident EXCEPT ![i].status = next]
  /\ UNCHANGED report

Next ==
  \/ \E c \in Call :
       \/ \E d \in Delivery : CreateIncident(c, d)
       \/ CountDay(c) \/ CountDelivery(c) \/ Insert(c) \/ Abort(c)
  \/ \E i \in Number :
       DayPasses(i) \/ \E next \in IncidentStatus : TransitionIncidentStatus(i, next)

Spec == Init /\ [][Next]_incidentVars

-----------------------------------------------------------------------------
TypeOK ==
  /\ incident \in [Number -> Incident \cup {None}]
  /\ report \in [Call -> Report \cup {None}]

\* Requests that overlap exceed the limits, by less than there are of them, however
\* often each is repeated: every one of them counts after its last insertion.
LimitsHoldButForOverlap ==
  /\ Cardinality(Recent) < DailyLimit + Cardinality(Call)
  /\ \A d \in Delivery : Cardinality(Of(d)) < DeliveryLimit + Cardinality(Call)
=============================================================================
