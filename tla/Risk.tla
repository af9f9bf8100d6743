-------------------------------- MODULE Risk --------------------------------
(***************************************************************************)
(* The risk score of one actor. The services tell of a cause after their   *)
(* own transaction: the cause is inserted under its dedupKey, and then the *)
(* score is recalculated from the rows and written over the snapshot, in   *)
(* statements of their own; an error in any of them is logged and ends it. *)
(***************************************************************************)
EXTENDS Naturals, FiniteSetsExt

CONSTANTS
  Cause,            \* dedupKeys: an incident, a delivery, a window of time
  Category,         \* RiskCategory
  categoryOf,       \* the category and the score a cause is told of with
  scoreOf,
  maxContribution,  \* of RISK_CATEGORY_RULES
  Call,             \* emissions that may overlap
  None              \* no emission

\* Assumed of every instance.
CausesAreScored ==
  /\ IsFiniteSet(Cause) /\ IsFiniteSet(Category)
  /\ categoryOf \in [Cause -> Category] /\ scoreOf \in [Cause -> 0..100]
  /\ maxContribution \in [Category -> 0..100]

VARIABLES
  rows,       \* the number of RiskEvents of a cause
  told,       \* the causes the services have told of
  old,        \* the causes whose row is older than the window of its category
  snapshot,   \* RiskScoreSnapshot.score (0: no row)
  emission    \* what an emission has done, or None

riskVars == <<rows, told, old, snapshot, emission>>

Emission == [at : {"recorded"}, score : {0}] \cup [at : {"read"}, score : 0..100]

Init ==
  /\ rows = [k \in Cause |-> 0] /\ told = {} /\ old = {}
  /\ snapshot = 0 /\ emission = [c \in Call |-> None]

\* Mutant of Recorded: the key is not unique.
RecordedAgain(k) == rows[k] + 1

\* The insert succeeds, or P2002 tells that the cause is recorded already.
Recorded(k) == 1

Lesser(a, b) == IF a <= b THEN a ELSE b

\* buildBreakdown() and the sum of its contributions.
Score(count) ==
  LET raw(g) == MapThenSumSet(LAMBDA k : count[k] * scoreOf[k],
                              {k \in Cause : categoryOf[k] = g})
  IN Lesser(100, MapThenSumSet(LAMBDA g : Lesser(raw(g), maxContribution[g]), Category))

RecordRiskEvent(c, k) ==
  /\ emission[c] = None
  /\ rows' = [rows EXCEPT ![k] = Recorded(k)] /\ told' = told \cup {k}
  /\ emission' = [emission EXCEPT ![c] = [at |-> "recorded", score |-> 0]]
  /\ UNCHANGED <<old, snapshot>>

Relevant == [k \in Cause |-> IF k \in old THEN 0 ELSE rows[k]]

ReadEvents(c) ==
  /\ emission[c] # None /\ emission[c].at = "recorded"
  /\ emission' = [emission EXCEPT ![c] = [at |-> "read", score |-> Score(Relevant)]]
  /\ UNCHANGED <<rows, told, old, snapshot>>

UpsertSnapshot(c) ==
  /\ emission[c] # None /\ emission[c].at = "read"
  /\ snapshot' = emission[c].score
  /\ emission' = [emission EXCEPT ![c] = None]
  /\ UNCHANGED <<rows, told, old>>

IntegrationFailed(c) ==
  /\ emission[c] # None
  /\ emission' = [emission EXCEPT ![c] = None]
  /\ UNCHANGED <<rows, told, old, snapshot>>

WindowPasses(k) ==
  /\ rows[k] > 0 /\ k \notin old
  /\ old' = old \cup {k}
  /\ UNCHANGED <<rows, told, snapshot, emission>>

\* After which a cause can be recorded anew.
CleanupOldRiskEvents ==
  /\ old # {}
  /\ \E gone \in (SUBSET old) \ {{}} :
       rows' = [k \in Cause |-> IF k \in gone THEN 0 ELSE rows[k]] /\ old' = old \ gone
  /\ UNCHANGED <<told, snapshot, emission>>

Next ==
  \/ \E c \in Call :
       \/ \E k \in Cause : RecordRiskEvent(c, k)
       \/ ReadEvents(c) \/ UpsertSnapshot(c) \/ IntegrationFailed(c)
  \/ \E k \in Cause : WindowPasses(k)
  \/ CleanupOldRiskEvents

Spec == Init /\ [][Next]_riskVars

-----------------------------------------------------------------------------
TypeOK ==
  /\ rows \in [Cause -> Nat] /\ told \subseteq Cause /\ old \subseteq Cause
  /\ snapshot \in 0..100 /\ emission \in [Call -> Emission \cup {None}]

\* A cause costs its points once, however often it is told of and whichever of the
\* overlapping recalculations writes last.
EachCauseCountsOnce == snapshot <= Score([k \in Cause |-> IF k \in told THEN 1 ELSE 0])
=============================================================================
