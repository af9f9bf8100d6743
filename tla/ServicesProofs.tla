---------------------------- MODULE ServicesProofs ----------------------------
(***************************************************************************)
(* Proofs about the services of module Services, one section for each. The *)
(* section states the inductive invariant of its service, and why it is    *)
(* needed; the theorem at its end is the property of the service, for      *)
(* every value of the constants that satisfies ServicesAssumption.         *)
(***************************************************************************)
EXTENDS Services, Sequences, DeliveryProofs, DonationsProofs, OrderFulfilmentProofs,
        FiniteSetTheorems, FunctionTheorems

-----------------------------------------------------------------------------
(***************************************************************************)
(* Roles. What a request has read under the lock of the user is what the   *)
(* row says until it writes, so that writing the whole set loses nothing.  *)
(***************************************************************************)
\* What a request has read is what the row says, and one request at a time has it.
LocksHold ==
  /\ \A q \in Request : task[q] # Null => task[q].seen = roles[task[q].user]
  /\ \A p, q \in Request :
       p # q /\ task[p] # Null /\ task[q] # Null => task[p].user # task[q].user

\* A role is approved only while it is held; no user is without a role.
RolesInv == RolesTypeOK /\ LocksHold /\ AuditTellsRoles /\ ApprovedIsHeld

LEMMA RolesAtFirst == RolesInit => RolesInv
<1>1. ASSUME RolesInit PROVE RolesTypeOK
  <2>1. roles \in [User -> {{"CLIENT"}, {"ADMIN"}}]
    BY <1>1 DEF RolesInit
  <2>2. {"CLIENT"} \in (SUBSET Role) \ {{}} /\ {"ADMIN"} \in (SUBSET Role) \ {{}}
    BY DEF Role
  <2>3. roles \in [User -> (SUBSET Role) \ {{}}]
    BY <2>1, <2>2
  <2> QED BY <1>1, <2>3 DEF RolesInit, RolesTypeOK
<1>2. ASSUME RolesInit PROVE LocksHold /\ AuditTellsRoles /\ ApprovedIsHeld
  BY <1>2 DEF RolesInit, LocksHold, AuditTellsRoles, ApprovedIsHeld
<1> QED BY <1>1, <1>2 DEF RolesInv

LEMMA BeginKeeps ==
  ASSUME RolesInv, NEW q \in Request, NEW kind \in Kind, NEW actor \in User, NEW u \in User,
         NEW role \in Role, Begin(q, kind, actor, u, role)
  PROVE  RolesInv'
<1>1. [kind |-> kind, user |-> u, role |-> role, seen |-> roles[u]] \in Task
  BY DEF RolesInv, RolesTypeOK, Task
<1>2. RolesTypeOK'
  BY <1>1 DEF RolesInv, RolesTypeOK, Begin
<1>3. LocksHold'
  BY DEF RolesInv, RolesTypeOK, LocksHold, Begin, Free
<1>4. AuditTellsRoles' /\ ApprovedIsHeld'
  BY DEF RolesInv, AuditTellsRoles, ApprovedIsHeld, Begin
<1> QED BY <1>2, <1>3, <1>4 DEF RolesInv

LEMMA RefuseKeeps ==
  ASSUME RolesInv, NEW q \in Request, Refuse(q)
  PROVE  RolesInv'
<1>1. RolesTypeOK' /\ LocksHold'
  BY DEF RolesInv, RolesTypeOK, LocksHold, Refuse
<1>2. AuditTellsRoles' /\ ApprovedIsHeld'
  BY DEF RolesInv, AuditTellsRoles, ApprovedIsHeld, Refuse
<1> QED BY <1>1, <1>2 DEF RolesInv

LEMMA KeepKeeps ==
  ASSUME RolesInv, NEW q \in Request, Keep(q)
  PROVE  RolesInv'
<1> DEFINE t == task[q]
<1>1. t \in Task /\ t.user \in User /\ t.role \in Role /\ t.seen = ledger[t.user]
  BY DEF RolesInv, RolesTypeOK, LocksHold, AuditTellsRoles, Keep, Task
<1>2. ledger' = ledger
  <2>1. CASE t.role \in t.seen /\ Audit(t.user, ledger[t.user] \cup {t.role})
    <3>1. ledger[t.user] \cup {t.role} = ledger[t.user]
      BY <1>1, <2>1
    <3> QED BY <1>1, <2>1, <3>1 DEF Audit, RolesInv, RolesTypeOK
  <2>2. CASE t.role \notin t.seen /\ Audit(t.user, ledger[t.user] \ {t.role})
    <3>1. ledger[t.user] \ {t.role} = ledger[t.user]
      BY <1>1, <2>2
    <3> QED BY <1>1, <2>2, <3>1 DEF Audit, RolesInv, RolesTypeOK
  <2> QED BY <2>1, <2>2 DEF Keep
<1>3. RolesTypeOK' /\ LocksHold'
  BY <1>2 DEF RolesInv, RolesTypeOK, LocksHold, Keep
<1>4. AuditTellsRoles' /\ ApprovedIsHeld'
  BY <1>2 DEF RolesInv, AuditTellsRoles, ApprovedIsHeld, Keep
<1> QED BY <1>3, <1>4 DEF RolesInv

LEMMA AssignKeeps ==
  ASSUME RolesInv, NEW q \in Request, Assign(q)
  PROVE  RolesInv'
<1> DEFINE t == task[q]
<1>1. t \in Task /\ t.user \in User /\ t.role \in Role /\ t.seen = roles[t.user]
  BY DEF RolesInv, RolesTypeOK, LocksHold, Assign, Task
<1>2. RolesTypeOK'
  <2>1. roles' \in [User -> (SUBSET Role) \ {{}}] /\ ledger' \in [User -> SUBSET Role]
    <3>1. t.seen \cup {t.role} \in (SUBSET Role) \ {{}}
      BY <1>1 DEF Task
    <3>2. ledger[t.user] \cup {t.role} \in SUBSET Role
      BY <1>1 DEF RolesInv, RolesTypeOK
    <3> QED BY <3>1, <3>2 DEF RolesInv, RolesTypeOK, Assign, Audit
  <2>2. requested' \in [User -> Requestable \cup {Null}] /\ recent' \subseteq User
    BY <1>1 DEF RolesInv, RolesTypeOK, Assign
  <2>3. task' \in [Request -> Task \cup {Null}]
    BY DEF RolesInv, RolesTypeOK, Assign
  <2> QED BY <2>1, <2>2, <2>3 DEF RolesTypeOK
<1>3. LocksHold'
  BY <1>1 DEF RolesInv, RolesTypeOK, LocksHold, Assign
<1>4. AuditTellsRoles'
  BY <1>1 DEF RolesInv, RolesTypeOK, AuditTellsRoles, Assign, Audit
<1>5. ApprovedIsHeld'
  BY <1>1 DEF RolesInv, RolesTypeOK, ApprovedIsHeld, Assign
<1> QED BY <1>2, <1>3, <1>4, <1>5 DEF RolesInv

LEMMA RevokeKeeps ==
  ASSUME RolesInv, NEW q \in Request, Revoke(q)
  PROVE  RolesInv'
<1> DEFINE t == task[q]
<1>1. t \in Task /\ t.user \in User /\ t.role \in Role /\ t.seen = roles[t.user]
  BY DEF RolesInv, RolesTypeOK, LocksHold, Revoke, Task
<1>2. t.seen \ {t.role} # {}
  BY DEF Revoke, MayLose
<1>3. RolesTypeOK'
  BY <1>1, <1>2 DEF RolesInv, RolesTypeOK, Revoke, Audit
<1>4. LocksHold'
  BY <1>1 DEF RolesInv, RolesTypeOK, LocksHold, Revoke
<1>5. AuditTellsRoles'
  BY <1>1 DEF RolesInv, RolesTypeOK, AuditTellsRoles, Revoke, Audit
<1>6. ApprovedIsHeld'
  <2> SUFFICES ASSUME NEW u \in User, requested'[u] # Null
               PROVE  requested'[u] \in roles'[u]
    BY DEF ApprovedIsHeld
  <2>1. requested'[u] = requested[u]
    BY DEF RolesInv, RolesTypeOK, Revoke
  <2>2. requested[u] \in roles[u] /\ requested[u] \in Requestable
    BY <2>1 DEF RolesInv, RolesTypeOK, ApprovedIsHeld
  <2>3. CASE u # t.user
    BY <2>1, <2>2, <2>3, <1>1 DEF RolesInv, RolesTypeOK, Revoke
  <2>4. CASE u = t.user
    BY <2>1, <2>2, <2>4, <1>1 DEF RolesInv, RolesTypeOK, Revoke, Withdrawn
  <2> QED BY <2>3, <2>4
<1> QED BY <1>3, <1>4, <1>5, <1>6 DEF RolesInv

LEMMA CooldownKeeps ==
  ASSUME RolesInv, NEW u \in User, CooldownEnds(u)
  PROVE  RolesInv'
BY DEF RolesInv, RolesTypeOK, LocksHold, AuditTellsRoles, ApprovedIsHeld, CooldownEnds

LEMMA RolesStep == RolesInv /\ [RolesNext]_roleVars => RolesInv'
<1> SUFFICES ASSUME RolesInv, [RolesNext]_roleVars PROVE RolesInv'
  OBVIOUS
<1>1. CASE \E q \in Request, kind \in Kind, actor, u \in User, role \in Role :
             Begin(q, kind, actor, u, role)
  BY <1>1, BeginKeeps
<1>2. CASE \E q \in Request : Refuse(q) \/ Keep(q) \/ Assign(q) \/ Revoke(q)
  BY <1>2, RefuseKeeps, KeepKeeps, AssignKeeps, RevokeKeeps
<1>3. CASE \E u \in User : CooldownEnds(u)
  BY <1>3, CooldownKeeps
<1>4. CASE UNCHANGED roleVars
  BY <1>4 DEF RolesInv, RolesTypeOK, LocksHold, AuditTellsRoles, ApprovedIsHeld, roleVars
<1> QED BY <1>1, <1>2, <1>3, <1>4 DEF RolesNext

\* The roles of every user are those the audit log tells of, however many requests for,
\* grants and revocations of roles overlap.
THEOREM AuditTellsRolesAlways == RolesSpec => []AuditTellsRoles
<1>1. RolesInv => AuditTellsRoles
  BY DEF RolesInv
<1> QED BY <1>1, RolesAtFirst, RolesStep, PTL DEF RolesSpec

\* A role that is shown as approved is held.
THEOREM ApprovedIsHeldAlways == RolesSpec => []ApprovedIsHeld
<1>1. RolesInv => ApprovedIsHeld
  BY DEF RolesInv
<1> QED BY <1>1, RolesAtFirst, RolesStep, PTL DEF RolesSpec

\* Every user keeps a role, and rows and requests keep to their types.
LEMMA RolesTypes == RolesSpec => []RolesTypeOK
<1>1. RolesInv => RolesTypeOK
  BY DEF RolesInv
<1> QED BY <1>1, RolesAtFirst, RolesStep, PTL DEF RolesSpec

-----------------------------------------------------------------------------
(***************************************************************************)
(* Incidents. A request that has counted below the limit and not inserted  *)
(* yet is room taken: the rows and those requests together are never more  *)
(* than a count below the limit and one request each could make them.      *)
(***************************************************************************)
PastDay == {c \in Call : I!At(c, "delivery") \/ I!At(c, "create")}
PastDelivery(d) == {c \in Call : I!At(c, "create") /\ iReport[c].delivery = d}

RoomFor(limit, rows, past) ==
  Cardinality(rows) + Cardinality(past) <= limit - 1 + Cardinality(Call)

IncidentInv ==
  /\ I!TypeOK
  /\ RoomFor(DailyLimit, I!Recent, PastDay)
  /\ \A d \in Reported : RoomFor(DeliveryLimit, I!Of(d), PastDelivery(d))

LEMMA IncidentCardinality == ASSUME NEW S PROVE I!Cardinality(S) = Cardinality(S)
BY DEF Cardinality, I!Cardinality

LEMMA IncidentConstants ==
  /\ DailyLimit \in Nat \ {0} /\ DeliveryLimit \in Nat \ {0} /\ MaxIncidents \in Nat
  /\ IsFiniteSet(Call) /\ IsFiniteSet(I!Number)
<1>1. IsFiniteSet(Call) <=> I!IsFiniteSet(Call)
  BY DEF IsFiniteSet, I!IsFiniteSet
<1>2. /\ DailyLimit \in Nat \ {0} /\ DeliveryLimit \in Nat \ {0} /\ MaxIncidents \in Nat
      /\ IsFiniteSet(Call)
  BY <1>1, ServicesAssumption DEF I!LimitsAreNumbers
<1>3. MaxIncidents \in Int /\ 1 \in Int
  BY <1>2
<1> QED BY <1>2, <1>3, FS_Interval DEF I!Number

\* Rows or requests become fewer; a request inserts its row; or one counts below the limit.
LEMMA RoomIsKept ==
  ASSUME NEW rows \in SUBSET I!Number, NEW past \in SUBSET Call,
         NEW rowsNext, NEW pastNext \in SUBSET Call, NEW limit \in Nat \ {0},
         RoomFor(limit, rows, past),
         \/ rowsNext \subseteq rows /\ pastNext \subseteq past
         \/ \E i, c : /\ c \in past /\ rowsNext \subseteq rows \cup {i}
                      /\ pastNext \subseteq past \ {c}
         \/ rowsNext \subseteq rows /\ Cardinality(rows) < limit
  PROVE  RoomFor(limit, rowsNext, pastNext)
<1>1. /\ IsFiniteSet(rows) /\ IsFiniteSet(past)
      /\ Cardinality(rows) \in Nat /\ Cardinality(past) \in Nat /\ Cardinality(Call) \in Nat
  BY IncidentConstants, FS_Subset, FS_CardinalityType
<1>2. /\ IsFiniteSet(pastNext) /\ Cardinality(pastNext) \in Nat
      /\ Cardinality(pastNext) <= Cardinality(Call)
  BY IncidentConstants, FS_Subset, FS_CardinalityType
<1>3. \A S, U : IsFiniteSet(S) /\ U \subseteq S =>
        Cardinality(U) \in Nat /\ Cardinality(U) <= Cardinality(S)
  BY FS_Subset, FS_CardinalityType
<1>4. CASE rowsNext \subseteq rows /\ pastNext \subseteq past
  <2>1. /\ Cardinality(rowsNext) \in Nat /\ Cardinality(rowsNext) <= Cardinality(rows)
        /\ Cardinality(pastNext) <= Cardinality(past)
    BY <1>1, <1>3, <1>4
  <2> QED BY <1>1, <1>2, <2>1 DEF RoomFor
<1>5. ASSUME NEW i, NEW c, c \in past,
             rowsNext \subseteq rows \cup {i}, pastNext \subseteq past \ {c}
      PROVE  RoomFor(limit, rowsNext, pastNext)
  <2>1. /\ IsFiniteSet(rows \cup {i}) /\ Cardinality(rows \cup {i}) <= Cardinality(rows) + 1
        /\ Cardinality(rows \cup {i}) \in Nat
    <3>1. /\ IsFiniteSet(rows \cup {i})
          /\ \/ Cardinality(rows \cup {i}) = Cardinality(rows)
             \/ Cardinality(rows \cup {i}) = Cardinality(rows) + 1
      BY <1>1, FS_AddElement
    <3> QED BY <1>1, <3>1
  <2>2. /\ IsFiniteSet(past \ {c}) /\ Cardinality(past \ {c}) = Cardinality(past) - 1
        /\ Cardinality(past \ {c}) \in Nat
    BY <1>1, <1>5, FS_RemoveElement, FS_CardinalityType
  <2>3. /\ Cardinality(rowsNext) \in Nat /\ Cardinality(rowsNext) <= Cardinality(rows \cup {i})
        /\ Cardinality(pastNext) <= Cardinality(past \ {c})
    BY <1>3, <1>5, <2>1, <2>2
  <2> HIDE DEF RoomFor
  <2>4. Cardinality(rowsNext) + Cardinality(pastNext) <= Cardinality(rows) + Cardinality(past)
    BY <1>1, <1>2, <2>1, <2>2, <2>3
  <2> QED BY <1>1, <1>2, <2>3, <2>4 DEF RoomFor
<1>6. CASE rowsNext \subseteq rows /\ Cardinality(rows) < limit
  <2>1. Cardinality(rowsNext) \in Nat /\ Cardinality(rowsNext) <= Cardinality(rows)
    BY <1>1, <1>3, <1>6
  <2> QED BY <1>1, <1>2, <1>6, <2>1 DEF RoomFor
<1> QED BY <1>4, <1>5, <1>6

LEMMA RoomInNext ==
  ASSUME IncidentInv, I!TypeOK',
         \/ I!Recent' \subseteq I!Recent /\ PastDay' \subseteq PastDay
         \/ \E i, c : /\ c \in PastDay /\ I!Recent' \subseteq I!Recent \cup {i}
                      /\ PastDay' \subseteq PastDay \ {c}
         \/ I!Recent' \subseteq I!Recent /\ Cardinality(I!Recent) < DailyLimit,
         \A d \in Reported :
         \/ I!Of(d)' \subseteq I!Of(d) /\ PastDelivery(d)' \subseteq PastDelivery(d)
         \/ \E i, c : /\ c \in PastDelivery(d) /\ I!Of(d)' \subseteq I!Of(d) \cup {i}
                      /\ PastDelivery(d)' \subseteq PastDelivery(d) \ {c}
         \/ I!Of(d)' \subseteq I!Of(d) /\ Cardinality(I!Of(d)) < DeliveryLimit
  PROVE  IncidentInv'
<1>1. I!Recent \in SUBSET I!Number /\ PastDay \in SUBSET Call /\ PastDay' \in SUBSET Call
  BY DEF I!Recent, I!Rows, PastDay
<1>2. RoomFor(DailyLimit, I!Recent', PastDay')
  BY <1>1, RoomIsKept, IncidentConstants DEF IncidentInv
<1>3. ASSUME NEW d \in Reported PROVE RoomFor(DeliveryLimit, I!Of(d)', PastDelivery(d)')
  <2>1. /\ I!Of(d) \in SUBSET I!Number
        /\ PastDelivery(d) \in SUBSET Call /\ PastDelivery(d)' \in SUBSET Call
    BY DEF I!Of, I!Rows, PastDelivery
  <2> QED BY <1>3, <2>1, RoomIsKept, IncidentConstants DEF IncidentInv
<1> QED BY <1>2, <1>3 DEF IncidentInv, RoomFor

LEMMA IncidentInit == I!Init => IncidentInv
<1> SUFFICES ASSUME I!Init PROVE IncidentInv
  OBVIOUS
<1>1. I!TypeOK
  BY DEF I!Init, I!TypeOK
<1>2. I!Recent = {} /\ PastDay = {} /\ \A d \in Reported : I!Of(d) = {} /\ PastDelivery(d) = {}
  BY DEF I!Init, I!Recent, I!Of, I!Rows, PastDay, PastDelivery, I!At
<1>3. Cardinality({}) = 0 /\ Cardinality(Call) \in Nat
  BY FS_EmptySet, FS_CardinalityType, IncidentConstants
<1>4. \A limit \in Nat \ {0} : RoomFor(limit, {}, {})
  BY <1>3 DEF RoomFor
<1> HIDE DEF RoomFor
<1> QED BY <1>1, <1>2, <1>4, IncidentConstants DEF IncidentInv

\* A request goes from one place to the next.
LEMMA RequestKeeps ==
  ASSUME IncidentInv, NEW c \in Call,
         \/ \E d \in Reported : I!CreateIncident(c, d)
         \/ I!CountDay(c) \/ I!CountDelivery(c) \/ I!Abort(c)
  PROVE  IncidentInv'
<1>1. I!TypeOK
  BY DEF IncidentInv
<1>2. iIncident' = iIncident /\ I!Recent' = I!Recent /\ \A d \in Reported : I!Of(d)' = I!Of(d)
  BY DEF I!CreateIncident, I!CountDay, I!CountDelivery, I!Abort, I!Continue, I!Recent, I!Of, I!Rows
<1> DEFINE Goes(next) ==
      /\ iReport' = [iReport EXCEPT ![c] = next]
      /\ \/ next = None \/ next.at = "daily"
         \/ /\ I!At(c, "daily") /\ next.at = "delivery" /\ Cardinality(I!Recent) < DailyLimit
         \/ /\ I!At(c, "delivery") /\ next.at = "create" /\ next.delivery = iReport[c].delivery
            /\ Cardinality(I!Of(next.delivery)) < DeliveryLimit
<1>3. \E next \in I!Report \cup {None} : Goes(next)
  <2>1. ASSUME NEW d \in Reported, I!CreateIncident(c, d)
        PROVE  \E next \in I!Report \cup {None} : Goes(next)
    <3>1. [delivery |-> d, at |-> "daily"] \in I!Report
      BY DEF I!Report
    <3>2. Goes([delivery |-> d, at |-> "daily"])
      BY <2>1 DEF I!CreateIncident
    <3> QED BY <3>1, <3>2
  <2>2. CASE I!Abort(c)
    BY <2>2 DEF I!Abort
  <2>3. I!CountDay(c) \/ I!CountDelivery(c) => iReport[c] \in I!Report
    BY <1>1 DEF I!CountDay, I!CountDelivery, I!At, I!TypeOK
  <2>4. CASE I!CountDay(c)
    <3>1. [iReport[c] EXCEPT !.at = "delivery"] \in I!Report
      BY <2>3, <2>4 DEF I!Report
    <3>2. /\ I!At(c, "daily")
          /\ iReport' = [iReport EXCEPT ![c] = IF Cardinality(I!Recent) < DailyLimit
                           THEN [iReport[c] EXCEPT !.at = "delivery"] ELSE None]
      BY <1>1, <2>4, IncidentCardinality DEF I!CountDay, I!Continue, I!Below, I!TypeOK
    <3> QED BY <2>3, <2>4, <3>1, <3>2 DEF I!Report
  <2>5. CASE I!CountDelivery(c)
    <3>1. /\ [iReport[c] EXCEPT !.at = "create"] \in I!Report
          /\ [iReport[c] EXCEPT !.at = "create"].delivery = iReport[c].delivery
      BY <2>3, <2>5 DEF I!Report
    <3>2. /\ I!At(c, "delivery")
          /\ iReport' = [iReport EXCEPT ![c] =
               IF Cardinality(I!Of(iReport[c].delivery)) < DeliveryLimit
               THEN [iReport[c] EXCEPT !.at = "create"] ELSE None]
      BY <1>1, <2>5, IncidentCardinality DEF I!CountDelivery, I!Continue, I!Below, I!TypeOK
    <3> QED BY <2>3, <2>5, <3>1, <3>2 DEF I!Report
  <2> QED BY <2>1, <2>2, <2>4, <2>5
<1>4. PICK next \in I!Report \cup {None} : Goes(next)
  BY <1>3
<1>5. I!TypeOK' /\ iReport'[c] = next /\ \A o \in Call \ {c} : iReport'[o] = iReport[o]
  BY <1>1, <1>2, <1>4 DEF I!TypeOK
<1>6. PastDay' \subseteq PastDay \/ Cardinality(I!Recent) < DailyLimit
  BY <1>4, <1>5 DEF PastDay, I!At
<1>7. ASSUME NEW d \in Reported
      PROVE  PastDelivery(d)' \subseteq PastDelivery(d) \/ Cardinality(I!Of(d)) < DeliveryLimit
  BY <1>4, <1>5 DEF PastDelivery, I!At
<1> QED BY <1>2, <1>5, <1>6, <1>7, RoomInNext

LEMMA InsertKeeps ==
  ASSUME IncidentInv, NEW c \in Call, I!Insert(c) PROVE IncidentInv'
<1>1. I!TypeOK /\ iReport[c] \in I!Report /\ I!At(c, "create")
  BY DEF IncidentInv, I!Insert, I!At, I!TypeOK
<1>2. PICK i \in I!Number \ I!Rows :
        iIncident' = [iIncident EXCEPT ![i] =
          [delivery |-> iReport[c].delivery, status |-> "OPEN", recent |-> TRUE]]
  BY DEF I!Insert
<1> DEFINE row == [delivery |-> iReport[c].delivery, status |-> "OPEN", recent |-> TRUE]
<1>3. row \in I!Incident /\ row.delivery = iReport[c].delivery
  BY <1>1 DEF I!Report, I!Incident, I!IncidentStatus
<1> HIDE DEF row
<1>4. iIncident' = [iIncident EXCEPT ![i] = row]
  BY <1>2 DEF row
<1>5. iReport' = [iReport EXCEPT ![c] = None]
  BY DEF I!Insert
<1>6. I!TypeOK'
  BY <1>1, <1>3, <1>4, <1>5 DEF I!TypeOK
<1>7. /\ iIncident'[i] = row /\ \A j \in I!Number \ {i} : iIncident'[j] = iIncident[j]
      /\ iReport'[c] = None /\ \A o \in Call \ {c} : iReport'[o] = iReport[o]
  BY <1>1, <1>2, <1>4, <1>5 DEF I!TypeOK
<1>8. /\ c \in PastDay /\ PastDay' \subseteq PastDay \ {c}
      /\ I!Recent' \subseteq I!Recent \cup {i}
  BY <1>1, <1>7 DEF PastDay, I!At, I!Recent, I!Rows
<1>9. ASSUME NEW d \in Reported
      PROVE  \/ I!Of(d)' \subseteq I!Of(d) /\ PastDelivery(d)' \subseteq PastDelivery(d)
             \/ /\ c \in PastDelivery(d) /\ I!Of(d)' \subseteq I!Of(d) \cup {i}
                /\ PastDelivery(d)' \subseteq PastDelivery(d) \ {c}
  BY <1>1, <1>3, <1>7 DEF PastDelivery, I!At, I!Of, I!Rows
<1> QED BY <1>6, <1>8, <1>9, RoomInNext

\* Time passes and reviews end: rows of the day become fewer.
LEMMA ReviewKeeps ==
  ASSUME IncidentInv, NEW i \in I!Number,
         I!DayPasses(i) \/ \E next \in I!IncidentStatus : I!TransitionIncidentStatus(i, next)
  PROVE  IncidentInv'
<1>1. I!TypeOK /\ iIncident[i] \in I!Incident /\ i \in I!Rows
  BY DEF IncidentInv, I!DayPasses, I!TransitionIncidentStatus, I!Recent, I!Rows, I!TypeOK
<1>2. PICK row \in I!Incident :
        /\ iIncident' = [iIncident EXCEPT ![i] = row]
        /\ row.delivery = iIncident[i].delivery /\ (row.recent = TRUE => iIncident[i].recent = TRUE)
  <2>1. CASE I!DayPasses(i)
    <3>1. /\ [iIncident[i] EXCEPT !.recent = FALSE] \in I!Incident
          /\ iIncident' = [iIncident EXCEPT ![i] = [iIncident[i] EXCEPT !.recent = FALSE]]
      BY <1>1, <2>1 DEF I!DayPasses, I!Incident
    <3> QED BY <1>1, <3>1 DEF I!Incident
  <2>2. ASSUME NEW next \in I!IncidentStatus, I!TransitionIncidentStatus(i, next)
        PROVE  \E row \in I!Incident :
                 /\ iIncident' = [iIncident EXCEPT ![i] = row]
                 /\ row.delivery = iIncident[i].delivery
                 /\ (row.recent = TRUE => iIncident[i].recent = TRUE)
    <3>1. /\ [iIncident[i] EXCEPT !.status = next] \in I!Incident
          /\ iIncident' = [iIncident EXCEPT ![i] = [iIncident[i] EXCEPT !.status = next]]
      BY <1>1, <2>2 DEF I!TransitionIncidentStatus, I!Incident
    <3> QED BY <1>1, <3>1 DEF I!Incident
  <2> QED BY <2>1, <2>2
<1>3. iReport' = iReport
  BY DEF I!DayPasses, I!TransitionIncidentStatus
<1>4. I!TypeOK' /\ iIncident'[i] = row /\ \A j \in I!Number \ {i} : iIncident'[j] = iIncident[j]
  BY <1>1, <1>2, <1>3 DEF I!TypeOK
<1>5. I!Recent' \subseteq I!Recent
  <2>1. \A j \in I!Number : iIncident'[j] # None /\ iIncident'[j].recent =>
          iIncident[j] # None /\ iIncident[j].recent
    BY <1>1, <1>2, <1>4 DEF I!Rows
  <2> QED BY <2>1 DEF I!Recent, I!Rows
<1>6. \A d \in Reported : I!Of(d)' \subseteq I!Of(d)
  BY <1>1, <1>2, <1>4 DEF I!Of, I!Rows
<1>7. PastDay' = PastDay /\ \A d \in Reported : PastDelivery(d)' = PastDelivery(d)
  BY <1>3 DEF PastDay, PastDelivery, I!At
<1> QED BY <1>4, <1>5, <1>6, <1>7, RoomInNext

LEMMA IncidentStep == IncidentInv /\ [I!Next]_(I!incidentVars) => IncidentInv'
<1> SUFFICES ASSUME IncidentInv, [I!Next]_(I!incidentVars) PROVE IncidentInv'
  OBVIOUS
<1>1. CASE UNCHANGED I!incidentVars
  <2>1. I!TypeOK'
    BY <1>1 DEF I!incidentVars, I!TypeOK, IncidentInv
  <2>2. /\ I!Recent' = I!Recent /\ PastDay' = PastDay
        /\ \A d \in Reported : I!Of(d)' = I!Of(d) /\ PastDelivery(d)' = PastDelivery(d)
    BY <1>1 DEF I!incidentVars, I!Recent, I!Of, I!Rows, PastDay, PastDelivery, I!At
  <2> QED BY <2>1, <2>2, RoomInNext
<1> QED BY <1>1, RequestKeeps, InsertKeeps, ReviewKeeps DEF I!Next

\* Overlapping requests exceed the limits by less than there are of them.
THEOREM LimitsHoldButForOverlapAlways == I!Spec => []LimitsHoldButForOverlap
<1>1. IncidentInv => LimitsHoldButForOverlap
  <2> SUFFICES ASSUME IncidentInv
               PROVE  /\ Cardinality(I!Recent) < DailyLimit + Cardinality(Call)
                      /\ \A d \in Reported : Cardinality(I!Of(d)) < DeliveryLimit + Cardinality(Call)
    BY IncidentCardinality DEF LimitsHoldButForOverlap, I!LimitsHoldButForOverlap
  <2>1. \A S : S \subseteq I!Number => Cardinality(S) \in Nat
    BY IncidentConstants, FS_Subset, FS_CardinalityType
  <2>2. \A S : S \subseteq Call => Cardinality(S) \in Nat
    BY IncidentConstants, FS_Subset, FS_CardinalityType
  <2>3. /\ I!Recent \subseteq I!Number /\ PastDay \subseteq Call
        /\ \A d \in Reported : I!Of(d) \subseteq I!Number /\ PastDelivery(d) \subseteq Call
    BY DEF I!Recent, I!Of, I!Rows, PastDay, PastDelivery
  <2>4. \A limit \in Nat \ {0}, m, n, k \in Nat : m + n <= limit - 1 + k => m < limit + k
    OBVIOUS
  <2>5. Cardinality(Call) \in Nat
    BY <2>2
  <2>6. Cardinality(I!Recent) < DailyLimit + Cardinality(Call)
    BY <2>1, <2>2, <2>3, <2>5, IncidentConstants DEF IncidentInv, RoomFor
  <2>7. ASSUME NEW d \in Reported
        PROVE  Cardinality(I!Of(d)) < DeliveryLimit + Cardinality(Call)
    <3>1. Cardinality(I!Of(d)) \in Nat /\ Cardinality(PastDelivery(d)) \in Nat
      BY <2>1, <2>2, <2>3
    <3> QED BY <2>5, <3>1, IncidentConstants DEF IncidentInv, RoomFor
  <2> QED BY <2>6, <2>7
<1> QED BY <1>1, IncidentInit, IncidentStep, PTL DEF I!Spec

\* Incidents and reports keep to their types.
LEMMA IncidentTypes == I!Spec => []I!TypeOK
  BY IncidentInit, IncidentStep, PTL DEF I!Spec, IncidentInv

-----------------------------------------------------------------------------
(***************************************************************************)
(* Risk. A score is of causes that were told of, and scores grow with the  *)
(* causes: so no recalculation, however late, has more than all of them.   *)
(* That sums grow is shown by induction, which is that a set of numbers    *)
(* that is not empty has a least one: what would fail first does not fail. *)
(***************************************************************************)
LEMMA LeastNumber == ASSUME NEW S \in SUBSET Nat, S # {} PROVE \E n \in S : \A m \in S : n <= m
<1> DEFINE Less == {z \in Nat \X Nat : z[1] < z[2]}
<1>1. IsWellFoundedOn(Less, Nat)
  BY NatLessThanWellFounded DEF OpToRel
<1>2. \A n, m \in Nat : n < m => <<n, m>> \in Less
  OBVIOUS
<1> HIDE DEF Less
<1>3. PICK n \in S : \A m \in S : <<m, n>> \notin Less
  BY <1>1, WFMin
<1>4. ASSUME NEW m \in S PROVE n <= m
  <2>1. n \in Nat /\ m \in Nat /\ ~(m < n)
    BY <1>2, <1>3
  <2> QED BY <2>1
<1> QED BY <1>4

\* The sum of f over the subsets of a finite set, as MapThenSumSet defines it.
Some(s) == CHOOSE x \in s : TRUE
SumOver(total, f, sets) ==
  [s \in sets |-> IF s = {} THEN 0 ELSE f[Some(s)] + total[s \ {Some(s)}]]
IsSum(total, f, S) == total = SumOver(total, f, SUBSET S)

LEMMA SomeIsElement == ASSUME NEW s, s # {} PROVE Some(s) \in s
BY DEF Some

\* There is one: each size of subset is summed from the size before.
LEMMA SumExists ==
  ASSUME NEW S, IsFiniteSet(S), NEW f PROVE \E total : IsSum(total, f, S)
<1> DEFINE Small(n) == {s \in SUBSET S : Cardinality(s) <= n}
           Summed(n) == \E total : total = SumOver(total, f, Small(n))
           Sizes == {n \in Nat : ~Summed(n)}
<1>1. \A s \in SUBSET S : IsFiniteSet(s) /\ Cardinality(s) \in Nat /\ Cardinality(s) <= Cardinality(S)
  BY FS_Subset, FS_CardinalityType
<1>2. \A s \in SUBSET S : Cardinality(s) = 0 <=> s = {}
  BY <1>1, FS_EmptySet
<1>3. ASSUME NEW n \in Sizes, \A m \in Sizes : n <= m PROVE FALSE
  <2>1. CASE n = 0
    <3> DEFINE total == [s \in Small(0) |-> 0]
    <3>1. \A s \in Small(0) : s = {}
      BY <1>1, <1>2
    <3>2. total = SumOver(total, f, Small(0))
      BY <3>1 DEF SumOver
    <3> QED BY <1>3, <2>1, <3>2
  <2>2. CASE n # 0
    <3>1. n - 1 \in Nat /\ n \in Nat /\ Summed(n - 1)
      <4> HIDE DEF Summed
      <4>1. n \in Nat /\ n - 1 \in Nat
        BY <2>2
      <4>2. n - 1 \notin Sizes
        <5> HIDE DEF Sizes
        <5> QED BY <1>3, <4>1
      <4> QED BY <4>1, <4>2
    <3>2. PICK before : before = SumOver(before, f, Small(n - 1))
      BY <3>1
    <3> DEFINE total == SumOver(before, f, Small(n))
    <3>3. \A s \in Small(n) : s # {} => s \ {Some(s)} \in Small(n - 1)
      <4> SUFFICES ASSUME NEW s \in Small(n), s # {} PROVE s \ {Some(s)} \in Small(n - 1)
        OBVIOUS
      <4>1. s \in SUBSET S /\ Some(s) \in s /\ Cardinality(s) <= n
        BY SomeIsElement
      <4>2. Cardinality(s \ {Some(s)}) = Cardinality(s) - 1
        BY <1>1, <4>1, FS_RemoveElement
      <4>3. Cardinality(s) - 1 <= n - 1
        BY <1>1, <3>1, <4>1
      <4> QED BY <4>1, <4>2, <4>3
    <3>4. \A s \in Small(n - 1) : s \in Small(n)
      BY <1>1, <3>1
    <3> HIDE DEF Small
    <3>5. \A s \in Small(n - 1) : total[s] = before[s]
      BY <3>2, <3>4 DEF SumOver
    <3>6. total = SumOver(total, f, Small(n))
      BY <3>3, <3>5 DEF SumOver
    <3> HIDE DEF total
    <3> QED BY <1>3, <3>6
  <2> QED BY <2>1, <2>2
<1>4. Cardinality(S) \in Nat /\ Small(Cardinality(S)) = SUBSET S
  BY <1>1
<1> HIDE DEF Summed
<1>5. Summed(Cardinality(S))
  <2>1. Sizes \in SUBSET Nat
    OBVIOUS
  <2> HIDE DEF Sizes
  <2>2. Sizes = {}
    BY <1>3, <2>1, LeastNumber
  <2> QED BY <1>4, <2>2 DEF Sizes
<1> QED BY <1>4, <1>5 DEF Summed, IsSum

\* A sum of numbers is one, and no less than a sum of smaller ones.
LEMMA SumGrows ==
  ASSUME NEW S, IsFiniteSet(S), NEW f \in [S -> Nat], NEW g \in [S -> Nat],
         \A x \in S : f[x] <= g[x],
         NEW less, IsSum(less, f, S), NEW more, IsSum(more, g, S)
  PROVE  less[S] \in Nat /\ more[S] \in Nat /\ less[S] <= more[S]
<1> DEFINE Grows(s) == less[s] \in Nat /\ more[s] \in Nat /\ less[s] <= more[s]
           Sizes == {n \in Nat : \E s \in SUBSET S : Cardinality(s) = n /\ ~Grows(s)}
<1>1. \A s \in SUBSET S : IsFiniteSet(s) /\ Cardinality(s) \in Nat
  BY FS_Subset, FS_CardinalityType
<1>2. ASSUME NEW n \in Sizes, \A m \in Sizes : n <= m PROVE FALSE
  <2>1. PICK s \in SUBSET S : Cardinality(s) = n /\ ~Grows(s)
    BY <1>2
  <2>2. CASE s = {}
    BY <2>1, <2>2 DEF IsSum, SumOver
  <2>3. CASE s # {}
    <3> DEFINE u == s \ {Some(s)}
    <3>1. Some(s) \in s /\ Some(s) \in S /\ u \in SUBSET S
      BY <2>3, SomeIsElement
    <3>2. less[s] = f[Some(s)] + less[u] /\ more[s] = g[Some(s)] + more[u]
      BY <2>3 DEF IsSum, SumOver
    <3>3. Cardinality(u) = n - 1 /\ n \in Nat /\ Cardinality(u) \in Nat
      BY <1>1, <2>1, <3>1, FS_RemoveElement
    <3> HIDE DEF u, Grows
    <3>4. Grows(u)
      <4>1. n - 1 \notin Sizes
        BY <1>2, <3>3
      <4> QED BY <3>1, <3>3, <4>1
    <3>5. f[Some(s)] \in Nat /\ g[Some(s)] \in Nat /\ f[Some(s)] <= g[Some(s)]
      BY <3>1
    <3> QED BY <2>1, <3>2, <3>4, <3>5 DEF Grows
  <2> QED BY <2>2, <2>3
<1>3. Sizes = {}
  <2>1. Sizes \in SUBSET Nat
    OBVIOUS
  <2> HIDE DEF Sizes
  <2> QED BY <1>2, <2>1, LeastNumber
<1>4. Grows(S)
  <2>1. S \in SUBSET S /\ Cardinality(S) \in Nat
    BY <1>1
  <2> HIDE DEF Grows
  <2> QED BY <1>3, <2>1
<1> QED BY <1>4

\* A sum of numbers up to m is at most m for each of them.
LEMMA SumBounded ==
  ASSUME NEW S, IsFiniteSet(S), NEW m \in Nat, NEW f \in [S -> 0..m],
         NEW total, IsSum(total, f, S)
  PROVE  total[S] \in 0..(m * Cardinality(S))
<1> DEFINE Bounded(s) == total[s] \in Nat /\ total[s] <= m * Cardinality(s)
           Sizes == {n \in Nat : \E s \in SUBSET S : Cardinality(s) = n /\ ~Bounded(s)}
<1>1. \A s \in SUBSET S : IsFiniteSet(s) /\ Cardinality(s) \in Nat
  BY FS_Subset, FS_CardinalityType
<1>2. ASSUME NEW n \in Sizes, \A k \in Sizes : n <= k PROVE FALSE
  <2>1. PICK s \in SUBSET S : Cardinality(s) = n /\ ~Bounded(s)
    BY <1>2
  <2>2. CASE s = {}
    <3>1. Cardinality(s) = 0 /\ m * 0 = 0
      BY <2>2, FS_EmptySet
    <3> QED BY <2>1, <2>2, <3>1 DEF IsSum, SumOver
  <2>3. CASE s # {}
    <3> DEFINE u == s \ {Some(s)}
    <3>1. Some(s) \in s /\ Some(s) \in S /\ u \in SUBSET S
      BY <2>3, SomeIsElement
    <3>2. total[s] = f[Some(s)] + total[u]
      BY <2>3 DEF IsSum, SumOver
    <3>3. Cardinality(u) = n - 1 /\ n \in Nat /\ Cardinality(u) \in Nat
      BY <1>1, <2>1, <3>1, FS_RemoveElement
    <3> HIDE DEF u, Bounded
    <3>4. Bounded(u)
      <4>1. n - 1 \notin Sizes
        BY <1>2, <3>3
      <4> QED BY <3>1, <3>3, <4>1
    <3>5. f[Some(s)] \in 0..m
      BY <3>1
    <3>6. m * n = m * (n - 1) + m /\ m * n \in Nat /\ m * (n - 1) \in Nat
      BY <3>3
    <3>7. total[u] \in Nat /\ total[u] <= m * (n - 1)
      BY <3>3, <3>4 DEF Bounded
    <3>8. total[s] \in Nat /\ total[s] <= m * n
      BY <3>2, <3>5, <3>6, <3>7
    <3> QED BY <2>1, <3>8 DEF Bounded
  <2> QED BY <2>2, <2>3
<1>3. Sizes = {}
  <2>1. Sizes \in SUBSET Nat
    OBVIOUS
  <2> HIDE DEF Sizes
  <2> QED BY <1>2, <2>1, LeastNumber
<1>4. Bounded(S)
  <2>1. S \in SUBSET S /\ Cardinality(S) \in Nat
    BY <1>1
  <2> HIDE DEF Bounded
  <2> QED BY <1>3, <2>1
<1>5. m * Cardinality(S) \in Nat
  BY <1>1
<1> QED BY <1>4, <1>5

OfCategory(g) == {k \in Cause : categoryOf[k] = g}
Points(count) == [k \in Cause |-> count[k] * scoreOf[k]]
Raw(count, g) == K!MapThenSumSet(LAMBDA k : count[k] * scoreOf[k], OfCategory(g))
Contribution(count) == [g \in Category |-> K!Lesser(Raw(count, g), maxContribution[g])]
Once(causes) == [k \in Cause |-> IF k \in causes THEN 1 ELSE 0]

RiskInv ==
  /\ kRows \in [Cause -> {0, 1}] /\ kTold \subseteq Cause
  /\ \A k \in Cause : kRows[k] = 1 => k \in kTold
  /\ kSnapshot \in Nat /\ kSnapshot <= K!Score(Once(kTold))
  /\ kEmission \in [Call -> [at : {"recorded", "read"}, score : Nat] \cup {None}]
  /\ \A c \in Call : kEmission[c] # None => kEmission[c].score <= K!Score(Once(kTold))

LEMMA RiskConstants ==
  /\ IsFiniteSet(Cause) /\ IsFiniteSet(Category)
  /\ scoreOf \in [Cause -> Nat] /\ maxContribution \in [Category -> Nat]
<1>1. /\ K!IsFiniteSet(Cause) <=> IsFiniteSet(Cause)
      /\ K!IsFiniteSet(Category) <=> IsFiniteSet(Category)
  BY DEF IsFiniteSet, K!IsFiniteSet
<1>2. /\ K!IsFiniteSet(Cause) /\ K!IsFiniteSet(Category)
      /\ scoreOf \in [Cause -> 0..100] /\ maxContribution \in [Category -> 0..100]
  BY ServicesAssumption DEF K!CausesAreScored
<1> QED BY <1>1, <1>2

\* What the recalculation adds up, as sums over sets.
LEMMA RawIsSum ==
  ASSUME NEW count, NEW g
  PROVE  \E total : IsSum(total, Points(count), OfCategory(g)) /\ total[OfCategory(g)] = Raw(count, g)
<1> DEFINE S == OfCategory(g)
           Defines(total) == total = [s \in SUBSET S |->
             IF s = {} THEN 0
             ELSE (count[CHOOSE y \in s : TRUE] * scoreOf[CHOOSE y \in s : TRUE])
                  + total[s \ {CHOOSE y \in s : TRUE}]]
<1>1. Raw(count, g) = (CHOOSE total : Defines(total))[S]
  BY DEF Raw, K!MapThenSumSet, K!MapThenFoldSet
<1>2. ASSUME NEW total PROVE Defines(total) <=> IsSum(total, Points(count), S)
  <2>1. \A s \in SUBSET S : s # {} =>
          Points(count)[Some(s)] = count[Some(s)] * scoreOf[Some(s)]
    BY SomeIsElement DEF Points, OfCategory
  <2> QED BY <2>1 DEF IsSum, SumOver, Some
<1> HIDE DEF Defines
<1>3. IsFiniteSet(S)
  BY RiskConstants, FS_Subset DEF OfCategory
<1>4. \E total : Defines(total)
  <2>1. PICK total : IsSum(total, Points(count), S)
    BY <1>3, SumExists
  <2> QED BY <1>2, <2>1
<1>5. Defines(CHOOSE total : Defines(total))
  BY <1>4
<1> QED BY <1>1, <1>2, <1>5

LEMMA ScoreIsSum ==
  ASSUME NEW count
  PROVE  \E total : /\ IsSum(total, Contribution(count), Category)
                    /\ K!Score(count) = K!Lesser(100, total[Category])
<1> DEFINE Defines(total) == total = [s \in SUBSET Category |->
             IF s = {} THEN 0
             ELSE K!Lesser(Raw(count, CHOOSE y \in s : TRUE), maxContribution[CHOOSE y \in s : TRUE])
                  + total[s \ {CHOOSE y \in s : TRUE}]]
<1>1. K!Score(count) = K!Lesser(100, (CHOOSE total : Defines(total))[Category])
  BY DEF K!Score, Raw, OfCategory, K!MapThenSumSet, K!MapThenFoldSet
<1>2. ASSUME NEW total PROVE Defines(total) <=> IsSum(total, Contribution(count), Category)
  <2>1. \A s \in SUBSET Category : s # {} =>
          Contribution(count)[Some(s)] = K!Lesser(Raw(count, Some(s)), maxContribution[Some(s)])
    BY SomeIsElement DEF Contribution
  <2> QED BY <2>1 DEF IsSum, SumOver, Some
<1> HIDE DEF Defines
<1>3. \E total : Defines(total)
  <2>1. PICK total : IsSum(total, Contribution(count), Category)
    BY RiskConstants, SumExists
  <2> QED BY <1>2, <2>1
<1>4. Defines(CHOOSE total : Defines(total))
  BY <1>3
<1> QED BY <1>1, <1>2, <1>4

LEMMA ScoreGrows ==
  ASSUME NEW less \in [Cause -> {0, 1}], NEW more \in [Cause -> {0, 1}],
         \A k \in Cause : less[k] <= more[k]
  PROVE  K!Score(less) \in Nat /\ K!Score(more) \in Nat /\ K!Score(less) <= K!Score(more)
<1>1. ASSUME NEW count \in [Cause -> {0, 1}]
      PROVE  /\ Points(count) \in [Cause -> Nat]
             /\ \A k \in Cause : Points(count)[k] = IF count[k] = 1 THEN scoreOf[k] ELSE 0
  <2>1. ASSUME NEW k \in Cause
        PROVE  count[k] * scoreOf[k] = IF count[k] = 1 THEN scoreOf[k] ELSE 0
    <3>1. scoreOf[k] \in Nat /\ count[k] \in {0, 1}
      BY RiskConstants
    <3>2. 0 * scoreOf[k] = 0 /\ 1 * scoreOf[k] = scoreOf[k]
      BY <3>1
    <3> QED BY <3>1, <3>2
  <2> QED BY <2>1, RiskConstants DEF Points
<1>2. \A k \in Cause : Points(less)[k] <= Points(more)[k]
  BY <1>1, RiskConstants
<1>3. ASSUME NEW g \in Category
      PROVE  /\ Raw(less, g) \in Nat /\ Raw(more, g) \in Nat /\ Raw(less, g) <= Raw(more, g)
  <2> DEFINE S == OfCategory(g)
             Within(count) == [k \in S |-> Points(count)[k]]
  <2>1. IsFiniteSet(S) /\ S \subseteq Cause
    BY RiskConstants, FS_Subset DEF OfCategory
  <2>2. ASSUME NEW count, NEW total, IsSum(total, Points(count), S)
        PROVE  IsSum(total, Within(count), S)
    <3>1. \A s \in SUBSET S : s # {} => Within(count)[Some(s)] = Points(count)[Some(s)]
      BY SomeIsElement
    <3> HIDE DEF Within
    <3> QED BY <2>2, <3>1 DEF IsSum, SumOver
  <2>3. PICK l : IsSum(l, Points(less), S) /\ l[S] = Raw(less, g)
    BY RawIsSum
  <2>4. PICK m : IsSum(m, Points(more), S) /\ m[S] = Raw(more, g)
    BY RawIsSum
  <2>5. /\ Within(less) \in [S -> Nat] /\ Within(more) \in [S -> Nat]
        /\ \A k \in S : Within(less)[k] <= Within(more)[k]
    BY <1>1, <1>2, <2>1
  <2> HIDE DEF Within, S
  <2>6. l[S] \in Nat /\ m[S] \in Nat /\ l[S] <= m[S]
    BY <2>1, <2>2, <2>3, <2>4, <2>5, SumGrows
  <2> QED BY <2>3, <2>4, <2>6
<1>4. /\ Contribution(less) \in [Category -> Nat] /\ Contribution(more) \in [Category -> Nat]
      /\ \A g \in Category : Contribution(less)[g] <= Contribution(more)[g]
  BY <1>3, RiskConstants DEF Contribution, K!Lesser
<1>5. PICK l : IsSum(l, Contribution(less), Category) /\ K!Score(less) = K!Lesser(100, l[Category])
  BY ScoreIsSum
<1>6. PICK m : IsSum(m, Contribution(more), Category) /\ K!Score(more) = K!Lesser(100, m[Category])
  BY ScoreIsSum
<1>7. l[Category] \in Nat /\ m[Category] \in Nat /\ l[Category] <= m[Category]
  BY <1>4, <1>5, <1>6, RiskConstants, SumGrows
<1> QED BY <1>5, <1>6, <1>7 DEF K!Lesser

LEMMA RiskInit == K!Init => RiskInv
<1> SUFFICES ASSUME K!Init PROVE RiskInv
  OBVIOUS
<1>1. Once(kTold) \in [Cause -> {0, 1}]
  BY DEF Once
<1>2. K!Score(Once(kTold)) \in Nat
  BY <1>1, ScoreGrows
<1> QED BY <1>2 DEF K!Init, RiskInv

\* The causes told of become more, and so does what they cost.
LEMMA TellingCostsMore ==
  ASSUME NEW causes, NEW others, causes \subseteq others
  PROVE  /\ K!Score(Once(causes)) \in Nat /\ K!Score(Once(others)) \in Nat
         /\ K!Score(Once(causes)) <= K!Score(Once(others))
<1>1. /\ Once(causes) \in [Cause -> {0, 1}] /\ Once(others) \in [Cause -> {0, 1}]
      /\ \A k \in Cause : Once(causes)[k] <= Once(others)[k]
  BY DEF Once
<1> QED BY <1>1, ScoreGrows

LEMMA RiskStep == RiskInv /\ [K!Next]_(K!riskVars) => RiskInv'
<1> SUFFICES ASSUME RiskInv, [K!Next]_(K!riskVars) PROVE RiskInv'
  OBVIOUS
<1> DEFINE cost == K!Score(Once(kTold))
<1>1. cost \in Nat
  BY TellingCostsMore
<1>2. CASE UNCHANGED K!riskVars
  BY <1>2 DEF RiskInv, K!riskVars
<1>3. ASSUME NEW c \in Call, NEW k \in Cause, K!RecordRiskEvent(c, k) PROVE RiskInv'
  <2>1. /\ kRows' = [kRows EXCEPT ![k] = 1] /\ kTold' = kTold \cup {k}
        /\ kEmission' = [kEmission EXCEPT ![c] = [at |-> "recorded", score |-> 0]]
        /\ kSnapshot' = kSnapshot
    BY <1>3 DEF K!RecordRiskEvent, K!Recorded
  <2> DEFINE next == K!Score(Once(kTold'))
  <2>2. next \in Nat /\ cost <= next
    BY <2>1, TellingCostsMore
  <2>3. next = K!Score(Once(kTold))'
    OBVIOUS
  <2> HIDE DEF next, cost
  <2>4. /\ kRows' \in [Cause -> {0, 1}] /\ kTold' \subseteq Cause
        /\ \A j \in Cause : kRows'[j] = 1 => j \in kTold'
    BY <2>1 DEF RiskInv
  <2>5. /\ kEmission' \in [Call -> [at : {"recorded", "read"}, score : Nat] \cup {None}]
        /\ kSnapshot' \in Nat
    BY <2>1 DEF RiskInv
  <2>6. kSnapshot' <= next
    BY <1>1, <2>1, <2>2 DEF RiskInv, cost
  <2>7. ASSUME NEW o \in Call, kEmission'[o] # None PROVE kEmission'[o].score <= next
    <3>1. CASE o = c
      BY <2>1, <2>2, <3>1 DEF RiskInv
    <3>2. CASE o # c
      <4>1. kEmission'[o] = kEmission[o] /\ kEmission[o] # None
        BY <2>1, <2>7, <3>2 DEF RiskInv
      <4>2. kEmission[o].score \in Nat /\ kEmission[o].score <= cost
        BY <4>1 DEF RiskInv, cost
      <4> QED BY <1>1, <2>2, <4>1, <4>2
    <3> QED BY <3>1, <3>2
  <2> QED BY <2>3, <2>4, <2>5, <2>6, <2>7 DEF RiskInv
<1>4. ASSUME NEW c \in Call, K!ReadEvents(c) PROVE RiskInv'
  <2> DEFINE score == K!Score(K!Relevant)
  <2>1. /\ kEmission' = [kEmission EXCEPT ![c] = [at |-> "read", score |-> score]]
        /\ UNCHANGED <<kRows, kTold, kSnapshot>>
    BY <1>4 DEF K!ReadEvents
  <2>2. score \in Nat /\ score <= cost
    <3>1. /\ K!Relevant \in [Cause -> {0, 1}] /\ Once(kTold) \in [Cause -> {0, 1}]
          /\ \A k \in Cause : K!Relevant[k] <= Once(kTold)[k]
      BY DEF K!Relevant, Once, RiskInv
    <3> QED BY <3>1, ScoreGrows
  <2> HIDE DEF score
  <2> QED BY <2>1, <2>2 DEF RiskInv
<1>5. ASSUME NEW c \in Call, K!UpsertSnapshot(c) PROVE RiskInv'
  BY <1>5 DEF K!UpsertSnapshot, RiskInv
<1>6. ASSUME NEW c \in Call, K!IntegrationFailed(c) PROVE RiskInv'
  BY <1>6 DEF K!IntegrationFailed, RiskInv
<1>7. ASSUME NEW k \in Cause, K!WindowPasses(k) PROVE RiskInv'
  BY <1>7 DEF K!WindowPasses, RiskInv
<1>8. CASE K!CleanupOldRiskEvents
  <2>1. PICK gone \in SUBSET kOld : kRows' = [k \in Cause |-> IF k \in gone THEN 0 ELSE kRows[k]]
    BY <1>8 DEF K!CleanupOldRiskEvents
  <2>2. UNCHANGED <<kTold, kSnapshot, kEmission>>
    BY <1>8 DEF K!CleanupOldRiskEvents
  <2> QED BY <2>1, <2>2 DEF RiskInv
<1> QED BY <1>2, <1>3, <1>4, <1>5, <1>6, <1>7, <1>8 DEF K!Next

\* A cause costs its points once, however often it is told of and whoever writes last.
THEOREM EachCauseCountsOnceAlways == K!Spec => []EachCauseCountsOnce
<1>1. RiskInv => EachCauseCountsOnce
  BY DEF RiskInv, Once, EachCauseCountsOnce, K!EachCauseCountsOnce
<1> QED BY <1>1, RiskInit, RiskStep, PTL DEF K!Spec

\* A score never leaves 0..100.
LEMMA RiskTypes == K!Spec => []K!TypeOK
<1>1. K!Init => K!TypeOK
  BY DEF K!Init, K!TypeOK
<1>2. RiskInv /\ K!TypeOK /\ [K!Next]_(K!riskVars) => K!TypeOK'
  <2> SUFFICES ASSUME RiskInv, K!TypeOK, [K!Next]_(K!riskVars) PROVE K!TypeOK'
    OBVIOUS
  <2> USE DEF K!TypeOK
  <2>1. CASE UNCHANGED K!riskVars
    BY <2>1 DEF K!riskVars
  <2>2. ASSUME NEW c \in Call, NEW k \in Cause, K!RecordRiskEvent(c, k) PROVE K!TypeOK'
    BY <2>2 DEF K!RecordRiskEvent, K!Recorded, K!Emission
  <2>3. ASSUME NEW c \in Call, K!ReadEvents(c) PROVE K!TypeOK'
    <3> DEFINE score == K!Score(K!Relevant)
    <3>1. score \in 0..100
      <4>1. K!Relevant \in [Cause -> {0, 1}]
        BY DEF K!Relevant, RiskInv
      <4>2. score \in Nat
        BY <4>1, ScoreGrows
      <4>3. PICK total : score = K!Lesser(100, total[Category])
        BY ScoreIsSum
      <4> QED BY <4>2, <4>3 DEF K!Lesser
    <3>2. /\ kEmission' = [kEmission EXCEPT ![c] = [at |-> "read", score |-> score]]
          /\ UNCHANGED <<kRows, kTold, kOld, kSnapshot>>
      BY <2>3 DEF K!ReadEvents
    <3> HIDE DEF score
    <3> QED BY <3>1, <3>2 DEF K!Emission
  <2>4. ASSUME NEW c \in Call, K!UpsertSnapshot(c) \/ K!IntegrationFailed(c) PROVE K!TypeOK'
    BY <2>4 DEF K!UpsertSnapshot, K!IntegrationFailed, K!Emission
  <2>5. ASSUME NEW k \in Cause, K!WindowPasses(k) PROVE K!TypeOK'
    BY <2>5 DEF K!WindowPasses
  <2>6. CASE K!CleanupOldRiskEvents
    BY <2>6 DEF K!CleanupOldRiskEvents
  <2> QED BY <2>1, <2>2, <2>3, <2>4, <2>5, <2>6 DEF K!Next
<1> QED BY <1>1, <1>2, RiskInit, RiskStep, PTL DEF K!Spec

-----------------------------------------------------------------------------
(***************************************************************************)
(* Cart. Unless mutations of two lines have crossed, one at most has       *)
(* written a line it has not committed, and nothing commits between its    *)
(* sum and its own commit; nor between the two readings of a checkout.     *)
(***************************************************************************)
CartSums == {0} \cup {C!Units(lines) : lines \in C!Lines}
CartMutation ==
  [kind : {"add", "update", "remove"}, line : Line, quantity : 0..MaxQuantity,
   cityless : BOOLEAN, opens : BOOLEAN, found : BOOLEAN,
   at : {"begin", "read", "written", "summed"}, sum : CartSums]
CartReading == [at : {"idle", "provider", "items"}, subtotal : CartSums, items : C!Lines]

LinesAndCalls ==
  /\ cLine \in C!Lines /\ cTotal \in CartSums /\ cCheckout \in CartReading
  /\ cCall \in [Call -> CartMutation \cup {None}]

Uncommitted == {"written", "summed"}

SumsAreOfLines ==
  /\ \A c, o \in Call : C!At(c, Uncommitted) /\ C!At(o, Uncommitted) => c = o
  /\ \A c \in Call : C!At(c, {"summed"}) => cCall[c].sum = C!Units(C!Seen(c))
  /\ cGroup => cTotal = C!Units(cLine)
  /\ cCheckout.at = "provider" => cCheckout.subtotal = C!Units(cLine)
  /\ cCheckout.at = "items" => cCheckout.subtotal = C!Units(cCheckout.items)
  /\ cOrder # None => cOrder.subtotal = C!Units(cOrder.items)

TotalInv == LinesAndCalls /\ (~cCrossed => SumsAreOfLines)

LEMMA TotalInit == C!Init => TotalInv
<1> SUFFICES ASSUME C!Init PROVE TotalInv
  OBVIOUS
<1>1. MaxQuantity \in Nat
  BY ServicesAssumption DEF C!LinesAreSold
<1>2. [l \in Line |-> 0] \in C!Lines
  BY <1>1 DEF C!Lines
<1>3. LinesAndCalls
  BY <1>2 DEF C!Init, LinesAndCalls, CartReading, CartSums, C!NoReading
<1>4. \A c \in Call : cCall[c] = None
  BY DEF C!Init
<1>5. \A c \in Call : \A places : ~C!At(c, places)
  BY <1>4 DEF C!At
<1> QED BY <1>3, <1>5 DEF TotalInv, SumsAreOfLines, C!Init, C!NoReading

\* One mutation changes, and the others are where they were.
LEMMA MutationChanges ==
  ASSUME LinesAndCalls, NEW c \in Call, NEW next \in CartMutation \cup {None}, C!Step(c, next)
  PROVE  /\ cCall' \in [Call -> CartMutation \cup {None}] /\ cCall'[c] = next
         /\ \A o \in Call \ {c} : cCall'[o] = cCall[o]
         /\ \A o \in Call \ {c} : \A places : C!At(o, places)' <=> C!At(o, places)
         /\ \A places : C!At(c, places)' => next # None /\ next.at \in places
BY DEF LinesAndCalls, C!Step, C!At

\* A mutation begins, reads or is given up: no line and no total changes.
LEMMA ReadingKeepsTotal ==
  ASSUME TotalInv, NEW c \in Call, NEW next \in CartMutation \cup {None}, C!Step(c, next),
         next # None => next.at \notin Uncommitted,
         UNCHANGED <<cLine, cGroup, cTotal, cCheckout, cOrder, cCrossed>>
  PROVE  TotalInv'
<1>1. LinesAndCalls /\ LinesAndCalls'
  BY MutationChanges DEF TotalInv, LinesAndCalls
<1>2. ~C!At(c, Uncommitted)' /\ ~C!At(c, {"summed"})'
  BY <1>1, MutationChanges DEF Uncommitted
<1>3. \A o \in Call \ {c} : C!Seen(o)' = C!Seen(o) /\ cCall'[o] = cCall[o]
  BY <1>1, MutationChanges DEF C!Seen
<1>4. \A o \in Call \ {c} : /\ C!At(o, Uncommitted)' <=> C!At(o, Uncommitted)
                            /\ C!At(o, {"summed"})' <=> C!At(o, {"summed"})
  BY <1>1, MutationChanges
<1>5. ASSUME ~cCrossed' PROVE SumsAreOfLines'
  BY <1>2, <1>3, <1>4, <1>5 DEF TotalInv, SumsAreOfLines
<1> QED BY <1>1, <1>5 DEF TotalInv

LEMMA WritingKeepsTotal ==
  ASSUME TotalInv, NEW c \in Call, C!WriteLine(c) \/ C!RecalculateCartProvider(c)
  PROVE  TotalInv'
<1>1. /\ LinesAndCalls /\ cCall[c] \in CartMutation
      /\ UNCHANGED <<cLine, cGroup, cTotal, cCheckout, cOrder>>
  BY DEF TotalInv, LinesAndCalls, C!WriteLine, C!RecalculateCartProvider, C!At
<1>2. CASE C!WriteLine(c)
  <2> DEFINE next == [cCall[c] EXCEPT !.at = "written"]
  <2>1. next \in CartMutation /\ next.at = "written"
    BY <1>1 DEF CartMutation
  <2>2. /\ C!Step(c, next)
        /\ cCrossed' = (cCrossed \/ \E o \in Call \ {c} : C!At(o, {"written", "summed"}))
    BY <1>2 DEF C!WriteLine
  <2> HIDE DEF next
  <2>3. LinesAndCalls'
    BY <1>1, <2>1, <2>2, MutationChanges DEF LinesAndCalls
  <2>4. ASSUME ~cCrossed' PROVE SumsAreOfLines'
    <3>1. SumsAreOfLines /\ \A o \in Call \ {c} : ~C!At(o, Uncommitted)
      BY <2>2, <2>4 DEF TotalInv, Uncommitted
    <3>2. \A o \in Call \ {c} : ~C!At(o, Uncommitted)'
      BY <1>1, <2>1, <2>2, <3>1, MutationChanges
    <3>3. \A o \in Call : ~C!At(o, {"summed"})'
      <4>1. ~C!At(c, {"summed"})'
        BY <1>1, <2>1, <2>2, MutationChanges
      <4> QED BY <3>2, <4>1 DEF C!At, Uncommitted
    <3> QED BY <1>1, <3>1, <3>2, <3>3 DEF SumsAreOfLines
  <2> QED BY <2>3, <2>4 DEF TotalInv
<1>3. CASE C!RecalculateCartProvider(c)
  <2> DEFINE sum == C!Units(C!Seen(c))
             next == [cCall[c] EXCEPT !.at = "summed", !.sum = sum]
  <2>1. C!Seen(c) \in C!Lines
    BY <1>1 DEF C!Seen, C!Lines, LinesAndCalls, CartMutation
  <2>2. sum \in CartSums
    BY <2>1 DEF CartSums
  <2> HIDE DEF sum
  <2>3. /\ next \in CartMutation /\ next.at = "summed" /\ next.sum = sum
        /\ next.line = cCall[c].line /\ next.quantity = cCall[c].quantity
    BY <1>1, <2>2 DEF CartMutation
  <2>4. C!Step(c, next) /\ C!At(c, {"written"}) /\ cCrossed' = cCrossed
    BY <1>3 DEF C!RecalculateCartProvider, sum
  <2> HIDE DEF next
  <2>5. LinesAndCalls'
    BY <1>1, <2>3, <2>4, MutationChanges DEF LinesAndCalls
  <2>6. ASSUME ~cCrossed' PROVE SumsAreOfLines'
    <3>1. SumsAreOfLines /\ C!At(c, Uncommitted)
      BY <2>4, <2>6 DEF TotalInv, Uncommitted, C!At
    <3>2. \A o \in Call \ {c} : ~C!At(o, Uncommitted)
      BY <3>1 DEF SumsAreOfLines
    <3>3. \A o \in Call \ {c} : ~C!At(o, Uncommitted)'
      BY <1>1, <2>3, <2>4, <3>2, MutationChanges
    <3>4. cCall'[c].sum = sum /\ C!Seen(c)' = C!Seen(c)
      BY <1>1, <2>3, <2>4, MutationChanges DEF C!Seen
    <3>5. cCall'[c].sum = C!Units(C!Seen(c))'
      BY <3>4 DEF sum
    <3>6. \A o \in Call : C!At(o, {"summed"})' => o = c
      BY <3>3 DEF C!At, Uncommitted
    <3> QED BY <1>1, <3>1, <3>3, <3>5, <3>6 DEF SumsAreOfLines
  <2> QED BY <2>5, <2>6 DEF TotalInv
<1> QED BY <1>2, <1>3

LEMMA CommittingKeepsTotal ==
  ASSUME TotalInv, NEW c \in Call, C!StoreAndCommit(c) PROVE TotalInv'
<1> DEFINE t == cCall[c]
           empties == t.kind = "remove" /\ t.sum = 0
<1>1. /\ LinesAndCalls /\ t \in CartMutation /\ C!At(c, {"summed"})
      /\ cLine' = C!Seen(c) /\ cTotal' = t.sum /\ UNCHANGED <<cCheckout, cOrder>>
      /\ cCrossed' = (cCrossed \/ cCheckout.at = "provider")
      /\ cCall' = [o \in Call |->
           IF o = c \/ (t.kind = "remove" /\ C!Loses(o, t.line, empties)) THEN None ELSE cCall[o]]
  BY DEF TotalInv, LinesAndCalls, C!StoreAndCommit, C!At, C!Seen
<1> HIDE DEF empties
<1>2. C!Seen(c) \in C!Lines /\ t.sum \in CartSums
  BY <1>1 DEF C!Seen, C!Lines, LinesAndCalls, CartMutation
<1>3. \A o \in Call : cCall'[o] = None \/ (o # c /\ cCall'[o] = cCall[o])
  BY <1>1
<1> HIDE DEF t
<1>4. LinesAndCalls'
  BY <1>1, <1>2, <1>3 DEF LinesAndCalls
<1>5. ASSUME ~cCrossed' PROVE SumsAreOfLines'
  <2>1. SumsAreOfLines /\ C!At(c, Uncommitted) /\ cCheckout.at # "provider"
    BY <1>1, <1>5 DEF TotalInv, C!At, Uncommitted
  <2>2. \A o \in Call \ {c} : ~C!At(o, Uncommitted)
    BY <2>1 DEF SumsAreOfLines
  <2>3. \A o \in Call : ~C!At(o, Uncommitted)' /\ ~C!At(o, {"summed"})'
    BY <1>3, <2>2 DEF C!At, Uncommitted
  <2>4. cTotal' = C!Units(C!Seen(c))
    BY <1>1, <2>1 DEF SumsAreOfLines, t
  <2>5. cTotal' = C!Units(cLine')
    BY <1>1, <2>4
  <2> QED BY <1>1, <2>1, <2>3, <2>5 DEF SumsAreOfLines
<1> QED BY <1>4, <1>5 DEF TotalInv

LEMMA CheckoutKeepsTotal ==
  ASSUME TotalInv, C!ReadCart \/ C!ReadItems \/ C!CreateOrder PROVE TotalInv'
<1>1. LinesAndCalls /\ UNCHANGED <<cLine, cGroup, cTotal, cCall, cCrossed>>
  BY DEF TotalInv, C!ReadCart, C!ReadItems, C!CreateOrder
<1>2. \A c \in Call : /\ C!Seen(c)' = C!Seen(c)
                      /\ C!At(c, Uncommitted)' <=> C!At(c, Uncommitted)
                      /\ C!At(c, {"summed"})' <=> C!At(c, {"summed"})
  BY <1>1 DEF C!Seen, C!At
<1>3. C!NoReading \in CartReading /\ C!NoReading.at = "idle"
  <2>1. MaxQuantity \in Nat
    BY ServicesAssumption DEF C!LinesAreSold
  <2>2. [l \in Line |-> 0] \in C!Lines
    BY <2>1 DEF C!Lines
  <2> QED BY <2>2 DEF C!NoReading, CartReading, CartSums
<1>4. CASE C!ReadCart
  <2>1. /\ cGroup /\ cOrder' = cOrder
        /\ cCheckout' = [cCheckout EXCEPT !.at = "provider", !.subtotal = cTotal]
    BY <1>4 DEF C!ReadCart
  <2>2. cCheckout' \in CartReading /\ cCheckout'.at = "provider" /\ cCheckout'.subtotal = cTotal
    BY <1>1, <2>1 DEF LinesAndCalls, CartReading
  <2> QED BY <1>1, <1>2, <2>1, <2>2 DEF TotalInv, LinesAndCalls, SumsAreOfLines
<1>5. CASE C!ReadItems
  <2>1. /\ cCheckout.at = "provider" /\ cOrder' = cOrder
        /\ cCheckout' \in {C!NoReading, [cCheckout EXCEPT !.at = "items", !.items = cLine]}
    BY <1>5 DEF C!ReadItems
  <2>2. /\ cCheckout' \in CartReading /\ cCheckout'.at # "provider"
        /\ cCheckout'.at = "items" =>
             cCheckout'.items = cLine /\ cCheckout'.subtotal = cCheckout.subtotal
    BY <1>1, <1>3, <2>1 DEF LinesAndCalls, CartReading
  <2> QED BY <1>1, <1>2, <2>1, <2>2 DEF TotalInv, LinesAndCalls, SumsAreOfLines
<1>6. CASE C!CreateOrder
  <2>1. /\ cCheckout.at = "items" /\ cCheckout' = C!NoReading
        /\ cOrder'.subtotal = cCheckout.subtotal /\ cOrder'.items = cCheckout.items
    BY <1>6 DEF C!CreateOrder
  <2> QED BY <1>1, <1>2, <1>3, <2>1 DEF TotalInv, LinesAndCalls, SumsAreOfLines
<1> QED BY <1>4, <1>5, <1>6

LEMMA TotalStep == TotalInv /\ [C!Next]_(C!cartVars) => TotalInv'
<1> SUFFICES ASSUME TotalInv, [C!Next]_(C!cartVars) PROVE TotalInv'
  OBVIOUS
<1>1. LinesAndCalls
  BY DEF TotalInv
<1>2. CASE UNCHANGED C!cartVars
  <2>1. \A c \in Call : /\ C!Seen(c)' = C!Seen(c)
                        /\ C!At(c, Uncommitted)' <=> C!At(c, Uncommitted)
                        /\ C!At(c, {"summed"})' <=> C!At(c, {"summed"})
    BY <1>2 DEF C!cartVars, C!Seen, C!At
  <2> QED BY <1>2, <2>1 DEF C!cartVars, TotalInv, LinesAndCalls, SumsAreOfLines
<1>3. ASSUME NEW c \in Call, NEW kind \in {"add", "update", "remove"}, NEW l \in Line,
             NEW q \in C!Quantity, C!Begin(c, kind, l, q)
      PROVE  TotalInv'
  <2> DEFINE next == [kind |-> kind, line |-> l, quantity |-> IF kind = "remove" THEN 0 ELSE q,
                      cityless |-> kind = "add" /\ cCity = None, opens |-> FALSE,
                      found |-> kind # "add", at |-> "begin", sum |-> 0]
  <2>1. q \in 0..MaxQuantity /\ 0 \in 0..MaxQuantity
    BY ServicesAssumption DEF C!LinesAreSold, C!Quantity
  <2>2. next \in CartMutation /\ next.at = "begin"
    BY <2>1 DEF CartMutation, CartSums
  <2>3. C!Step(c, next) /\ UNCHANGED <<cLine, cGroup, cTotal, cCheckout, cOrder, cCrossed>>
    BY <1>3 DEF C!Begin
  <2> HIDE DEF next
  <2> QED BY <2>2, <2>3, ReadingKeepsTotal DEF Uncommitted
<1>4. ASSUME NEW c \in Call, C!OpenGroup(c) PROVE TotalInv'
  <2> DEFINE t == cCall[c]
             opens == ~cGroup
             found == cLine[t.line] > 0
             quantity == cLine[t.line] + t.quantity
             next == [t EXCEPT !.at = "read", !.opens = opens, !.found = found,
                               !.quantity = quantity]
  <2>1. t \in CartMutation /\ cLine[t.line] + t.quantity <= MaxQuantity
    BY <1>1, <1>4 DEF C!OpenGroup, C!At, LinesAndCalls
  <2>2. quantity \in 0..MaxQuantity
    <3>1. cLine[t.line] \in 0..MaxQuantity /\ t.quantity \in 0..MaxQuantity
      BY <1>1, <2>1 DEF LinesAndCalls, C!Lines, CartMutation
    <3>2. MaxQuantity \in Nat
      BY ServicesAssumption DEF C!LinesAreSold
    <3> QED BY <2>1, <3>1, <3>2
  <2>3. opens \in BOOLEAN /\ found \in BOOLEAN
    OBVIOUS
  <2>4. C!Step(c, next) /\ UNCHANGED <<cLine, cGroup, cTotal, cCheckout, cOrder, cCrossed>>
    BY <1>4 DEF C!OpenGroup
  <2> HIDE DEF opens, found, quantity
  <2>5. next \in CartMutation /\ next.at = "read"
    BY <2>1, <2>2, <2>3 DEF CartMutation
  <2> HIDE DEF next
  <2> QED BY <2>4, <2>5, ReadingKeepsTotal DEF Uncommitted
<1>5. ASSUME NEW c \in Call, C!Abort(c) PROVE TotalInv'
  <2>1. C!Step(c, None) /\ UNCHANGED <<cLine, cGroup, cTotal, cCheckout, cOrder, cCrossed>>
    BY <1>5 DEF C!Abort
  <2> QED BY <2>1, ReadingKeepsTotal
<1> QED
  BY <1>2, <1>3, <1>4, <1>5, WritingKeepsTotal, CommittingKeepsTotal, CheckoutKeepsTotal DEF C!Next

\* A client is charged the sum of what is ordered, unless mutations have crossed.
THEOREM TotalIsOfLinesAlways == C!Spec => []TotalIsOfLines
<1>1. TotalInv => TotalIsOfLines
  BY DEF TotalInv, SumsAreOfLines, TotalIsOfLines, C!TotalIsOfLines
<1> QED BY <1>1, TotalInit, TotalStep, PTL DEF C!Spec

\* What the lines of a cart add up to is within the bound of each and their number.
LEMMA UnitsAreBounded == CartSums \subseteq C!Sums
<1>1. IsFiniteSet(Line) /\ MaxQuantity \in Nat
  <2>1. IsFiniteSet(Line) <=> C!IsFiniteSet(Line)
    BY DEF IsFiniteSet, C!IsFiniteSet
  <2> QED BY <2>1, ServicesAssumption DEF C!LinesAreSold
<1>2. C!Cardinality(Line) = Cardinality(Line)
  BY DEF Cardinality, C!Cardinality
<1>3. ASSUME NEW lines \in C!Lines PROVE C!Units(lines) \in C!Sums
  <2> DEFINE Defines(total) == total = [s \in SUBSET Line |->
               IF s = {} THEN 0
               ELSE lines[CHOOSE y \in s : TRUE] + total[s \ {CHOOSE y \in s : TRUE}]]
  <2>1. C!Units(lines) = (CHOOSE total : Defines(total))[Line]
    BY DEF C!Units, C!MapThenSumSet, C!MapThenFoldSet
  <2>2. ASSUME NEW total PROVE Defines(total) <=> IsSum(total, lines, Line)
    BY DEF IsSum, SumOver, Some
  <2> HIDE DEF Defines
  <2>3. \E total : Defines(total)
    <3>1. PICK total : IsSum(total, lines, Line)
      BY <1>1, SumExists
    <3> QED BY <2>2, <3>1
  <2>4. Defines(CHOOSE total : Defines(total))
    BY <2>3
  <2>5. IsSum(CHOOSE total : Defines(total), lines, Line)
    BY <2>2, <2>4
  <2>6. lines \in [Line -> 0..MaxQuantity]
    BY DEF C!Lines
  <2>7. (CHOOSE total : Defines(total))[Line] \in 0..(MaxQuantity * Cardinality(Line))
    BY <1>1, <2>5, <2>6, SumBounded
  <2> QED BY <1>2, <2>1, <2>7 DEF C!Sums
<1>4. 0 \in C!Sums
  <2>1. MaxQuantity * Cardinality(Line) \in Nat
    BY <1>1, FS_CardinalityType
  <2> QED BY <1>2, <2>1 DEF C!Sums
<1> QED BY <1>3, <1>4 DEF CartSums

\* Totals stay sums of quantities within their bounds.
LEMMA CartTypesAlways == C!Spec => []C!TypeOK
<1> DEFINE Rest ==
      /\ cActive \in BOOLEAN /\ cCity \in City \cup {None} /\ cGroup \in BOOLEAN
      /\ cOrder = None \/ cOrder \in C!Ordered
      /\ cCrossed \in BOOLEAN
<1>1. CartMutation \subseteq C!Mutation /\ CartReading \subseteq C!Reading
  BY UnitsAreBounded DEF CartMutation, C!Mutation, CartReading, C!Reading
<1>2. LinesAndCalls /\ Rest => C!TypeOK
  BY <1>1, UnitsAreBounded DEF LinesAndCalls, C!TypeOK
<1>3. C!Init => Rest
  BY DEF C!Init
<1>4. LinesAndCalls /\ Rest /\ [C!Next]_(C!cartVars) => Rest'
  <2> SUFFICES ASSUME LinesAndCalls, Rest, [C!Next]_(C!cartVars) PROVE Rest'
    OBVIOUS
  <2>1. CASE UNCHANGED C!cartVars
    BY <2>1 DEF C!cartVars
  <2>2. ASSUME NEW c \in Call, NEW kind, NEW l, NEW q, C!Begin(c, kind, l, q) PROVE Rest'
    BY <2>2 DEF C!Begin
  <2>3. ASSUME NEW c \in Call,
               C!OpenGroup(c) \/ C!WriteLine(c) \/ C!RecalculateCartProvider(c) \/ C!Abort(c)
        PROVE  Rest'
    BY <2>3 DEF C!OpenGroup, C!WriteLine, C!RecalculateCartProvider, C!Abort
  <2>4. ASSUME NEW c \in Call, C!StoreAndCommit(c) PROVE Rest'
    <3>1. cCall[c].line \in Line
      BY <2>4 DEF C!StoreAndCommit, C!At, LinesAndCalls, CartMutation
    <3>2. cityOf[cCall[c].line] \in City
      BY <3>1, ServicesAssumption DEF C!LinesAreSold
    <3> QED BY <2>4, <3>2 DEF C!StoreAndCommit
  <2>5. CASE C!ReadCart \/ C!ReadItems
    BY <2>5 DEF C!ReadCart, C!ReadItems
  <2>6. CASE C!CreateOrder
    <3>1. cCheckout.subtotal \in C!Sums /\ cCheckout.items \in C!Lines
      BY UnitsAreBounded DEF LinesAndCalls, CartReading
    <3> QED BY <2>6, <3>1 DEF C!CreateOrder, C!Ordered
  <2> QED BY <2>1, <2>2, <2>3, <2>4, <2>5, <2>6 DEF C!Next
<1> HIDE DEF Rest
<1>5. TotalInv => LinesAndCalls
  BY DEF TotalInv
<1> QED BY <1>2, <1>3, <1>4, <1>5, TotalInit, TotalStep, PTL DEF C!Spec

-----------------------------------------------------------------------------
(***************************************************************************)
(* GuestCart. A run has left exactly what it has yet to post, what it is   *)
(* posting is among it, and until it stores that the guest cart holds what *)
(* it did when the run began; the units of the two carts add up to those   *)
(* that were asked for at each of its steps, or to more after a run whose  *)
(* answer was lost or that was left with the page.                         *)
(***************************************************************************)
CartTypes ==
  /\ gItems \in [Line -> 0..MaxUnits]
  /\ gServer \in [Line -> Nat] /\ gWanted \in [Line -> Nat]
  /\ gSync \in G!Run \cup {None}

RunInv ==
  gSync # None =>
    /\ gSync.todo = gSync.remaining
    /\ gSync.phase \in {"asked", "added", "refused"} => gSync.product \in gSync.todo

ItemsInv == ~gEdited /\ G!Delivering => gItems = gSync.items

GuestInv == CartTypes /\ RunInv /\ ItemsInv /\ MigrationKeepsUnits

LEMMA GuestConstants == MaxUnits \in Nat /\ None \notin G!Run
BY ServicesAssumption DEF G!UnitsAreNumbers

LEMMA GuestInit == G!Init => GuestInv
<1> SUFFICES ASSUME G!Init PROVE GuestInv
  OBVIOUS
<1>1. CartTypes /\ RunInv /\ ItemsInv
  BY GuestConstants DEF G!Init, G!Empty, CartTypes, RunInv, ItemsInv, G!Delivering
<1>2. \A p \in Line : gServer[p] = 0 /\ gWanted[p] = 0 /\ gItems[p] = 0 /\ gSync = None
  BY DEF G!Init, G!Empty
<1>3. \A p \in Line : G!Undelivered(p) = 0
  BY <1>2 DEF G!Undelivered, G!Delivering
<1> QED BY <1>1, <1>2, <1>3 DEF GuestInv, MigrationKeepsUnits, G!MigrationKeepsUnits

LEMMA GuestKept ==
  ASSUME GuestInv, UNCHANGED <<gItems, gSync, gServer, gWanted, gInterrupted, gEdited>>
  PROVE  GuestInv'
BY DEF GuestInv, CartTypes, RunInv, ItemsInv, MigrationKeepsUnits, G!MigrationKeepsUnits,
       G!Undelivered, G!Delivering

\* What a run is yet to hand over, while it works and when it has stored what it left.
LEMMA RunHolds ==
  ASSUME gSync \in G!Run, NEW p \in Line
  PROVE  G!Undelivered(p) =
           IF gSync.phase = "refreshing" THEN gItems[p]
           ELSE IF p \in gSync.todo /\ ~(gSync.phase = "added" /\ p = gSync.product)
                THEN gSync.items[p] ELSE 0
BY GuestConstants DEF G!Undelivered, G!Delivering

LEMMA RunHoldsNext ==
  ASSUME gSync' \in G!Run, NEW p \in Line
  PROVE  G!Undelivered(p)' =
           IF gSync'.phase = "refreshing" THEN gItems'[p]
           ELSE IF p \in gSync'.todo /\ ~(gSync'.phase = "added" /\ p = gSync'.product)
                THEN gSync'.items[p] ELSE 0
BY GuestConstants DEF G!Undelivered, G!Delivering

LEMMA GuestUndelivered ==
  ASSUME CartTypes, NEW p \in Line PROVE G!Undelivered(p) \in Nat
<1>1. CASE gSync = None
  BY <1>1, GuestConstants DEF G!Undelivered, G!Delivering, CartTypes
<1>2. CASE gSync \in G!Run
  <2>1. gSync.items[p] \in Nat /\ gItems[p] \in Nat
    BY <1>2, GuestConstants DEF G!Run, CartTypes
  <2> QED BY <1>2, <2>1, RunHolds
<1> QED BY <1>1, <1>2 DEF CartTypes

LEMMA NothingIsMoved ==
  ASSUME MigrationKeepsUnits, UNCHANGED <<gServer, gWanted, gEdited>>,
         ~gInterrupted' => ~gInterrupted,
         \A p \in Line : G!Undelivered(p)' = G!Undelivered(p)
  PROVE  MigrationKeepsUnits'
BY DEF MigrationKeepsUnits, G!MigrationKeepsUnits

\* A run that is interrupted may leave more to hand over than there was, and never less.
LEMMA NothingIsForgotten ==
  ASSUME CartTypes, MigrationKeepsUnits, UNCHANGED <<gServer, gWanted, gEdited>>, gInterrupted',
         ~gEdited => \A p \in Line : /\ G!Undelivered(p) \in Nat /\ G!Undelivered(p)' \in Nat
                                     /\ G!Undelivered(p)' >= G!Undelivered(p)
  PROVE  MigrationKeepsUnits'
<1>1. ASSUME ~gEdited, NEW p \in Line PROVE gServer'[p] + G!Undelivered(p)' >= gWanted'[p]
  <2>1. gServer[p] \in Nat /\ gWanted[p] \in Nat /\ gServer' = gServer /\ gWanted' = gWanted
    BY DEF CartTypes
  <2>2. gServer[p] + G!Undelivered(p) >= gWanted[p]
    BY <1>1 DEF MigrationKeepsUnits, G!MigrationKeepsUnits
  <2> DEFINE u == G!Undelivered(p)
             v == G!Undelivered(p)'
  <2>3. u \in Nat /\ v \in Nat /\ v >= u
    BY <1>1
  <2> HIDE DEF u, v
  <2>4. gServer[p] + v >= gWanted[p]
    BY <2>1, <2>2, <2>3 DEF u
  <2> QED BY <2>1, <2>4 DEF v
<1> QED BY <1>1 DEF MigrationKeepsUnits, G!MigrationKeepsUnits

\* What a run works on is what it began with, in which nothing is missing.
LEMMA RunIsOfCart ==
  ASSUME GuestInv, ~gEdited, NEW p \in Line
  PROVE  /\ gItems[p] \in Nat /\ G!Undelivered(p) \in Nat /\ gItems[p] >= G!Undelivered(p)
         /\ ~G!Delivering => G!Undelivered(p) = gItems[p]
<1>1. gItems[p] \in Nat /\ CartTypes
  BY GuestConstants DEF GuestInv, CartTypes
<1>2. CASE ~G!Delivering
  BY <1>1, <1>2 DEF G!Undelivered
<1>3. CASE G!Delivering
  <2>1. gSync \in G!Run /\ gItems = gSync.items /\ gSync.phase # "refreshing"
    BY <1>1, <1>3 DEF G!Delivering, CartTypes, GuestInv, ItemsInv
  <2>2. G!Undelivered(p) = gItems[p] \/ G!Undelivered(p) = 0
    BY <2>1, RunHolds
  <2> QED BY <1>1, <1>3, <2>2
<1> QED BY <1>2, <1>3

\* A run that starts holds all the guest cart does.
LEMMA StartingKeepsUnits ==
  ASSUME GuestInv, gSync = None, gSync' = G!NewRun,
         UNCHANGED <<gItems, gServer, gWanted, gInterrupted, gEdited>>
  PROVE  GuestInv'
<1>1. CartTypes /\ MigrationKeepsUnits
  BY DEF GuestInv
<1>2. gSync' \in G!Run
  BY <1>1 DEF CartTypes, G!NewRun, G!Run, G!Held
<1>3. /\ gSync'.todo = G!Held(gItems) /\ gSync'.remaining = G!Held(gItems)
      /\ gSync'.phase = "next" /\ gSync'.items = gItems
  BY DEF G!NewRun
<1>4. \A p \in Line : G!Undelivered(p)' = gItems[p] /\ G!Undelivered(p) = gItems[p]
  <2> SUFFICES ASSUME NEW p \in Line
               PROVE  G!Undelivered(p)' = gItems[p] /\ G!Undelivered(p) = gItems[p]
    OBVIOUS
  <2>1. p \notin G!Held(gItems) => gItems[p] = 0
    BY <1>1, GuestConstants DEF G!Held, CartTypes
  <2>2. G!Undelivered(p) = gItems[p]
    BY DEF G!Undelivered, G!Delivering
  <2>3. G!Undelivered(p)' = IF p \in G!Held(gItems) THEN gItems[p] ELSE 0
    BY <1>2, <1>3, RunHoldsNext
  <2> QED BY <2>1, <2>2, <2>3
<1>5. MigrationKeepsUnits'
  BY <1>1, <1>4 DEF MigrationKeepsUnits, G!MigrationKeepsUnits
<1>6. CartTypes' /\ RunInv' /\ ItemsInv'
  BY <1>1, <1>2, <1>3 DEF CartTypes, RunInv, ItemsInv
<1> QED BY <1>5, <1>6 DEF GuestInv

\* A run posts a product, the server adds it or refuses, and the answer comes.
LEMMA PostingKeepsUnits ==
  ASSUME GuestInv, G!PostItem \/ G!ServerActs \/ G!ItemAdded PROVE GuestInv'
<1>1. /\ CartTypes /\ RunInv /\ MigrationKeepsUnits /\ gSync \in G!Run
      /\ UNCHANGED <<gItems, gWanted, gInterrupted, gEdited>>
      /\ gSync.phase # "refreshing"
  BY DEF GuestInv, CartTypes, G!PostItem, G!ServerActs, G!ItemAdded, G!history
<1>items. ASSUME gSync'.items = gSync.items PROVE ItemsInv'
  <2>1. ~gEdited => gItems = gSync.items
    BY <1>1, GuestConstants DEF GuestInv, ItemsInv, G!Delivering
  <2> QED BY <1>1, <1>items, <2>1 DEF ItemsInv
<1>2. CASE G!PostItem
  <2>1. PICK p \in gSync.todo : gSync' = [gSync EXCEPT !.phase = "asked", !.product = p]
    BY <1>2 DEF G!PostItem
  <2>2. gSync.phase = "next" /\ gServer' = gServer /\ p \in Line
    BY <1>1, <1>2, <2>1 DEF G!PostItem, G!Run
  <2>3. /\ gSync' \in G!Run /\ gSync'.todo = gSync.todo /\ gSync'.remaining = gSync.remaining
        /\ gSync'.phase = "asked" /\ gSync'.product = p /\ gSync'.items = gSync.items
    BY <1>1, <2>1, <2>2 DEF G!Run
  <2>4. \A l \in Line : G!Undelivered(l)' = G!Undelivered(l)
    BY <1>1, <2>2, <2>3, RunHolds, RunHoldsNext
  <2>5. RunInv'
    BY <1>1, <2>1, <2>3, GuestConstants DEF RunInv
  <2> QED BY <1>1, <1>items, <2>2, <2>3, <2>4, <2>5, NothingIsMoved DEF GuestInv, CartTypes
<1>3. CASE G!ServerActs
  <2> DEFINE p == gSync.product
  <2>1. gSync.phase = "asked" /\ p \in gSync.todo /\ p \in Line
    BY <1>1, <1>3 DEF G!ServerActs, RunInv, G!Run
  <2>2. gSync.items \in [Line -> Nat] /\ gSync.todo \subseteq Line
    BY <1>1, GuestConstants DEF G!Run
  <2>3. CASE /\ gServer' = [gServer EXCEPT ![p] = @ + gSync.items[p]]
             /\ gSync' = [gSync EXCEPT !.phase = "added"]
    <3>1. /\ gSync' \in G!Run /\ gSync'.todo = gSync.todo /\ gSync'.remaining = gSync.remaining
          /\ gSync'.phase = "added" /\ gSync'.product = p /\ gSync'.items = gSync.items
      BY <1>1, <2>3 DEF G!Run
    <3>2. gServer' \in [Line -> Nat]
      BY <1>1, <2>1, <2>2, <2>3 DEF CartTypes
    <3>3. ASSUME NEW l \in Line
          PROVE  gServer'[l] + G!Undelivered(l)' = gServer[l] + G!Undelivered(l)
      <4>1. CASE l = p
        <5>1. G!Undelivered(l) = gSync.items[p] /\ G!Undelivered(l)' = 0
          BY <1>1, <2>1, <3>1, <4>1, RunHolds, RunHoldsNext
        <5>2. gServer'[l] = gServer[p] + gSync.items[p]
          BY <1>1, <2>1, <2>3, <4>1 DEF CartTypes
        <5>3. gServer[p] \in Nat /\ gSync.items[p] \in Nat
          BY <1>1, <2>1, <2>2 DEF CartTypes
        <5> QED BY <4>1, <5>1, <5>2, <5>3
      <4>2. CASE l # p
        <5>1. G!Undelivered(l)' = G!Undelivered(l)
          BY <1>1, <2>1, <3>1, <4>2, RunHolds, RunHoldsNext
        <5>2. gServer'[l] = gServer[l]
          BY <1>1, <2>3, <4>2 DEF CartTypes
        <5> QED BY <5>1, <5>2
      <4> QED BY <4>1, <4>2
    <3>4. MigrationKeepsUnits'
      BY <1>1, <3>3 DEF MigrationKeepsUnits, G!MigrationKeepsUnits
    <3>5. RunInv'
      BY <1>1, <2>1, <3>1, GuestConstants DEF RunInv
    <3> QED BY <1>1, <1>items, <3>1, <3>2, <3>4, <3>5 DEF GuestInv, CartTypes
  <2>4. CASE gServer' = gServer /\ gSync' = [gSync EXCEPT !.phase = "refused"]
    <3>1. /\ gSync' \in G!Run /\ gSync'.todo = gSync.todo /\ gSync'.remaining = gSync.remaining
          /\ gSync'.phase = "refused" /\ gSync'.product = p /\ gSync'.items = gSync.items
      BY <1>1, <2>4 DEF G!Run
    <3>2. \A l \in Line : G!Undelivered(l)' = G!Undelivered(l)
      BY <1>1, <2>1, <3>1, RunHolds, RunHoldsNext
    <3>3. RunInv'
      BY <1>1, <2>1, <3>1, GuestConstants DEF RunInv
    <3> QED BY <1>1, <1>items, <2>4, <3>1, <3>2, <3>3, NothingIsMoved DEF GuestInv, CartTypes
  <2> QED BY <1>3, <2>3, <2>4 DEF G!ServerActs
<1>4. CASE G!ItemAdded
  <2> DEFINE p == gSync.product
  <2>1. /\ gSync.phase = "added" /\ gServer' = gServer
        /\ gSync' = [gSync EXCEPT !.phase = "next", !.product = None,
                       !.todo = @ \ {p}, !.remaining = gSync.remaining \ {p}]
    BY <1>4 DEF G!ItemAdded, G!Left
  <2>2. /\ gSync' \in G!Run /\ gSync'.todo = gSync.todo \ {p}
        /\ gSync'.remaining = gSync.remaining \ {p}
        /\ gSync'.phase = "next" /\ gSync'.items = gSync.items
    BY <1>1, <2>1 DEF G!Run
  <2>3. \A l \in Line : G!Undelivered(l)' = G!Undelivered(l)
    BY <1>1, <2>1, <2>2, RunHolds, RunHoldsNext
  <2>4. RunInv'
    BY <1>1, <2>2, GuestConstants DEF RunInv
  <2> QED BY <1>1, <1>items, <2>1, <2>2, <2>3, <2>4, NothingIsMoved DEF GuestInv, CartTypes
<1> QED BY <1>2, <1>3, <1>4

\* A run stores what it has left: what it had yet to hand over, and once more the product
\* whose answer was lost.
LEMMA StoringKeepsUnits ==
  ASSUME GuestInv, G!RunCompletes \/ G!RunFails PROVE GuestInv'
<1>1. /\ CartTypes /\ RunInv /\ MigrationKeepsUnits /\ gSync \in G!Run /\ G!Stores(gSync)
      /\ gEdited' = gEdited /\ gSync.phase \in {"next", "added", "refused"}
  BY DEF GuestInv, CartTypes, G!RunCompletes, G!RunFails, G!history
<1>2. /\ gItems' = [l \in Line |-> IF l \in gSync.remaining THEN gSync.items[l] ELSE 0]
      /\ gServer' = gServer /\ gWanted' = gWanted
  BY <1>1 DEF G!Stores, G!Only
<1>3. gSync' \in G!Run /\ gSync'.phase = "refreshing" /\ gSync'.todo = gSync'.remaining
  <2>1. G!Empty \in [Line -> 0..MaxUnits]
    BY GuestConstants DEF G!Empty
  <2> QED BY <1>1, <2>1 DEF G!Stores, G!Refreshing, G!Run
<1>4. gSync.items \in [Line -> 0..MaxUnits]
  BY <1>1 DEF G!Run
<1>5. gItems' \in [Line -> 0..MaxUnits]
  BY <1>2, <1>4, GuestConstants
<1>6. gSync.todo = gSync.remaining
  BY <1>1, GuestConstants DEF RunInv
<1>7. ASSUME NEW l \in Line
      PROVE  G!Undelivered(l)' = IF l \in gSync.todo THEN gSync.items[l] ELSE 0
  BY <1>2, <1>3, <1>6, RunHoldsNext
<1>8. ASSUME gSync.phase = "added", gInterrupted' PROVE MigrationKeepsUnits'
  <2>1. ASSUME NEW l \in Line
        PROVE  /\ G!Undelivered(l) \in Nat /\ G!Undelivered(l)' \in Nat
               /\ G!Undelivered(l)' >= G!Undelivered(l)
    <3>1. G!Undelivered(l) = IF l \in gSync.todo /\ l # gSync.product
                             THEN gSync.items[l] ELSE 0
      BY <1>1, <1>8, RunHolds
    <3>2. gSync.items[l] \in Nat
      BY <1>4, GuestConstants
    <3> QED BY <1>7, <3>1, <3>2
  <2> QED BY <1>1, <1>2, <1>8, <2>1, NothingIsForgotten
<1>9. ASSUME gSync.phase # "added", ~gInterrupted' => ~gInterrupted PROVE MigrationKeepsUnits'
  <2>1. ASSUME NEW l \in Line PROVE G!Undelivered(l)' = G!Undelivered(l)
    BY <1>1, <1>7, <1>9, RunHolds
  <2> QED BY <1>1, <1>2, <1>9, <2>1, NothingIsMoved
<1>10. \/ gSync.phase = "added" /\ gInterrupted'
       \/ gSync.phase # "added" /\ (~gInterrupted' => ~gInterrupted)
  <2>1. CASE G!RunCompletes
    BY <2>1 DEF G!RunCompletes, G!history
  <2>2. CASE G!RunFails
    BY <2>2 DEF G!RunFails
  <2> QED BY <2>1, <2>2
<1>11. MigrationKeepsUnits'
  BY <1>8, <1>9, <1>10
<1>12. RunInv' /\ ItemsInv'
  BY <1>3 DEF RunInv, ItemsInv, G!Delivering
<1> QED BY <1>1, <1>2, <1>3, <1>5, <1>11, <1>12 DEF GuestInv, CartTypes

\* A run that is over holds nothing.
LEMMA EndingKeepsUnits ==
  ASSUME GuestInv, G!RunEnds PROVE GuestInv'
<1>1. /\ CartTypes /\ MigrationKeepsUnits /\ gSync \in G!Run /\ gSync.phase = "refreshing"
      /\ gSync' = None /\ UNCHANGED <<gItems, gServer, gWanted, gInterrupted, gEdited>>
  BY DEF GuestInv, CartTypes, G!RunEnds, G!history
<1>2. \A l \in Line : G!Undelivered(l)' = G!Undelivered(l)
  BY <1>1 DEF G!Undelivered, G!Delivering
<1>3. MigrationKeepsUnits'
  BY <1>1, <1>2, NothingIsMoved
<1>4. RunInv' /\ ItemsInv'
  BY <1>1 DEF RunInv, ItemsInv, G!Delivering
<1> QED BY <1>1, <1>3, <1>4 DEF GuestInv, CartTypes

\* A page that is left with a run under way starts again with all the guest cart holds.
LEMMA ReloadingKeepsUnits ==
  ASSUME GuestInv, G!Reload PROVE GuestInv'
<1>1. /\ CartTypes /\ MigrationKeepsUnits /\ gSync' = None
      /\ UNCHANGED <<gItems, gServer, gWanted, gEdited>>
      /\ gInterrupted' = (gInterrupted \/ gSync # None)
  BY DEF GuestInv, G!Reload
<1>2. \A l \in Line : G!Undelivered(l)' = gItems[l]
  BY <1>1 DEF G!Undelivered, G!Delivering
<1>3. CASE gSync = None
  <2>1. ~gInterrupted' => ~gInterrupted
    BY <1>1, <1>3
  <2>2. \A l \in Line : G!Undelivered(l) = gItems[l]
    BY <1>3 DEF G!Undelivered, G!Delivering
  <2> QED BY <1>1, <1>2, <2>1, <2>2, NothingIsMoved
          DEF GuestInv, CartTypes, RunInv, ItemsInv, G!Delivering
<1>4. CASE gSync # None
  <2>1. gInterrupted'
    BY <1>1, <1>4
  <2>2. ~gEdited => \A l \in Line : /\ G!Undelivered(l) \in Nat /\ G!Undelivered(l)' \in Nat
                                    /\ G!Undelivered(l)' >= G!Undelivered(l)
    BY <1>2, RunIsOfCart
  <2>3. MigrationKeepsUnits'
    BY <1>1, <2>1, <2>2, NothingIsForgotten
  <2> QED BY <1>1, <2>3 DEF GuestInv, CartTypes, RunInv, ItemsInv, G!Delivering
<1> QED BY <1>3, <1>4

\* The visitor sets the units of a product in the guest cart.
LEMMA SettingGuestKeepsUnits ==
  ASSUME GuestInv, NEW p \in Line, NEW n \in 0..MaxUnits, G!SetGuest(p, n) PROVE GuestInv'
<1>1. /\ CartTypes /\ RunInv /\ MigrationKeepsUnits /\ n \in Nat
      /\ gItems' = [gItems EXCEPT ![p] = n] /\ gServer' = gServer /\ gSync' = gSync
      /\ gWanted' = [gWanted EXCEPT ![p] = gServer[p] + n]
      /\ gEdited' = (gEdited \/ G!Delivering) /\ gInterrupted' = gInterrupted
  BY GuestConstants DEF GuestInv, G!SetGuest
<1>2. CartTypes' /\ RunInv'
  BY <1>1 DEF CartTypes, RunInv
<1>3. G!Delivering' = G!Delivering
  BY <1>1 DEF G!Delivering
<1>4. ItemsInv'
  BY <1>1, <1>3 DEF ItemsInv
<1>5. ASSUME ~gEdited', NEW l \in Line
      PROVE  /\ gServer'[l] + G!Undelivered(l)' >= gWanted'[l]
             /\ ~gInterrupted' => gServer'[l] + G!Undelivered(l)' = gWanted'[l]
  <2>1. ~G!Delivering /\ ~G!Delivering' /\ ~gEdited
    BY <1>1, <1>3, <1>5
  <2>2. G!Undelivered(l) = gItems[l] /\ G!Undelivered(l)' = gItems'[l]
    BY <2>1 DEF G!Undelivered
  <2>3. CASE l = p
    BY <1>1, <2>2, <2>3 DEF CartTypes
  <2>4. CASE l # p
    <3>1. gServer[l] + gItems[l] >= gWanted[l]
      BY <1>1, <2>1, <2>2 DEF MigrationKeepsUnits, G!MigrationKeepsUnits
    <3>2. ~gInterrupted => gServer[l] + gItems[l] = gWanted[l]
      BY <1>1, <2>1, <2>2 DEF MigrationKeepsUnits, G!MigrationKeepsUnits
    <3>3. gItems'[l] = gItems[l] /\ gWanted'[l] = gWanted[l]
      BY <1>1, <2>4 DEF CartTypes
    <3> QED BY <1>1, <2>2, <3>1, <3>2, <3>3
  <2> QED BY <2>3, <2>4
<1> QED BY <1>2, <1>4, <1>5 DEF GuestInv, MigrationKeepsUnits, G!MigrationKeepsUnits

\* Or in the cart of the server.
LEMMA SettingServerKeepsUnits ==
  ASSUME GuestInv, NEW p \in Line, NEW n \in 0..2 * MaxUnits, G!SetServer(p, n) PROVE GuestInv'
<1>1. /\ CartTypes /\ RunInv /\ ItemsInv /\ MigrationKeepsUnits /\ n \in Nat
      /\ UNCHANGED <<gItems, gSync, gInterrupted, gEdited>>
      /\ gServer' = [gServer EXCEPT ![p] = n]
      /\ gWanted' = [gWanted EXCEPT ![p] = n + G!Undelivered(p)]
  BY GuestConstants DEF GuestInv, G!SetServer, G!history
<1>2. G!Undelivered(p) \in Nat
  BY GuestUndelivered DEF GuestInv
<1>3. \A l \in Line : G!Undelivered(l)' = G!Undelivered(l)
  BY <1>1 DEF G!Undelivered, G!Delivering
<1>4. CartTypes' /\ RunInv' /\ ItemsInv'
  BY <1>1, <1>2 DEF CartTypes, RunInv, ItemsInv, G!Delivering
<1>5. ASSUME ~gEdited', NEW l \in Line
      PROVE  /\ gServer'[l] + G!Undelivered(l)' >= gWanted'[l]
             /\ ~gInterrupted' => gServer'[l] + G!Undelivered(l)' = gWanted'[l]
  <2>1. CASE l = p
    <3>1. gServer'[l] = n /\ gWanted'[l] = n + G!Undelivered(l)
      BY <1>1, <2>1 DEF CartTypes
    <3> DEFINE u == G!Undelivered(l)
    <3>2. u \in Nat /\ gServer'[l] = n /\ gWanted'[l] = n + u
      BY <1>2, <2>1, <3>1
    <3> HIDE DEF u
    <3>3. gServer'[l] + u = gWanted'[l] /\ gServer'[l] + u >= gWanted'[l]
      BY <1>1, <3>2
    <3> QED BY <1>3, <3>3 DEF u
  <2>2. CASE l # p
    <3>1. gServer'[l] = gServer[l] /\ gWanted'[l] = gWanted[l]
      BY <1>1, <2>2 DEF CartTypes
    <3> QED BY <1>1, <1>3, <1>5, <3>1 DEF MigrationKeepsUnits, G!MigrationKeepsUnits
  <2> QED BY <2>1, <2>2
<1> QED BY <1>4, <1>5 DEF GuestInv, MigrationKeepsUnits, G!MigrationKeepsUnits

LEMMA GuestStep == GuestInv /\ [G!Next]_(G!guestVars) => GuestInv'
<1> SUFFICES ASSUME GuestInv, [G!Next]_(G!guestVars) PROVE GuestInv'
  OBVIOUS
<1> USE DEF G!history
<1>1. CASE \/ UNCHANGED G!guestVars
           \/ \E a \in Call : \/ G!Navigate(a) \/ G!ServerAnswers(a)
                             \/ G!HydrateUser(a) \/ G!Login(a)
           \/ G!LogoutRequest \/ G!Logout \/ G!SessionEnds
  BY <1>1, GuestKept
     DEF G!guestVars, G!authVars, G!cartVars, G!Navigate, G!ServerAnswers, G!HydrateUser, G!Login,
         G!LogoutRequest, G!Logout, G!SessionEnds
<1>2. CASE G!EffectRuns \/ G!AddItemMigrates
  BY <1>2, StartingKeepsUnits, GuestKept DEF G!EffectRuns, G!AddItemMigrates, G!MayStartRun
<1>3. CASE \/ \E p \in Line, n \in 0..MaxUnits : G!SetGuest(p, n)
           \/ \E p \in Line, n \in 0..2 * MaxUnits : G!SetServer(p, n)
  BY <1>3, SettingGuestKeepsUnits, SettingServerKeepsUnits
<1> QED
  BY <1>1, <1>2, <1>3, PostingKeepsUnits, StoringKeepsUnits, EndingKeepsUnits,
     ReloadingKeepsUnits DEF G!Next

\* However requests, pages and stale answers cross, no unit that was asked for is forgotten,
\* and none is handed over twice but after a lost answer or a page left with a run under
\* way; an edit of the guest cart under a run is excepted.
THEOREM MigrationKeepsUnitsAlways == G!Spec => []MigrationKeepsUnits
<1>1. GuestInv => MigrationKeepsUnits
  BY DEF GuestInv
<1> QED BY <1>1, GuestInit, GuestStep, PTL DEF G!Spec

\* The carts of a visitor keep to their types: no units below zero or beyond their bound.
LEMMA GuestTypesAlways == G!Spec => []G!TypeOK
<1> DEFINE Rest ==
      /\ gSignedIn \in BOOLEAN /\ gCookie \in BOOLEAN
      /\ gProfile \in [Call -> G!Answer] /\ gLeaving \in BOOLEAN /\ gEffect \in BOOLEAN
      /\ gInterrupted \in BOOLEAN /\ gEdited \in BOOLEAN
      /\ gServer \in [Line -> 0..2 * MaxUnits] /\ gWanted \in [Line -> 0..3 * MaxUnits]
<1>1. GuestInv /\ Rest => G!TypeOK
  BY DEF GuestInv, CartTypes, G!TypeOK
<1>2. G!Init => Rest
  <2>1. 0 \in 0..2 * MaxUnits /\ 0 \in 0..3 * MaxUnits
    BY GuestConstants
  <2> QED BY <2>1 DEF G!Init, G!Empty, G!Answer
<1>3. GuestInv /\ Rest /\ [G!Next]_(G!guestVars) => Rest'
  <2> SUFFICES ASSUME GuestInv, Rest, [G!Next]_(G!guestVars) PROVE Rest'
    OBVIOUS
  <2> USE DEF G!authVars, G!cartVars, G!history
  <2>1. CASE UNCHANGED G!guestVars
    BY <2>1 DEF G!guestVars
  <2>2. CASE G!LogoutRequest \/ G!SessionEnds \/ G!Logout \/ G!Reload
    BY <2>2 DEF G!LogoutRequest, G!SessionEnds, G!Logout, G!Reload, G!ShowsUser, G!Answer
  <2>3. ASSUME NEW a \in Call,
               G!Navigate(a) \/ G!ServerAnswers(a) \/ G!HydrateUser(a) \/ G!Login(a)
        PROVE  Rest'
    <3>1. gProfile' \in [Call -> G!Answer]
      BY <2>3 DEF G!Navigate, G!ServerAnswers, G!HydrateUser, G!Login, G!GetProfile, G!Answer
    <3> QED
      BY <2>3, <3>1 DEF G!Navigate, G!ServerAnswers, G!HydrateUser, G!Login, G!ShowsUser
  <2>4. CASE G!EffectRuns \/ G!AddItemMigrates \/ G!PostItem \/ G!ItemAdded \/ G!RunEnds
    BY <2>4 DEF G!EffectRuns, G!AddItemMigrates, G!PostItem, G!ItemAdded, G!RunEnds
  <2>5. CASE G!RunCompletes \/ G!RunFails
    BY <2>5, Zenon DEF G!RunCompletes, G!RunFails, G!Stores
  <2>6. CASE G!ServerActs
    <3>1. gServer' \in [Line -> 0..2 * MaxUnits]
      <4>1. CASE gServer' = gServer
        BY <4>1
      <4>2. CASE /\ gServer[gSync.product] + gSync.items[gSync.product] <= 2 * MaxUnits
                 /\ gServer' = [gServer EXCEPT ![gSync.product] = @ + gSync.items[gSync.product]]
        <5>1. gSync \in G!Run /\ gSync.product \in Line
          BY <2>6 DEF G!ServerActs, GuestInv, CartTypes, RunInv, G!Run
        <5>2. gSync.items[gSync.product] \in Nat /\ gServer[gSync.product] \in Nat
          BY <5>1, GuestConstants DEF G!Run
        <5>3. gServer[gSync.product] + gSync.items[gSync.product] \in 0..2 * MaxUnits
          BY <4>2, <5>2, GuestConstants
        <5> QED BY <4>2, <5>3
      <4> QED BY <2>6, <4>1, <4>2 DEF G!ServerActs
    <3> QED BY <2>6, <3>1 DEF G!ServerActs
  <2>7. ASSUME NEW p \in Line, NEW n \in 0..MaxUnits, G!SetGuest(p, n) PROVE Rest'
    <3>1. gServer[p] + n \in 0..3 * MaxUnits
      BY GuestConstants
    <3> QED BY <2>7, <3>1 DEF G!SetGuest
  <2>8. ASSUME NEW p \in Line, NEW n \in 0..2 * MaxUnits, G!SetServer(p, n) PROVE Rest'
    <3>1. n \in 0..2 * MaxUnits
      OBVIOUS
    <3>2. G!Undelivered(p) \in Nat
      BY GuestUndelivered DEF GuestInv
    <3>3. n + G!Undelivered(p) \in 0..3 * MaxUnits
      BY <2>8, <3>2, GuestConstants DEF G!SetServer
    <3> QED BY <2>8, <3>1, <3>3 DEF G!SetServer
  <2> QED BY <2>1, <2>2, <2>3, <2>4, <2>5, <2>6, <2>7, <2>8 DEF G!Next
<1> HIDE DEF Rest
<1> QED BY <1>1, <1>2, <1>3, GuestInit, GuestStep, PTL DEF G!Spec

-----------------------------------------------------------------------------
(***************************************************************************)
(* Catalogue. While no two applications of the import have overlapped, one *)
(* at most is under way, and only of a job that has not been applied: the  *)
(* stock it writes is the one that is counted.                             *)
(***************************************************************************)
CatalogueRows ==
  /\ oProduct \in O!Product \cup {None} /\ oCounted \in Int /\ oApplied \in BOOLEAN
  /\ oCall = [c \in Call |-> oCall[c]]
  /\ \A c \in Call : O!Reading(c, "update") => oCall[c].dto \in O!Dto
  /\ \A c \in Call : O!Reading(c, "apply") => oJob \in {"VALIDATED", "APPLIED"}
  /\ oJob \in {"VALIDATED", "APPLIED"} => oRow \in O!Product

ImportSteps ==
  /\ \A c, d \in Call : O!Reading(c, "apply") /\ O!Reading(d, "apply") => c = d
  /\ \A c \in Call : O!Reading(c, "apply") => ~oApplied
  /\ oApplied => oJob = "APPLIED"
  /\ oProduct # None => oProduct.stock = oCounted

CatalogueInv == CatalogueRows /\ (~oOverlapped => ImportSteps)

LEMMA CatalogueConstants ==
  /\ Price \subseteq Nat \ {0} /\ MaxStated \in Nat
  /\ Edit \subseteq O!Dto /\ File \subseteq O!Product
BY ServicesAssumption DEF O!PricesAreNumbers

LEMMA CatalogueInit == O!Init => CatalogueInv
<1> SUFFICES ASSUME O!Init PROVE CatalogueInv
  OBVIOUS
<1>1. /\ oCall = [c \in Call |-> oCall[c]]
      /\ \A c \in Call, kind \in {"update", "apply"} : ~O!Reading(c, kind)
  BY DEF O!Init, O!Reading
<1>2. CatalogueRows
  <2>1. oProduct = None /\ oCounted = 0 /\ oApplied = FALSE /\ oJob = "NONE"
    BY DEF O!Init
  <2>2. \A c \in Call : ~O!Reading(c, "update") /\ ~O!Reading(c, "apply")
    BY <1>1
  <2>3. oJob \notin {"VALIDATED", "APPLIED"} /\ oProduct \in O!Product \cup {None}
    BY <2>1
  <2>4. oCounted \in Int
    BY <2>1
  <2>5. oApplied \in BOOLEAN
    BY <2>1, Zenon
  <2> QED BY <1>1, <2>2, <2>3, <2>4, <2>5, Zenon DEF CatalogueRows
<1>3. ImportSteps
  BY <1>1 DEF O!Init, ImportSteps
<1> QED BY <1>2, <1>3 DEF CatalogueInv

\* What an update leaves of the row is a row.
LEMMA UpdatedRow ==
  ASSUME oProduct \in O!Product, NEW c \in Call, oCall[c].dto \in O!Dto
  PROVE  /\ O!Updated(c) \in O!Product
         /\ O!Updated(c).stock = O!Named(oCall[c].dto.stock, oProduct.stock)
<1> DEFINE dto == oCall[c].dto
<1>1. /\ dto.price \in Price \cup {O!Absent} /\ dto.discount \in Price \cup {O!Absent, None}
      /\ dto.stock \in O!Stock \cup {O!Absent}
  BY DEF O!Dto
<1>2. /\ oProduct.price \in Price /\ oProduct.discount \in Price \cup {None}
      /\ oProduct.stock \in O!Stock
  BY DEF O!Product
<1>3. /\ O!Named(dto.price, oProduct.price) \in Price
      /\ O!Named(dto.discount, oProduct.discount) \in Price \cup {None}
      /\ O!Named(dto.stock, oProduct.stock) \in O!Stock
  BY <1>1, <1>2 DEF O!Named
<1> QED BY <1>3 DEF O!Updated, O!Product

\* The provider's edits and sales write the row and the count alike.
LEMMA EditKeeps ==
  ASSUME CatalogueInv,
         \/ O!Remove \/ O!Sell \/ \E r \in File : O!Create(r)
         \/ \E c \in Call : O!Update(c)
  PROVE  CatalogueInv'
<1>1. oJob' = oJob /\ oRow' = oRow /\ oApplied' = oApplied /\ oOverlapped' = oOverlapped
  BY DEF O!Remove, O!Sell, O!Create, O!Update
<1>2. /\ oCall' = [c \in Call |-> oCall'[c]]
      /\ \A c \in Call : oCall'[c] \in {None, oCall[c]}
  BY DEF O!Remove, O!Sell, O!Create, O!Update, O!Returns, CatalogueInv, CatalogueRows
<1>3. \A c \in Call, kind \in {"update", "apply"} :
        O!Reading(c, kind)' => O!Reading(c, kind) /\ oCall'[c] = oCall[c]
  BY <1>2 DEF O!Reading
<1> DEFINE RowAndCount ==
      /\ oProduct' \in O!Product \cup {None} /\ oCounted' \in Int
      /\ (oProduct # None => oProduct.stock = oCounted) =>
           (oProduct' # None => oProduct'.stock = oCounted')
<1>4. RowAndCount
  <2>1. CASE O!Remove
    BY <2>1 DEF O!Remove, CatalogueInv, CatalogueRows
  <2>2. CASE O!Sell
    <3>1. oProduct \in O!Product /\ oProduct.stock \in O!Stock /\ oProduct.stock > 0
      BY <2>2 DEF O!Sell, O!Product, CatalogueInv, CatalogueRows
    <3>2. oProduct.stock - 1 \in O!Stock
      BY <3>1, CatalogueConstants DEF O!Stock
    <3>3. oProduct' \in O!Product /\ oProduct'.stock = oProduct.stock - 1
      BY <2>2, <3>1, <3>2 DEF O!Sell, O!Product
    <3> QED BY <2>2, <3>1, <3>3 DEF O!Sell, O!Stock, CatalogueInv, CatalogueRows
  <2>3. ASSUME NEW r \in File, O!Create(r) PROVE RowAndCount
    <3>1. r \in O!Product /\ r.stock \in Int
      BY CatalogueConstants DEF O!Product, O!Stock
    <3> QED BY <2>3, <3>1 DEF O!Create
  <2>4. ASSUME NEW c \in Call, O!Update(c) PROVE RowAndCount
    <3>1. oProduct \in O!Product /\ oCall[c].dto \in O!Dto /\ oProduct # None
      BY <2>4 DEF O!Update, CatalogueInv, CatalogueRows
    <3>2. oProduct' \in O!Product /\ oProduct'.stock = O!Named(oCall[c].dto.stock, oProduct.stock)
      BY <2>4, <3>1, UpdatedRow DEF O!Update
    <3>3. oCounted' = O!Named(oCall[c].dto.stock, oCounted)
      BY <2>4 DEF O!Update
    <3>4. oCall[c].dto.stock \in Int
      BY <3>1 DEF O!Dto, O!Stock, O!Absent
    <3> QED BY <3>1, <3>2, <3>3, <3>4 DEF O!Named, CatalogueInv, CatalogueRows
  <2> QED BY <2>1, <2>2, <2>3, <2>4
<1>5. CatalogueRows'
  BY <1>1, <1>2, <1>3, <1>4 DEF CatalogueInv, CatalogueRows, O!Dto, O!Product
<1>6. ImportSteps => ImportSteps'
  BY <1>1, <1>3, <1>4 DEF ImportSteps
<1> QED BY <1>1, <1>5, <1>6 DEF CatalogueInv

\* What only reads, or only ends a call.
LEMMA ReadingKeeps ==
  ASSUME CatalogueInv, NEW c \in Call,
         \/ \E dto \in Edit : O!ReadForUpdate(c, dto)
         \/ \E d \in Price : O!ReadForDiscount(c, d)
         \/ O!UpsertClientDiscount(c) \/ O!Abandon(c)
  PROVE  CatalogueInv'
<1>1. UNCHANGED <<oProduct, oCounted, oJob, oRow, oApplied, oOverlapped>>
  BY DEF O!ReadForUpdate, O!ReadForDiscount, O!UpsertClientDiscount, O!Abandon
<1>2. PICK what : /\ oCall' = [oCall EXCEPT ![c] = what]
                  /\ what = None \/ what.kind # "apply"
                  /\ what = None \/ what.kind # "update" \/ what.dto \in Edit
  BY DEF O!ReadForUpdate, O!ReadForDiscount, O!UpsertClientDiscount, O!Abandon, O!Reads, O!Returns
<1>3. /\ oCall' = [d \in Call |-> oCall'[d]] /\ oCall'[c] = what
      /\ \A d \in Call \ {c} : oCall'[d] = oCall[d]
  BY <1>2 DEF CatalogueInv, CatalogueRows
<1>4. \A d \in Call : O!Reading(d, "apply")' => O!Reading(d, "apply")
  BY <1>2, <1>3 DEF O!Reading
<1>5. \A d \in Call : O!Reading(d, "update")' => oCall'[d].dto \in O!Dto
  BY <1>2, <1>3, CatalogueConstants DEF O!Reading, CatalogueInv, CatalogueRows
<1>6. CatalogueRows'
  BY <1>1, <1>3, <1>4, <1>5 DEF CatalogueInv, CatalogueRows, O!Dto, O!Product
<1>7. ImportSteps => ImportSteps'
  BY <1>1, <1>4 DEF ImportSteps
<1> QED BY <1>1, <1>6, <1>7 DEF CatalogueInv

LEMMA ImportKeeps ==
  ASSUME CatalogueInv,
         \/ \E r \in File : O!ValidateImport(r)
         \/ \E c \in Call : O!ReadJob(c) \/ O!ApplyImport(c)
  PROVE  CatalogueInv'
<1>1. ASSUME NEW r \in File, O!ValidateImport(r) PROVE CatalogueInv'
  <2>1. /\ oJob = "NONE" /\ oRow' = r /\ r \in O!Product
        /\ UNCHANGED <<oProduct, oCounted, oCall, oApplied, oOverlapped>>
    BY <1>1, CatalogueConstants DEF O!ValidateImport
  <2>2. \A c \in Call : ~O!Reading(c, "apply")
    BY <2>1 DEF CatalogueInv, CatalogueRows
  <2> QED
    BY <2>1, <2>2 DEF CatalogueInv, CatalogueRows, ImportSteps, O!Reading, O!Product, O!Dto
<1>2. ASSUME NEW c \in Call, O!ReadJob(c) PROVE CatalogueInv'
  <2>1. /\ oJob = "VALIDATED" /\ UNCHANGED <<oProduct, oCounted, oJob, oRow, oApplied>>
        /\ oCall' = [oCall EXCEPT ![c] = [kind |-> "apply"]]
        /\ oOverlapped' = (oOverlapped \/ \E o \in Call \ {c} : O!Reading(o, "apply"))
    BY <1>2 DEF O!ReadJob, O!Applicable, O!Reads
  <2>2. /\ oCall' = [d \in Call |-> oCall'[d]] /\ oCall'[c] = [kind |-> "apply"]
        /\ \A d \in Call \ {c} : oCall'[d] = oCall[d]
    BY <2>1 DEF CatalogueInv, CatalogueRows
  <2>3. CatalogueRows'
    BY <2>1, <2>2 DEF CatalogueInv, CatalogueRows, O!Reading, O!Product, O!Dto
  <2>4. ASSUME ~oOverlapped' PROVE ImportSteps'
    <3>1. ImportSteps /\ \A o \in Call \ {c} : ~O!Reading(o, "apply")
      BY <2>1, <2>4 DEF CatalogueInv
    <3>2. \A d \in Call : O!Reading(d, "apply")' => d = c
      BY <2>2, <3>1 DEF O!Reading
    <3> QED BY <2>1, <3>1, <3>2 DEF ImportSteps
  <2> QED BY <2>3, <2>4 DEF CatalogueInv
<1>3. ASSUME NEW c \in Call, O!ApplyImport(c) PROVE CatalogueInv'
  <2>1. /\ O!Reading(c, "apply") /\ oProduct' = oRow /\ oJob' = "APPLIED" /\ oApplied' = TRUE
        /\ oCounted' = IF oApplied THEN oCounted ELSE oRow.stock
        /\ oCall' = [oCall EXCEPT ![c] = None] /\ UNCHANGED <<oRow, oOverlapped>>
    BY <1>3 DEF O!ApplyImport, O!Returns
  <2>2. /\ oCall' = [d \in Call |-> oCall'[d]] /\ oCall'[c] = None
        /\ \A d \in Call \ {c} : oCall'[d] = oCall[d]
    BY <2>1 DEF CatalogueInv, CatalogueRows
  <2>3. oRow \in O!Product /\ oRow.stock \in Int
    BY <2>1 DEF CatalogueInv, CatalogueRows, O!Product, O!Stock
  <2>4. CatalogueRows'
    BY <2>1, <2>2, <2>3 DEF CatalogueInv, CatalogueRows, O!Reading, O!Product, O!Dto
  <2>5. ASSUME ~oOverlapped' PROVE ImportSteps'
    <3>1. ImportSteps
      BY <2>1, <2>5 DEF CatalogueInv
    <3>2. \A d \in Call : ~O!Reading(d, "apply")'
      BY <2>1, <2>2, <3>1 DEF O!Reading, ImportSteps
    <3> QED BY <2>1, <3>1, <3>2 DEF ImportSteps
  <2> QED BY <2>4, <2>5 DEF CatalogueInv
<1> QED BY <1>1, <1>2, <1>3

LEMMA CatalogueStep == CatalogueInv /\ [O!Next]_(O!catalogueVars) => CatalogueInv'
<1> SUFFICES ASSUME CatalogueInv, [O!Next]_(O!catalogueVars) PROVE CatalogueInv'
  OBVIOUS
<1>1. CASE UNCHANGED O!catalogueVars
  BY <1>1 DEF O!catalogueVars, CatalogueInv, CatalogueRows, ImportSteps, O!Reading, O!Product, O!Dto
<1> QED BY <1>1, EditKeeps, ReadingKeeps, ImportKeeps DEF O!Next

\* No edit takes a sale back that it did not state, however old what it read.
THEOREM SalesSurviveEditsAlways == O!Spec => []SalesSurviveEdits
<1>1. CatalogueInv => SalesSurviveEdits
  BY DEF CatalogueInv, ImportSteps, SalesSurviveEdits, O!SalesSurviveEdits
<1> QED BY <1>1, CatalogueInit, CatalogueStep, PTL DEF O!Spec

\* Rows of products, discounts and jobs keep to their types: no stock below zero.
LEMMA CatalogueTypes == O!Spec => []O!TypeOK
<1> DEFINE Rest ==
      /\ oClient \in Price \cup {None} /\ oInUse \in BOOLEAN /\ oOverlapped \in BOOLEAN
      /\ oJob \in {"NONE", "VALIDATED", "FAILED", "APPLIED"} /\ oRow \in O!Product \cup {None}
      /\ \A c \in Call : oCall[c] = None \/ oCall[c].kind \in {"update", "discount", "apply"}
      /\ \A c \in Call : O!Reading(c, "discount") => oCall[c].price \in Price
<1>1. CatalogueInv /\ Rest => O!TypeOK
  BY DEF CatalogueInv, CatalogueRows, O!TypeOK
<1>2. O!Init => Rest
  BY DEF O!Init, O!Reading
<1>3. CatalogueInv /\ Rest /\ [O!Next]_(O!catalogueVars) => Rest'
  <2> SUFFICES ASSUME CatalogueInv, Rest, [O!Next]_(O!catalogueVars) PROVE Rest'
    OBVIOUS
  <2>0. oCall = [c \in Call |-> oCall[c]]
    BY DEF CatalogueInv, CatalogueRows
  <2>a. ASSUME NEW c \in Call, NEW what, what.kind \in {"update", "discount", "apply"},
                what.kind = "discount" => what.price \in Price, O!Reads(c, what)
         PROVE  \A o \in Call :
                  /\ oCall'[o] = None \/ oCall'[o].kind \in {"update", "discount", "apply"}
                  /\ O!Reading(o, "discount")' => oCall'[o].price \in Price
    <3>1. \A o \in Call : oCall'[o] = IF o = c THEN what ELSE oCall[o]
      BY <2>0, <2>a DEF O!Reads
    <3> QED BY <2>a, <3>1 DEF O!Reading
  <2>b. ASSUME \A o \in Call : oCall'[o] \in {None, oCall[o]}
          PROVE  \A o \in Call :
                   /\ oCall'[o] = None \/ oCall'[o].kind \in {"update", "discount", "apply"}
                   /\ O!Reading(o, "discount")' => oCall'[o].price \in Price
    BY <2>b DEF O!Reading
  <2>1. CASE UNCHANGED O!catalogueVars
    BY <2>1 DEF O!catalogueVars, O!Reading
  <2>2. CASE O!Remove
    BY <2>2, <2>b DEF O!Remove
  <2>3. CASE O!Sell
    BY <2>3, <2>b DEF O!Sell
  <2>4. ASSUME NEW r \in File, O!Create(r) \/ O!ValidateImport(r) PROVE Rest'
    BY <2>4, <2>b, CatalogueConstants DEF O!Create, O!ValidateImport
  <2>5. ASSUME NEW c \in Call, NEW dto \in Edit, O!ReadForUpdate(c, dto) PROVE Rest'
    BY <2>5, <2>a DEF O!ReadForUpdate
  <2>6. ASSUME NEW c \in Call, NEW d \in Price, O!ReadForDiscount(c, d) PROVE Rest'
    BY <2>6, <2>a DEF O!ReadForDiscount
  <2>7. ASSUME NEW c \in Call, O!Update(c) \/ O!ApplyImport(c) \/ O!Abandon(c) PROVE Rest'
    <3>1. \A o \in Call : oCall'[o] \in {None, oCall[o]}
      BY <2>0, <2>7 DEF O!Update, O!ApplyImport, O!Abandon, O!Returns
    <3> QED BY <2>7, <2>b, <3>1 DEF O!Update, O!ApplyImport, O!Abandon
  <2>8. ASSUME NEW c \in Call, O!UpsertClientDiscount(c) PROVE Rest'
    <3>1. \A o \in Call : oCall'[o] \in {None, oCall[o]}
      BY <2>0, <2>8 DEF O!UpsertClientDiscount, O!Returns
    <3> QED BY <2>8, <2>b, <3>1 DEF O!UpsertClientDiscount
  <2>9. ASSUME NEW c \in Call, O!ReadJob(c) PROVE Rest'
    <3>1. oOverlapped' \in BOOLEAN
      BY <2>9 DEF O!ReadJob
    <3> QED BY <2>9, <2>a, <3>1 DEF O!ReadJob
  <2> QED BY <2>1, <2>2, <2>3, <2>4, <2>5, <2>6, <2>7, <2>8, <2>9 DEF O!Next
<1> HIDE DEF Rest
<1> QED BY <1>1, <1>2, <1>3, CatalogueInit, CatalogueStep, PTL DEF O!Spec

-----------------------------------------------------------------------------
(***************************************************************************)
(* PaymentAccounts. As long as no two requests make an account at once and *)
(* none stops with one that is written nowhere, at most one request is     *)
(* making it; nothing is at Stripe until it has, and then what is there is *)
(* what it holds, and after that what the user holds.                      *)
(***************************************************************************)
AccountSteps ==
  /\ \A c, d \in P!Making : c = d
  /\ \A c \in Call :
       /\ P!At(c, "create") => pCreated = {} /\ pAccountId = None
       /\ P!At(c, "save") => pCreated = {pCall[c].id} /\ pAccountId = None
       /\ P!At(c, "retrieve") \/ P!At(c, "activate") =>
            pCall[c].id = pAccountId /\ pAccountId # None
  /\ pAccountId # None => pCreated = {pAccountId}
  /\ pCreated # {} => pAccountId # None \/ \E c \in Call : P!At(c, "save")
  /\ \A t \in P!OwnerType : pAccount[t] \in {None, pAccountId}

AccountInv == P!TypeOK /\ (~pTroubled => AccountSteps)

LEMMA NoneIsNoRequest == None \notin Account /\ None \notin P!Onboarding
BY ServicesAssumption DEF P!NoneIsNoAccount

LEMMA AccountCardinality == ASSUME NEW S PROVE P!Cardinality(S) = Cardinality(S)
BY DEF Cardinality, P!Cardinality

LEMMA AccountInit == P!Init => AccountInv
BY DEF P!Init, AccountInv, AccountSteps, P!TypeOK, P!At, P!Making, P!OwnerType

LEMMA AccountTypes ==
  ASSUME P!TypeOK, P!Next PROVE P!TypeOK'
<1> USE DEF P!TypeOK, P!Onboarding, P!At, P!Step
<1>1. P!ResolvedType \in P!OwnerType \cup {None}
  BY DEF P!ResolvedType, P!OwnerType
<1>2. CASE P!RolesChange \/ \E a \in Account : P!SubmitDetails(a)
  BY <1>2 DEF P!RolesChange, P!SubmitDetails
<1>3. ASSUME NEW c \in Call, P!GenerateOnboardingLink(c) \/ P!VerifyConnectedAccount(c)
      PROVE  P!TypeOK'
  <2>1. /\ pCall' \in [Call -> P!Onboarding \cup {None}] /\ pTroubled' \in BOOLEAN
        /\ UNCHANGED <<pRoles, pAccountId, pAccount, pCreated, pSubmitted>>
    <3>1. CASE P!GenerateOnboardingLink(c)
      BY <1>1, <3>1 DEF P!GenerateOnboardingLink
    <3>2. CASE P!VerifyConnectedAccount(c)
      BY <1>1, <3>2 DEF P!VerifyConnectedAccount
    <3> QED BY <1>3, <3>1, <3>2
  <2> QED BY <2>1
<1>4. ASSUME NEW c \in Call, P!CreateAccount(c) PROVE P!TypeOK'
  <2>1. PICK a \in Account : pCreated' = pCreated \cup {a}
                            /\ pCall' = [pCall EXCEPT ![c] = [pCall[c] EXCEPT !.at = "save", !.id = a]]
    BY <1>4 DEF P!CreateAccount
  <2>2. pCall[c] \in P!Onboarding
    BY <1>4 DEF P!CreateAccount
  <2>3. [pCall[c] EXCEPT !.at = "save", !.id = a] \in P!Onboarding
    BY <2>2
  <2>4. pCall' \in [Call -> P!Onboarding \cup {None}]
    <3> HIDE DEF P!Onboarding
    <3> QED BY <2>1, <2>3
  <2> QED BY <1>4, <2>1, <2>4 DEF P!CreateAccount
<1>5. ASSUME NEW c \in Call, P!SaveAccountId(c) \/ P!RetrieveAccount(c) PROVE P!TypeOK'
  BY <1>5 DEF P!SaveAccountId, P!RetrieveAccount
<1>6. ASSUME NEW c \in Call, P!ActivatePaymentAccount(c) \/ P!Interrupt(c) PROVE P!TypeOK'
  BY <1>6 DEF P!ActivatePaymentAccount, P!Interrupt
<1> QED BY <1>2, <1>3, <1>4, <1>5, <1>6 DEF P!Next

\* Nothing of what a request is about to do changes, and nothing of the accounts.
LEMMA AccountsAside ==
  ASSUME AccountSteps, UNCHANGED <<pAccountId, pAccount, pCreated, pCall>> PROVE AccountSteps'
BY DEF AccountSteps, P!Making, P!At, P!OwnerType

LEMMA MakingKeeps ==
  ASSUME P!TypeOK, AccountSteps, ~pTroubled', NEW c \in Call,
         P!GenerateOnboardingLink(c) \/ P!CreateAccount(c) \/ P!SaveAccountId(c)
  PROVE  AccountSteps'
<1> USE NoneIsNoRequest DEF P!TypeOK, P!At, P!Step, P!Making, P!OwnerType
<1>1. CASE P!GenerateOnboardingLink(c)
  <2>1. P!Making = {} /\ pAccountId = None /\ UNCHANGED <<pAccountId, pAccount, pCreated>>
    BY <1>1 DEF P!GenerateOnboardingLink, P!Registered
  <2>2. pCreated = {}
    BY <2>1 DEF AccountSteps
  <2>3. \E type : pCall' = [pCall EXCEPT ![c] = [at |-> "create", type |-> type, id |-> None]]
    BY <1>1 DEF P!GenerateOnboardingLink
  <2>4. \A d \in Call \ {c} : pCall'[d] = pCall[d]
    BY <2>3
  <2>5. P!Making' \subseteq {c} /\ pCall'[c].at = "create"
    BY <2>1, <2>3, <2>4
  <2> QED BY <2>1, <2>2, <2>4, <2>5 DEF AccountSteps
<1>2. CASE P!CreateAccount(c)
  <2>1. P!At(c, "create") /\ pCall[c] \in P!Onboarding
    BY <1>2 DEF P!CreateAccount
  <2>2. pCreated = {} /\ pAccountId = None /\ P!Making = {c}
    BY <2>1 DEF AccountSteps
  <2>3. PICK a \in Account :
          /\ pCreated' = {a}
          /\ pCall' = [pCall EXCEPT ![c] = [pCall[c] EXCEPT !.at = "save", !.id = a]]
    BY <1>2, <2>2 DEF P!CreateAccount
  <2>4. pCall'[c] \in P!Onboarding /\ pCall'[c].at = "save" /\ pCall'[c].id = a
    BY <2>1, <2>3 DEF P!Onboarding
  <2>5. \A d \in Call \ {c} : pCall'[d] = pCall[d]
    BY <2>3
  <2>6. UNCHANGED <<pAccountId, pAccount>>
    BY <1>2 DEF P!CreateAccount
  <2> QED BY <2>2, <2>3, <2>4, <2>5, <2>6 DEF AccountSteps
<1>3. CASE P!SaveAccountId(c)
  <2>1. P!At(c, "save") /\ pCall[c] \in P!Onboarding
    BY <1>3 DEF P!SaveAccountId
  <2>2. pCreated = {pCall[c].id} /\ pAccountId = None /\ P!Making = {c}
    BY <2>1 DEF AccountSteps
  <2>3. pAccountId' = pCall[c].id /\ pAccountId' # None
    BY <1>3, <2>2 DEF P!SaveAccountId
  <2>4. pCall'[c] = None \/ (pCall'[c].at = "activate" /\ pCall'[c].id = pAccountId')
    BY <1>3, <2>1, <2>3 DEF P!SaveAccountId, P!Onboarding
  <2>5. \A d \in Call \ {c} : pCall'[d] = pCall[d]
    BY <1>3 DEF P!SaveAccountId
  <2>6. UNCHANGED <<pCreated, pAccount>>
    BY <1>3 DEF P!SaveAccountId
  <2> QED BY <2>2, <2>3, <2>4, <2>5, <2>6 DEF AccountSteps
<1> QED BY <1>1, <1>2, <1>3

LEMMA VerifyingKeeps ==
  ASSUME P!TypeOK, AccountSteps, ~pTroubled', NEW c \in Call,
         \/ P!VerifyConnectedAccount(c) \/ P!RetrieveAccount(c)
         \/ P!ActivatePaymentAccount(c) \/ P!Interrupt(c)
  PROVE  AccountSteps'
<1> USE NoneIsNoRequest DEF P!TypeOK, P!At, P!Step, P!Making, P!OwnerType
<1>1. CASE P!VerifyConnectedAccount(c)
  <2>1. \E type : pCall' = [pCall EXCEPT ![c] =
                              [at |-> "retrieve", type |-> type, id |-> pAccountId]]
    BY <1>1 DEF P!VerifyConnectedAccount
  <2>2. pCall[c] = None /\ pCall'[c].at = "retrieve" /\ pCall'[c].id = pAccountId
    BY <1>1, <2>1 DEF P!VerifyConnectedAccount
  <2>3. \A d \in Call \ {c} : pCall'[d] = pCall[d]
    BY <2>1
  <2> QED BY <1>1, <2>2, <2>3 DEF P!VerifyConnectedAccount, AccountSteps
<1>2. CASE P!RetrieveAccount(c)
  <2>1. pCall[c] \in P!Onboarding /\ pCall[c].at = "retrieve" /\ P!At(c, "retrieve")
    BY <1>2 DEF P!RetrieveAccount
  <2>2. pCall'[c] = None \/ (pCall'[c].at = "activate" /\ pCall'[c].id = pCall[c].id)
    BY <1>2, <2>1 DEF P!RetrieveAccount, P!Onboarding
  <2>3. \A d \in Call \ {c} : pCall'[d] = pCall[d]
    BY <1>2 DEF P!RetrieveAccount
  <2> QED BY <1>2, <2>1, <2>2, <2>3 DEF P!RetrieveAccount, AccountSteps
<1>3. CASE P!ActivatePaymentAccount(c)
  <2>1. pCall[c].id = pAccountId /\ pCall[c].at = "activate"
    BY <1>3 DEF P!ActivatePaymentAccount, AccountSteps
  <2>2. \A t \in {"PROVIDER", "RUNNER"} : pAccount'[t] \in {None, pAccountId}
    BY <1>3, <2>1 DEF P!ActivatePaymentAccount, AccountSteps
  <2>3. pCall' = [pCall EXCEPT ![c] = None] /\ UNCHANGED <<pAccountId, pCreated>>
    BY <1>3 DEF P!ActivatePaymentAccount
  <2>4. pCall'[c] = None /\ \A d \in Call \ {c} : pCall'[d] = pCall[d]
    BY <2>3
  <2> QED BY <2>1, <2>2, <2>3, <2>4 DEF AccountSteps
<1>4. CASE P!Interrupt(c)
  <2>1. pCall' = [pCall EXCEPT ![c] = None] /\ UNCHANGED <<pAccountId, pAccount, pCreated>>
    BY <1>4 DEF P!Interrupt
  <2>2. ~P!At(c, "save")
    BY <1>4 DEF P!Interrupt
  <2>3. pCall'[c] = None /\ \A d \in Call \ {c} : pCall'[d] = pCall[d]
    BY <2>1
  <2> QED BY <2>1, <2>2, <2>3 DEF AccountSteps
<1> QED BY <1>1, <1>2, <1>3, <1>4

LEMMA AccountStep == AccountInv /\ [P!Next]_(P!accountVars) => AccountInv'
<1> SUFFICES ASSUME AccountInv, [P!Next]_(P!accountVars) PROVE AccountInv'
  OBVIOUS
<1>1. CASE UNCHANGED P!accountVars
  BY <1>1, AccountsAside DEF P!accountVars, AccountInv, P!TypeOK
<1>2. CASE P!Next
  <2>1. P!TypeOK'
    BY <1>2, AccountTypes DEF AccountInv
  <2>2. ASSUME ~pTroubled' PROVE AccountSteps'
    <3>1. ~pTroubled
      BY <1>2, <2>2 DEF P!Next, P!RolesChange, P!SubmitDetails, P!GenerateOnboardingLink,
         P!CreateAccount, P!SaveAccountId, P!VerifyConnectedAccount, P!RetrieveAccount,
         P!ActivatePaymentAccount, P!Interrupt
    <3>2. P!TypeOK /\ AccountSteps
      BY <3>1 DEF AccountInv
    <3>3. CASE P!RolesChange \/ \E a \in Account : P!SubmitDetails(a)
      BY <3>2, <3>3, AccountsAside DEF P!RolesChange, P!SubmitDetails
    <3> QED BY <1>2, <2>2, <3>2, <3>3, MakingKeeps, VerifyingKeeps DEF P!Next
  <2> QED BY <2>1, <2>2 DEF AccountInv
<1> QED BY <1>1, <1>2

\* One account at Stripe and in every row, unless requests crossed or stopped in between.
THEOREM OneAccountAlways == P!Spec => []OneAccount
<1>1. AccountInv => OneAccount
  <2> SUFFICES ASSUME AccountInv, ~pTroubled
               PROVE  /\ Cardinality(pCreated) <= 1
                      /\ \A t \in P!OwnerType : pAccount[t] \in {None, pAccountId}
    BY AccountCardinality DEF OneAccount, P!OneAccount
  <2>1. AccountSteps
    BY DEF AccountInv
  <2>2. pCreated = {} \/ \E a : pCreated = {a}
    BY <2>1 DEF AccountSteps
  <2>3. Cardinality(pCreated) <= 1
    <3>1. CASE pCreated = {}
      BY <3>1, FS_EmptySet
    <3>2. ASSUME NEW a, pCreated = {a} PROVE Cardinality(pCreated) <= 1
      <4>1. Cardinality({a}) = 1
        BY FS_Singleton
      <4> QED BY <3>2, <4>1
    <3> QED BY <2>2, <3>1, <3>2
  <2> QED BY <2>1, <2>3 DEF AccountSteps
<1> QED BY <1>1, AccountInit, AccountStep, PTL DEF P!Spec

\* The rows and requests of payment accounts keep to their types.
LEMMA PaymentAccountTypes == P!Spec => []P!TypeOK
  BY AccountInit, AccountStep, PTL DEF P!Spec, AccountInv

-----------------------------------------------------------------------------
(***************************************************************************)
(* Tracking. Under the lock of a delivery the time of its last position    *)
(* stays what the update was compared with.                                *)
(***************************************************************************)
TrackingInv ==
  /\ T!TypeOK
  /\ \A c \in Call : T!At(c, "locked") =>
       ~T!Recent(tLast[tCall[c].delivery], tCall[c].now, Interval)
  /\ \A c, o \in Call : T!At(c, "locked") /\ T!At(o, "locked")
                        /\ tCall[c].delivery = tCall[o].delivery => c = o

LEMMA TrackingConstants ==
  /\ Interval \in Nat \ {0} /\ Retention \in Nat /\ MaxTime \in Nat
  /\ Admin \subseteq Tracker /\ None \notin Tracker
BY ServicesAssumption DEF T!ClockIsEnough

LEMMA TrackingInit == T!Init => TrackingInv
<1> SUFFICES ASSUME T!Init PROVE TrackingInv
  OBVIOUS
<1>1. T!TypeOK
  BY TrackingConstants DEF T!Init, T!TypeOK, T!Time
<1> QED BY <1>1 DEF T!Init, TrackingInv, T!At

\* One request changes, as a step of it says.
LEMMA TrackingCall ==
  ASSUME T!TypeOK, NEW c \in Call, NEW doing \in T!Doing \cup {None}, T!Step(c, doing)
  PROVE  /\ tCall' \in [Call -> T!Doing \cup {None}] /\ tCall'[c] = doing
         /\ \A o \in Call \ {c} : tCall'[o] = tCall[o]
         /\ \A o \in Call \ {c} : T!At(o, "locked")' <=> T!At(o, "locked")
         /\ T!At(c, "locked")' => doing.at = "locked" /\ doing # None
BY DEF T!TypeOK, T!Step, T!At

\* Only an update under its lock gives a delivery another time.
LEMMA TimesKept ==
  ASSUME TrackingInv, UNCHANGED tLast, T!TypeOK',
         \A c \in Call : T!At(c, "locked")' => T!At(c, "locked") /\ tCall'[c] = tCall[c]
  PROVE  TrackingInv'
BY DEF TrackingInv, T!Recent

LEMMA LockKeeps ==
  ASSUME TrackingInv, NEW c \in Call, T!LockDelivery(c) PROVE TrackingInv'
<1> DEFINE doing == [tCall[c] EXCEPT !.at = "locked"]
<1>1. T!TypeOK /\ tCall[c] \in T!Doing
  BY DEF TrackingInv, T!LockDelivery, T!At, T!TypeOK
<1>2. /\ T!Step(c, doing) /\ T!DeliveryFree(tCall[c].delivery)
      /\ ~T!Recent(tLast[tCall[c].delivery], tCall[c].now, Interval)
      /\ UNCHANGED <<tClock, tRunner, tActive, tLast, tLocated, tReported>>
  BY DEF T!LockDelivery
<1>3. /\ doing \in T!Doing
      /\ doing.delivery = tCall[c].delivery /\ doing.now = tCall[c].now
  BY <1>1 DEF T!Doing
<1> HIDE DEF doing
<1>4. T!TypeOK'
  BY <1>1, <1>2, <1>3, TrackingCall DEF T!TypeOK
<1>5. \A o \in Call \ {c} : T!At(o, "locked") => tCall[o].delivery # doing.delivery
  BY <1>2, <1>3 DEF T!DeliveryFree
<1>6. tCall'[c] = doing /\ \A o \in Call \ {c} :
        tCall'[o] = tCall[o] /\ (T!At(o, "locked")' <=> T!At(o, "locked"))
  BY <1>1, <1>2, <1>3, TrackingCall
<1> QED
  BY <1>2, <1>3, <1>4, <1>5, <1>6 DEF TrackingInv, T!Recent

\* What a recording writes is late enough.
LEMMA RecordSpaces ==
  ASSUME TrackingInv, NEW c \in Call, T!RecordLocation(c), NEW d \in Tracked
  PROVE  tLast'[d] # tLast[d] /\ tLast[d] # T!Never => tLast'[d] >= tLast[d] + Interval
<1>1. T!TypeOK /\ tCall[c] \in T!Doing /\ T!At(c, "locked")
  BY DEF TrackingInv, T!RecordLocation, T!At, T!TypeOK
<1>2. tLast' = [tLast EXCEPT ![tCall[c].delivery] = tCall[c].now]
  BY DEF T!RecordLocation
<1>3. ~T!Recent(tLast[tCall[c].delivery], tCall[c].now, Interval)
  BY <1>1 DEF TrackingInv
<1>4. /\ tCall[c].delivery \in Tracked /\ tCall[c].now \in Int
      /\ tLast \in [Tracked -> T!Time \cup {T!Never}] /\ Interval \in Int
  BY <1>1, TrackingConstants DEF T!Doing, T!TypeOK, T!Time
<1>5. tLast[d] \in Int
  BY <1>4, TrackingConstants DEF T!Time, T!Never
<1> QED BY <1>2, <1>3, <1>4, <1>5 DEF T!Recent

LEMMA RecordKeeps ==
  ASSUME TrackingInv, NEW c \in Call, T!RecordLocation(c) PROVE TrackingInv'
<1>1. T!TypeOK /\ tCall[c] \in T!Doing /\ T!At(c, "locked")
  BY DEF TrackingInv, T!RecordLocation, T!At, T!TypeOK
<1>2. /\ T!Step(c, None) /\ tLast' = [tLast EXCEPT ![tCall[c].delivery] = tCall[c].now]
      /\ tLocated' = [tLocated EXCEPT ![tCall[c].user] =
                        IF @ < tCall[c].now THEN tCall[c].now ELSE @]
      /\ UNCHANGED <<tClock, tRunner, tActive, tReported>>
  BY DEF T!RecordLocation
<1>3. tCall[c].now \in T!Time /\ tCall[c].user \in Tracker /\ tCall[c].delivery \in Tracked
  BY <1>1 DEF T!Doing
<1>4. T!TypeOK'
  BY <1>1, <1>2, <1>3, TrackingCall DEF T!TypeOK
<1>5. /\ tCall'[c] = None
      /\ \A o \in Call \ {c} : tCall'[o] = tCall[o] /\ (T!At(o, "locked")' <=> T!At(o, "locked"))
  BY <1>1, <1>2, TrackingCall
<1>6. \A o \in Call : T!At(o, "locked")' =>
        o # c /\ T!At(o, "locked") /\ tCall'[o] = tCall[o] /\ tCall[o].delivery # tCall[c].delivery
  BY <1>1, <1>5 DEF TrackingInv, T!At
<1>7. \A o \in Call : T!At(o, "locked")' => tLast'[tCall[o].delivery] = tLast[tCall[o].delivery]
  <2> SUFFICES ASSUME NEW o \in Call, T!At(o, "locked")'
               PROVE  tLast'[tCall[o].delivery] = tLast[tCall[o].delivery]
    OBVIOUS
  <2>1. T!At(o, "locked") /\ tCall[o].delivery \in Tracked
    BY <1>1, <1>6 DEF T!TypeOK, T!At, T!Doing
  <2>2. tCall[o].delivery # tCall[c].delivery
    BY <1>1, <1>6, <2>1
  <2> QED BY <1>1, <1>2, <2>1, <2>2 DEF T!TypeOK
<1> QED BY <1>4, <1>6, <1>7 DEF TrackingInv, T!Recent

LEMMA OthersKeepTimes ==
  ASSUME TrackingInv,
         \/ T!Tick \/ T!CleanupRunnerLocations
         \/ \E d \in Tracked : T!Deliver(d) \/ \E u \in Tracker : T!Reassign(d, u)
         \/ \E c \in Call : \/ \E d \in Tracked, u \in Tracker, far \in BOOLEAN :
                                 T!RequestUpdate(c, d, u, far)
                            \/ T!ReportJump(c) \/ T!Refuse(c)
  PROVE  TrackingInv' /\ UNCHANGED tLast
<1>1. T!TypeOK
  BY DEF TrackingInv
<1>2. CASE \/ T!Tick \/ T!CleanupRunnerLocations
           \/ \E d \in Tracked : T!Deliver(d) \/ \E u \in Tracker : T!Reassign(d, u)
  <2>1. UNCHANGED <<tLast, tReported, tCall>>
    BY <1>2 DEF T!Tick, T!CleanupRunnerLocations, T!Deliver, T!Reassign
  <2>2. tClock' \in T!Time
    BY <1>1, <1>2, TrackingConstants DEF T!Tick, T!CleanupRunnerLocations, T!Deliver, T!Reassign,
       T!TypeOK, T!Time
  <2>3. tLocated' \in [Tracker -> T!Time \cup {T!Never}]
    BY <1>1, <1>2 DEF T!Tick, T!CleanupRunnerLocations, T!Deliver, T!Reassign, T!TypeOK
  <2>4. tRunner' \in [Tracked -> Tracker \cup {None}] /\ tActive' \in [Tracked -> BOOLEAN]
    <3>1. tRunner \in [Tracked -> Tracker \cup {None}] /\ tActive \in [Tracked -> BOOLEAN]
      BY <1>1 DEF T!TypeOK
    <3>2. CASE T!Tick \/ T!CleanupRunnerLocations
      BY <3>1, <3>2 DEF T!Tick, T!CleanupRunnerLocations
    <3>3. ASSUME NEW d \in Tracked, T!Deliver(d) \/ \E u \in Tracker : T!Reassign(d, u)
          PROVE  tRunner' \in [Tracked -> Tracker \cup {None}] /\ tActive' \in [Tracked -> BOOLEAN]
      BY <3>1, <3>3 DEF T!Deliver, T!Reassign
    <3> QED BY <1>2, <3>2, <3>3
  <2>5. T!TypeOK'
    BY <1>1, <2>1, <2>2, <2>3, <2>4 DEF T!TypeOK
  <2> QED BY <2>1, <2>5, TimesKept DEF T!At
<1>3. ASSUME NEW c \in Call, NEW d \in Tracked, NEW u \in Tracker, NEW far \in BOOLEAN,
             T!RequestUpdate(c, d, u, far)
      PROVE  TrackingInv' /\ UNCHANGED tLast
  <2> DEFINE doing == [at |-> "asked", delivery |-> d, user |-> u, now |-> tClock, far |-> far]
  <2>1. T!Step(c, doing) /\ UNCHANGED <<tClock, tRunner, tActive, tLast, tLocated, tReported>>
    BY <1>3 DEF T!RequestUpdate
  <2>2. doing \in T!Doing /\ doing.at = "asked"
    BY <1>1 DEF T!Doing, T!TypeOK
  <2> HIDE DEF doing
  <2>3. T!TypeOK'
    BY <1>1, <2>1, <2>2, TrackingCall DEF T!TypeOK
  <2> QED BY <1>1, <2>1, <2>2, <2>3, TrackingCall, TimesKept
<1>4. ASSUME NEW c \in Call, T!ReportJump(c) \/ T!Refuse(c)
      PROVE  TrackingInv' /\ UNCHANGED tLast
  <2>1. T!Step(c, None) /\ UNCHANGED <<tClock, tRunner, tActive, tLast, tLocated>>
    BY <1>4 DEF T!ReportJump, T!Refuse
  <2>2. tReported' \subseteq Tracked
    <3>1. T!ReportJump(c) => tCall[c] \in T!Doing
      BY <1>1 DEF T!ReportJump, T!At, T!TypeOK
    <3> QED BY <1>1, <1>4, <3>1 DEF T!ReportJump, T!Refuse, T!TypeOK, T!Doing
  <2>3. T!TypeOK'
    BY <1>1, <2>1, <2>2, TrackingCall DEF T!TypeOK
  <2>4. \A o \in Call : T!At(o, "locked")' => T!At(o, "locked") /\ tCall'[o] = tCall[o]
    BY <1>1, <2>1, TrackingCall
  <2> QED BY <2>1, <2>3, <2>4, TimesKept
<1> QED BY <1>2, <1>3, <1>4

LEMMA TrackingStep ==
  TrackingInv /\ [T!Next]_(T!trackingVars) =>
    /\ TrackingInv'
    /\ \A d \in Tracked :
         tLast'[d] # tLast[d] /\ tLast[d] # T!Never => tLast'[d] >= tLast[d] + Interval
<1> SUFFICES ASSUME TrackingInv, [T!Next]_(T!trackingVars)
             PROVE  /\ TrackingInv'
                    /\ \A d \in Tracked : tLast'[d] # tLast[d] /\ tLast[d] # T!Never =>
                                            tLast'[d] >= tLast[d] + Interval
  OBVIOUS
<1>1. CASE UNCHANGED T!trackingVars
  BY <1>1 DEF T!trackingVars, TrackingInv, T!TypeOK, T!At, T!Recent
<1>2. CASE \E c \in Call : T!LockDelivery(c)
  BY <1>2, LockKeeps DEF T!LockDelivery
<1>3. CASE \E c \in Call : T!RecordLocation(c)
  BY <1>3, RecordKeeps, RecordSpaces
<1>4. CASE T!Next /\ ~\E c \in Call : T!LockDelivery(c) \/ T!RecordLocation(c)
  BY <1>4, OthersKeepTimes DEF T!Next
<1> QED BY <1>1, <1>2, <1>3, <1>4

\* The positions of a delivery are an interval apart, in whatever order its updates ran.
THEOREM UpdatesAreSpacedAlways == T!Spec => UpdatesAreSpaced
<1>1. TrackingInv /\ [T!Next]_(T!trackingVars) =>
        [\A d \in Tracked : tLast'[d] # tLast[d] /\ tLast[d] # T!Never =>
                              tLast'[d] >= tLast[d] + Interval]_(T!trackingVars)
  BY TrackingStep
<1> QED
  BY <1>1, TrackingInit, TrackingStep, PTL
     DEF T!Spec, UpdatesAreSpaced, T!UpdatesAreSpaced

\* Positions, times and updates keep to their types.
LEMMA TrackingTypes == T!Spec => []T!TypeOK
<1>1. TrackingInv => T!TypeOK
  BY DEF TrackingInv
<1> QED BY <1>1, TrackingInit, TrackingStep, PTL DEF T!Spec

-----------------------------------------------------------------------------
(***************************************************************************)
(* EmailSettings. A save that crosses no other has read the settings in    *)
(* effect when it stores its own, although it reads them from two rows and *)
(* another deletes the older one meanwhile: only once the newer is there.  *)
(***************************************************************************)
SaveSteps ==
  /\ \A c \in Call :
       /\ E!Due(c, "readLegacy") => eRow = None
       /\ E!Due(c, "store") => eCall[c].previous = E!Stored
  /\ (IF E!Stored = None THEN None ELSE E!Stored.secret) = eStated

EmailInv ==
  /\ E!TypeOK
  /\ \A c \in Call : E!Due(c, "delete") => eRow # None
  /\ ~eCrossed => SaveSteps

LEMMA NoneIsNoSettings == None \notin E!Settings
BY ServicesAssumption DEF E!NoneIsNoSecret

LEMMA EmailInit == E!Init => EmailInv
<1> SUFFICES ASSUME E!Init PROVE EmailInv
  OBVIOUS
<1>1. E!TypeOK
  BY DEF E!Init, E!TypeOK, E!Settings
<1>2. \A c \in Call, what \in E!Todo : ~E!Due(c, what)
  BY DEF E!Init, E!Due
<1>3. E!Stored = eLegacy
  BY DEF E!Init, E!Stored
<1> QED BY <1>1, <1>2, <1>3 DEF E!Init, EmailInv, SaveSteps, E!Todo

\* One call changes, as a step of it says, and the others keep what they have read.
LEMMA EmailCall ==
  ASSUME E!TypeOK, NEW c \in Call, NEW doing \in E!Doing \cup {None}, E!Step(c, doing)
  PROVE  /\ eCall' \in [Call -> E!Doing \cup {None}] /\ eCall'[c] = doing
         /\ \A d \in Call \ {c} : eCall'[d] = eCall[d]
         /\ \A d \in Call \ {c}, what \in E!Todo : E!Due(d, what)' <=> E!Due(d, what)
         /\ \A what \in E!Todo : E!Due(c, what)' => doing.todo = what /\ doing # None
BY DEF E!TypeOK, E!Step, E!Due

LEMMA ReadingKeepsSettings ==
  ASSUME EmailInv, NEW c \in Call,
         (\E input \in E!Input : E!ReadRow(c, input)) \/ E!ReadLegacy(c) \/ E!Stop(c)
  PROVE  EmailInv'
<1>1. E!TypeOK /\ UNCHANGED <<eRow, eLegacy, eStated, eCrossed>> /\ E!Stored' = E!Stored
  BY DEF EmailInv, E!ReadRow, E!ReadLegacy, E!Stop, E!Stored
<1>2. CASE \E input \in E!Input : E!ReadRow(c, input)
  <2>1. PICK input \in E!Input :
          E!Step(c, [todo |-> IF eRow = None THEN "readLegacy" ELSE "store", input |-> input,
                     previous |-> eRow])
    BY <1>2 DEF E!ReadRow
  <2> DEFINE doing == [todo |-> IF eRow = None THEN "readLegacy" ELSE "store", input |-> input,
                       previous |-> eRow]
  <2>2. /\ doing \in E!Doing /\ doing.previous = eRow
        /\ doing.todo = IF eRow = None THEN "readLegacy" ELSE "store"
    BY <1>1 DEF E!TypeOK, E!Doing, E!Todo
  <2> HIDE DEF doing
  <2>3. E!Step(c, doing)
    BY <2>1 DEF doing
  <2>4. eRow # None => doing.previous = E!Stored
    BY <2>2 DEF E!Stored
  <2> QED BY <1>1, <2>2, <2>3, <2>4, EmailCall DEF EmailInv, SaveSteps, E!TypeOK, E!Todo
<1>3. CASE E!ReadLegacy(c)
  <2> DEFINE doing == [eCall[c] EXCEPT !.todo = "store", !.previous = eLegacy]
  <2>1. E!Step(c, doing) /\ E!Due(c, "readLegacy") /\ eCall[c] \in E!Doing
    BY <1>1, <1>3 DEF E!ReadLegacy, E!Due, E!TypeOK
  <2>2. doing \in E!Doing /\ doing.todo = "store" /\ doing.previous = eLegacy
    BY <1>1, <2>1 DEF E!TypeOK, E!Doing, E!Todo
  <2> HIDE DEF doing
  <2>3. eRow = None => doing.previous = E!Stored
    BY <2>2 DEF E!Stored
  <2> QED BY <1>1, <2>1, <2>2, <2>3, EmailCall DEF EmailInv, SaveSteps, E!TypeOK, E!Todo
<1>4. CASE E!Stop(c)
  <2>1. E!Step(c, None)
    BY <1>4 DEF E!Stop
  <2> QED BY <1>1, <2>1, EmailCall DEF EmailInv, SaveSteps, E!TypeOK, E!Todo
<1> QED BY <1>2, <1>3, <1>4

LEMMA StoringKeepsSettings ==
  ASSUME EmailInv, NEW c \in Call, E!StoreRow(c) PROVE EmailInv'
<1> DEFINE input == eCall[c].input
           previous == eCall[c].previous
           next == E!Normalized(input, previous)
           doing == [eCall[c] EXCEPT !.todo = "delete"]
<1>1. E!TypeOK /\ E!Due(c, "store") /\ eCall[c] \in E!Doing
  BY DEF EmailInv, E!StoreRow, E!Due, E!TypeOK
<1>2. input \in E!Input /\ previous \in E!Settings \cup {None}
  BY <1>1 DEF E!Doing
<1>3. /\ eRow' = next /\ E!Step(c, doing) /\ eLegacy' = eLegacy
      /\ eStated' = IF E!Kept(input, E!Stored) THEN eStated
                    ELSE IF input.clear THEN None ELSE input.secret
      /\ eCrossed' = (eCrossed \/ \E o \in Call \ {c} : E!Due(o, "readLegacy") \/ E!Due(o, "store"))
  BY DEF E!StoreRow
<1>4. next \in E!Settings
  BY <1>2 DEF E!Normalized, E!Kept, E!Settings, E!Input
<1>5. doing \in E!Doing /\ doing.todo = "delete"
  BY <1>1 DEF E!Doing, E!Todo
<1>6. eRow' # None /\ E!Stored' = next
  BY <1>3, <1>4, NoneIsNoSettings DEF E!Stored
<1>7. E!TypeOK'
  <2>1. eStated' \in Secret \cup {None}
    BY <1>1, <1>2, <1>3 DEF E!TypeOK, E!Input
  <2> QED
    BY <1>1, <1>3, <1>4, <1>5, <2>1, EmailCall DEF E!TypeOK
<1>8. ASSUME ~eCrossed' PROVE SaveSteps'
  <2>1. ~eCrossed /\ \A o \in Call \ {c} : ~E!Due(o, "readLegacy") /\ ~E!Due(o, "store")
    BY <1>1, <1>3, <1>8 DEF E!TypeOK
  <2>2. previous = E!Stored /\ (IF E!Stored = None THEN None ELSE E!Stored.secret) = eStated
    BY <1>1, <2>1 DEF EmailInv, SaveSteps
  <2>3. next.secret = eStated'
    <3>1. next.secret = IF input.clear THEN None
                        ELSE IF E!Kept(input, previous) THEN previous.secret ELSE input.secret
      BY DEF E!Normalized
    <3>2. CASE E!Kept(input, previous)
      <4>1. previous # None /\ ~input.clear
        BY <3>2 DEF E!Kept
      <4> QED BY <1>3, <2>2, <3>1, <3>2, <4>1
    <3>3. CASE ~E!Kept(input, previous)
      BY <1>3, <2>2, <3>1, <3>3
    <3> QED BY <3>2, <3>3
  <2>4. ASSUME NEW o \in Call, NEW what \in {"readLegacy", "store"} PROVE ~E!Due(o, what)'
    <3>1. /\ what \in E!Todo /\ what # doing.todo
          /\ E!Step(c, doing) /\ doing \in E!Doing \cup {None} /\ E!TypeOK
      BY <1>1, <1>3, <1>5 DEF E!Todo
    <3>2. CASE o = c
      BY <3>1, <3>2, EmailCall
    <3>3. CASE o # c
      <4>1. ~E!Due(o, what)
        BY <2>1, <3>3
      <4>2. E!Due(o, what)' <=> E!Due(o, what)
        BY <3>1, <3>3, EmailCall
      <4> QED BY <4>1, <4>2
    <3> QED BY <3>2, <3>3
  <2>5. \A o \in Call : ~E!Due(o, "readLegacy")' /\ ~E!Due(o, "store")'
    BY <2>4
  <2> QED BY <1>4, <1>6, <2>3, <2>5, NoneIsNoSettings DEF SaveSteps
<1> QED BY <1>6, <1>7, <1>8 DEF EmailInv

LEMMA DeletingKeepsSettings ==
  ASSUME EmailInv, NEW c \in Call, E!DeleteLegacy(c) PROVE EmailInv'
<1>1. /\ E!TypeOK /\ E!Due(c, "delete") /\ eRow # None /\ eLegacy' = None /\ E!Step(c, None)
      /\ UNCHANGED <<eRow, eStated, eCrossed>>
  BY DEF EmailInv, E!DeleteLegacy
<1>2. E!Stored' = E!Stored
  BY <1>1 DEF E!Stored
<1> QED BY <1>1, <1>2, EmailCall DEF EmailInv, SaveSteps, E!TypeOK, E!Todo

LEMMA EmailStep == EmailInv /\ [E!Next]_(E!emailVars) => EmailInv'
<1>1. EmailInv /\ UNCHANGED E!emailVars => EmailInv'
  BY DEF E!emailVars, EmailInv, SaveSteps, E!TypeOK, E!Due, E!Stored
<1> QED
  BY <1>1, ReadingKeepsSettings, StoringKeepsSettings, DeletingKeepsSettings DEF E!Next

\* The connector in effect has the secret last stated for it, unless two saves crossed.
THEOREM SecretSurvivesAlways == E!Spec => []SecretSurvives
<1>1. EmailInv => SecretSurvives
  BY DEF EmailInv, SaveSteps, SecretSurvives, E!SecretSurvives
<1> QED BY <1>1, EmailInit, EmailStep, PTL DEF E!Spec

\* The settings and the requests for them keep to their types.
LEMMA EmailSettingsTypes == E!Spec => []E!TypeOK
<1>1. EmailInv => E!TypeOK
  BY DEF EmailInv
<1> QED BY <1>1, EmailInit, EmailStep, PTL DEF E!Spec

-----------------------------------------------------------------------------
\* A finite set of numbers has a greatest one: one more than a set that has one.
LEMMA GreatestNumber ==
  ASSUME NEW S \in SUBSET Nat, IsFiniteSet(S), S # {} PROVE \E n \in S : \A m \in S : m <= n
<1> DEFINE Unbounded(U) == U # {} /\ ~\E n \in U : \A m \in U : m <= n
           Sizes == {k \in Nat : \E U \in SUBSET Nat :
                       IsFiniteSet(U) /\ Cardinality(U) = k /\ Unbounded(U)}
<1>1. SUFFICES ASSUME Unbounded(S) PROVE FALSE
  OBVIOUS
<1>2. Cardinality(S) \in Sizes
  BY <1>1, FS_CardinalityType
<1>3. PICK k \in Sizes : \A j \in Sizes : k <= j
  BY <1>2, LeastNumber
<1>4. PICK U \in SUBSET Nat : IsFiniteSet(U) /\ Cardinality(U) = k /\ Unbounded(U)
  BY <1>3
<1>5. PICK x \in U : TRUE
  BY <1>4
<1>6. IsFiniteSet(U \ {x}) /\ Cardinality(U \ {x}) = k - 1 /\ Cardinality(U \ {x}) \in Nat
  BY <1>4, <1>5, FS_RemoveElement, FS_CardinalityType
<1>7. ~Unbounded(U \ {x})
  <2>1. k - 1 \notin Sizes
    BY <1>3
  <2> QED BY <1>5, <1>6, <2>1
<1>8. CASE U \ {x} = {}
  <2>1. U = {x} /\ x \in Nat
    BY <1>5, <1>8
  <2> QED BY <1>4, <2>1
<1>9. CASE U \ {x} # {}
  <2>1. PICK n \in U \ {x} : \A m \in U \ {x} : m <= n
    BY <1>7, <1>9
  <2>2. n \in Nat /\ x \in Nat /\ \A m \in U : m \in Nat
    BY <1>4, <1>5
  <2>3. \E y \in U : \A m \in U : m <= y
    <3>1. CASE x <= n
      BY <2>1, <2>2, <3>1
    <3>2. CASE n <= x
      <4>1. \A m \in U : m <= x
        BY <2>1, <2>2, <3>2
      <4> QED BY <1>5, <4>1
    <3> QED BY <2>2, <3>1, <3>2
  <2> QED BY <1>4, <2>3
<1> QED BY <1>8, <1>9

(***************************************************************************)
(* DeliveryPricing. The order keeps the parts of its fee, until a runner   *)
(* is selected; two roundings of a product differ by a cent at most.       *)
(***************************************************************************)
Driven == qOrder.distance * qOrder.perKm
Pickups == Q!AdditionalPickups(qOrder.providers) * qOrder.extra

PricingInv ==
  /\ qOrder # None /\ ~qSelected =>
       /\ qOrder.base \in Nat /\ qOrder.fee \in Nat /\ Driven \in Nat /\ Pickups \in Nat
       /\ \E up \in BOOLEAN : qOrder.fee = qOrder.base + Q!Rounded(Driven, up) + Pickups
  /\ qDelivery # None /\ ~qSelected => qOrder # None /\ qDelivery = qOrder.fee

\* A half is rounded up or down.
LEMMA RoundedWithinACent ==
  ASSUME NEW product \in Nat, NEW up \in BOOLEAN, NEW down \in BOOLEAN
  PROVE  Q!Rounded(product, up) \in Nat /\ Q!Rounded(product, up) <= Q!Rounded(product, down) + 1
BY DEF Q!Rounded

LEMMA FarthestIsANumber ==
  ASSUME NEW providers \in (SUBSET Provider) \ {{}}, NEW distance \in [providers -> Distance]
  PROVE  /\ Q!Max({distance[p] : p \in providers}) \in Nat
         /\ Q!AdditionalPickups(providers) \in Nat
<1>1. Distance \subseteq Nat /\ IsFiniteSet(providers)
  <2>1. Distance \subseteq Nat /\ Q!IsFiniteSet(Provider)
    BY ServicesAssumption DEF Q!PricingAssumption
  <2>2. Q!IsFiniteSet(Provider) <=> IsFiniteSet(Provider)
    BY DEF IsFiniteSet, Q!IsFiniteSet
  <2> QED BY <2>1, <2>2, FS_Subset
<1> DEFINE S == {distance[p] : p \in providers}
<1>2. S \in SUBSET Nat /\ S # {} /\ distance \in Surjection(providers, S)
  <2>1. distance \in [providers -> S] /\ \A d \in S : \E p \in providers : distance[p] = d
    OBVIOUS
  <2>2. distance \in Surjection(providers, S)
    BY <2>1, Fun_IsSurj
  <2>3. \A p \in providers : distance[p] \in Nat
    BY <1>1
  <2>4. S # {}
    <3>1. PICK p \in providers : TRUE
      OBVIOUS
    <3> QED BY <3>1
  <2>5. S \in SUBSET Nat
    BY <2>3
  <2> QED BY <2>2, <2>4, <2>5
<1>3. IsFiniteSet(S)
  BY <1>1, <1>2, FS_Surjection
<1>4. \E n \in S : \A m \in S : n >= m
  <2>1. PICK n \in S : \A m \in S : m <= n
    BY <1>2, <1>3, GreatestNumber
  <2>2. \A m \in S : n >= m
    BY <1>2, <2>1
  <2> QED BY <2>2
<1>5. Q!Max(S) \in S
  BY <1>4 DEF Q!Max
<1>6. Q!Cardinality(providers) = Cardinality(providers)
  BY DEF Cardinality, Q!Cardinality
<1> HIDE DEF S
<1>7. Cardinality(providers) \in Nat /\ Cardinality(providers) # 0
  <2>1. Cardinality(providers) \in Nat
    BY <1>1, FS_CardinalityType
  <2>2. Cardinality(providers) = 0 <=> providers = {}
    BY <1>1, FS_EmptySet
  <2>3. providers # {}
    OBVIOUS
  <2> QED BY <2>1, <2>2, <2>3
<1>8. Q!AdditionalPickups(providers) \in Nat
  BY <1>6, <1>7 DEF Q!AdditionalPickups
<1>9. Q!Max(S) \in Nat
  BY <1>2, <1>5
<1> QED BY <1>8, <1>9 DEF S

\* What a checkout keeps is quoted from its parts.
LEMMA QuotingKeepsParts ==
  ASSUME PricingInv, NEW city \in CityFees, NEW providers \in (SUBSET Provider) \ {{}},
         NEW distance \in [providers -> Distance], NEW discovery, NEW service,
         NEW up \in BOOLEAN, Q!CreateOrder(city, distance, discovery, service, up)
  PROVE  PricingInv'
<1> DEFINE farthest == Q!Max({distance[p] : p \in providers})
<1>1. farthest \in Nat /\ Q!AdditionalPickups(providers) \in Nat /\ DOMAIN distance = providers
  BY FarthestIsANumber
<1> HIDE DEF farthest
<1>2. city.base \in Nat /\ city.perKm \in Nat /\ city.extra \in Nat
  BY ServicesAssumption DEF Q!PricingAssumption
<1>3. farthest * city.perKm \in Nat /\ Q!AdditionalPickups(providers) * city.extra \in Nat
  BY <1>1, <1>2
<1>4. /\ qOrder = None /\ UNCHANGED <<qSelected, qDelivery>>
      /\ qOrder' = [providers |-> providers, distance |-> farthest,
                    base |-> city.base, perKm |-> city.perKm, extra |-> city.extra,
                    fee |-> city.base + Q!Rounded(farthest * city.perKm, up)
                            + Q!AdditionalPickups(providers) * city.extra]
  BY <1>1 DEF Q!CreateOrder, Q!Quote, farthest
<1>5. /\ qOrder'.base = city.base /\ Driven' = farthest * city.perKm
      /\ Pickups' = Q!AdditionalPickups(providers) * city.extra
      /\ qOrder'.fee = city.base + Q!Rounded(farthest * city.perKm, up)
                       + Q!AdditionalPickups(providers) * city.extra
  BY <1>4 DEF Driven, Pickups, Q!AdditionalPickups
<1>6. Q!Rounded(farthest * city.perKm, up) \in Nat
  BY <1>3, RoundedWithinACent
<1>7. qOrder'.fee \in Nat
  BY <1>2, <1>3, <1>5, <1>6
<1> QED BY <1>2, <1>3, <1>4, <1>5, <1>7 DEF PricingInv

LEMMA PricingStep == PricingInv /\ [Q!Next]_(Q!pricingVars) => PricingInv'
<1> SUFFICES ASSUME PricingInv, [Q!Next]_(Q!pricingVars) PROVE PricingInv'
  OBVIOUS
<1>1. CASE UNCHANGED Q!pricingVars
  BY <1>1 DEF Q!pricingVars, PricingInv, Driven, Pickups
<1>2. ASSUME NEW fees \in RunnerFee, Q!SelectRunner(fees) PROVE PricingInv'
  BY <1>2 DEF Q!SelectRunner, PricingInv
<1>3. CASE Q!CreateDeliveryOrder
  BY <1>3 DEF Q!CreateDeliveryOrder, PricingInv, Driven, Pickups
<1> QED BY <1>1, <1>2, <1>3, QuotingKeepsParts DEF Q!Next

\* What is asked for a delivery is what the parts shown add up to, but for a cent.
THEOREM PartsAddUpAlways == Q!Spec => []PartsAddUp
<1>1. Q!Init => PricingInv
  BY DEF Q!Init, PricingInv
<1>2. PricingInv => PartsAddUp
  <2> SUFFICES ASSUME PricingInv, qOrder # None, ~qSelected, NEW up \in BOOLEAN
               PROVE  /\ Q!Parts(up) <= qOrder.fee + 1 /\ qOrder.fee <= Q!Parts(up) + 1
                      /\ qDelivery # None => qDelivery = qOrder.fee
    BY DEF PartsAddUp, Q!PartsAddUp, PricingInv
  <2>1. Q!Parts(up) = qOrder.base + Q!Rounded(Driven, up) + Pickups
    BY DEF Q!Parts, Driven, Pickups
  <2>2. PICK other \in BOOLEAN : qOrder.fee = qOrder.base + Q!Rounded(Driven, other) + Pickups
    BY DEF PricingInv
  <2>3. qOrder.base \in Nat /\ Driven \in Nat /\ Pickups \in Nat
    BY DEF PricingInv
  <2>4. /\ Q!Rounded(Driven, up) \in Nat /\ Q!Rounded(Driven, other) \in Nat
        /\ Q!Rounded(Driven, up) <= Q!Rounded(Driven, other) + 1
        /\ Q!Rounded(Driven, other) <= Q!Rounded(Driven, up) + 1
    BY <2>3, RoundedWithinACent
  <2> QED BY <2>1, <2>2, <2>3, <2>4 DEF PricingInv
<1> QED BY <1>1, <1>2, PricingStep, PTL DEF Q!Spec

\* Fees and distances are numbers: no part of a price falls below zero.
LEMMA PricingTypes == Q!Spec => []Q!TypeOK
<1>1. Q!Init => Q!TypeOK
  BY DEF Q!Init, Q!TypeOK
<1>2. Q!TypeOK /\ [Q!Next]_(Q!pricingVars) => Q!TypeOK'
  <2> SUFFICES ASSUME Q!TypeOK, [Q!Next]_(Q!pricingVars) PROVE Q!TypeOK'
    OBVIOUS
  <2>1. CASE UNCHANGED Q!pricingVars
    BY <2>1 DEF Q!pricingVars, Q!TypeOK
  <2>2. ASSUME NEW city \in CityFees, NEW providers \in (SUBSET Provider) \ {{}},
               NEW distance \in [providers -> Distance], NEW discovery, NEW service,
               NEW up \in BOOLEAN, Q!CreateOrder(city, distance, discovery, service, up)
        PROVE  Q!TypeOK'
    <3> DEFINE farthest == Q!Max({distance[p] : p \in providers})
               pickups == Q!AdditionalPickups(providers)
               driven == Q!Rounded(farthest * city.perKm, up)
    <3>1. farthest \in Nat /\ pickups \in Nat /\ DOMAIN distance = providers
      BY FarthestIsANumber
    <3>2. city.base \in Nat /\ city.perKm \in Nat /\ city.extra \in Nat
      BY ServicesAssumption DEF Q!PricingAssumption
    <3>3. /\ qOrder' = [providers |-> providers, distance |-> farthest,
                        base |-> city.base, perKm |-> city.perKm, extra |-> city.extra,
                        fee |-> city.base + driven + pickups * city.extra]
          /\ UNCHANGED <<qSelected, qDelivery>>
      BY <2>2, <3>1 DEF Q!CreateOrder, Q!Quote
    <3> HIDE DEF farthest, pickups
    <3>4. farthest * city.perKm \in Nat /\ pickups * city.extra \in Nat
      BY <3>1, <3>2
    <3>5. driven \in Nat
      BY <3>4, RoundedWithinACent
    <3> HIDE DEF driven
    <3>6. city.base + driven + pickups * city.extra \in Nat
      BY <3>2, <3>4, <3>5
    <3> QED BY <3>1, <3>2, <3>3, <3>6 DEF Q!TypeOK
  <2>3. ASSUME NEW fees \in RunnerFee, Q!SelectRunner(fees) PROVE Q!TypeOK'
    <3>1. fees.base \in Nat /\ fees.perKm \in Nat
      BY ServicesAssumption DEF Q!PricingAssumption
    <3>2. /\ qOrder'.providers = qOrder.providers \/ "providers" \notin DOMAIN qOrder
          /\ TRUE
      BY <2>3 DEF Q!SelectRunner
    <3> QED BY <2>3, <3>1 DEF Q!SelectRunner, Q!TypeOK
  <2>4. CASE Q!CreateDeliveryOrder
    BY <2>4 DEF Q!CreateDeliveryOrder, Q!TypeOK
  <2> QED BY <2>1, <2>2, <2>3, <2>4 DEF Q!Next
<1> QED BY <1>1, <1>2, PTL DEF Q!Spec

-----------------------------------------------------------------------------
(***************************************************************************)
(* PaymentsPage. Every answer, however old, says of a provider order that  *)
(* it is covered only if it is paid or over: what is covered may be over   *)
(* no longer, and from then on that answer is outdated.                    *)
(***************************************************************************)
Over == vPaid \cup vEnded
Right(answer, over) ==
  /\ answer \in V!Answer
  /\ \A po \in ProviderOrder : answer[po] = "covered" => po \in over
RightIfAny(answer, over) == answer = None \/ Right(answer, over)

PageInv ==
  /\ V!TypeOK
  /\ RightIfAny(vOrder, Over) /\ RightIfAny(vAggregate, Over)
  /\ \A l \in Call : vLoad[l] # None => RightIfAny(vLoad[l].seen, Over)

\* What the page keeps of the server's answers.
pageAnswers == <<vOrder, vAggregate, vLoad>>

LEMMA PageInit == V!Init => PageInv
BY DEF V!Init, PageInv, RightIfAny, V!TypeOK

\* The server: a step adds to what is paid or over and leaves the answers.
LEMMA ServerKeeps ==
  ASSUME PageInv, V!TypeOK', UNCHANGED pageAnswers, vPaid \subseteq vPaid', vEnded \subseteq vEnded'
  PROVE  PageInv'
<1>1. Over \subseteq Over'
  BY DEF Over
<1>2. \A answer : RightIfAny(answer, Over) => RightIfAny(answer, Over')
  BY <1>1 DEF RightIfAny, Right
<1> QED BY <1>2 DEF PageInv, pageAnswers

\* An answer of this moment.
LEMMA AnswerOfNow == Right(V!Now, Over)
BY DEF Right, Over, V!Now, V!Payable, V!Answer

\* An answer that is outdated for one provider order is right without it.
LEMMA OutdatedIsRight ==
  ASSUME NEW answer, NEW po \in ProviderOrder, RightIfAny(answer, Over)
  PROVE  RightIfAny(V!Outdated(answer, po), vPaid \cup (vEnded \ {po}))
<1>1. CASE answer = None \/ po \notin vEnded
  BY <1>1 DEF V!Outdated, RightIfAny, Right, Over
<1>2. CASE answer # None /\ po \in vEnded
  <2> DEFINE next == [answer EXCEPT ![po] = IF @ = "covered" THEN "outdated" ELSE @]
  <2>1. answer \in V!Answer /\ V!Outdated(answer, po) = next
    BY <1>2 DEF V!Outdated, RightIfAny, Right
  <2>2. next \in V!Answer
    BY <2>1 DEF V!Answer
  <2>3. ASSUME NEW other \in ProviderOrder, next[other] = "covered"
        PROVE  other \in vPaid \cup (vEnded \ {po})
    <3>1. other # po /\ answer[other] = "covered"
      BY <2>1, <2>3 DEF V!Answer
    <3> QED BY <1>2, <3>1 DEF RightIfAny, Right, Over
  <2> QED BY <2>1, <2>2, <2>3 DEF RightIfAny, Right
<1> QED BY <1>1, <1>2

\* A provider order becomes payable again, whether the session is ready or refused.
LEMMA ReopeningKeeps ==
  ASSUME PageInv, NEW po \in ProviderOrder, V!Activate(po) \/ V!ActivationFails(po)
  PROVE  PageInv'
<1>1. V!Reopens(po) /\ UNCHANGED <<vUnavailable, vPaid, vPreparing>>
  BY DEF V!Activate, V!ActivationFails
<1>2. Over' = vPaid \cup (vEnded \ {po})
  BY <1>1 DEF Over, V!Reopens
<1>3. RightIfAny(vOrder', Over') /\ RightIfAny(vAggregate', Over')
  <2>1. vOrder' = V!Outdated(vOrder, po) /\ vAggregate' = V!Outdated(vAggregate, po)
    BY <1>1 DEF V!Reopens
  <2>2. RightIfAny(vOrder, Over) /\ RightIfAny(vAggregate, Over)
    BY DEF PageInv
  <2> QED BY <1>2, <2>1, <2>2, OutdatedIsRight
<1>4. ASSUME NEW l \in Call
      PROVE  \/ vLoad'[l] = None
             \/ vLoad'[l] \in V!Doing /\ RightIfAny(vLoad'[l].seen, Over')
  <2>1. vLoad'[l] = IF vLoad[l] = None THEN None
                    ELSE [vLoad[l] EXCEPT !.seen = V!Outdated(@, po)]
    BY <1>1 DEF V!Reopens
  <2>2. CASE vLoad[l] # None
    <3>1. vLoad[l] \in V!Doing /\ RightIfAny(vLoad[l].seen, Over)
      BY <2>2 DEF PageInv, V!TypeOK
    <3>2. RightIfAny(V!Outdated(vLoad[l].seen, po), Over')
      BY <1>2, <3>1, OutdatedIsRight
    <3>3. V!Outdated(vLoad[l].seen, po) \in V!Answer \cup {None}
      BY <3>2 DEF RightIfAny, Right
    <3> QED BY <2>1, <2>2, <3>1, <3>2, <3>3 DEF V!Doing
  <2> QED BY <2>1, <2>2
<1>5. V!TypeOK'
  <2>1. vLoad' \in [Call -> V!Doing \cup {None}]
    <3>1. vLoad' = [l \in Call |-> vLoad'[l]]
      BY <1>1 DEF V!Reopens
    <3> QED BY <1>4, <3>1
  <2>2. vPrepared' \subseteq ProviderOrder /\ vEnded' \subseteq ProviderOrder
    BY <1>1 DEF V!Activate, V!ActivationFails, V!Reopens, PageInv, V!TypeOK
  <2>3. vOrder' \in V!Answer \cup {None} /\ vAggregate' \in V!Answer \cup {None}
    BY <1>3 DEF RightIfAny, Right
  <2>4. V!Answer' = V!Answer /\ V!Doing' = V!Doing
    BY DEF V!Answer, V!Doing
  <2> QED BY <1>1, <2>1, <2>2, <2>3, <2>4 DEF PageInv, V!TypeOK
<1> QED BY <1>3, <1>4, <1>5 DEF PageInv

\* A load keeps what it has seen, or sees anew; what it hands over was seen.
LEMMA LoadKeeps ==
  ASSUME PageInv, NEW l \in Call,
         \/ V!GetOrder(l) \/ V!OrderComes(l) \/ V!ReadForAggregate(l) \/ V!PrepareNext(l)
         \/ V!AggregateComes(l) \/ V!AggregateFails(l) \/ V!OrderFails(l)
  PROVE  PageInv'
<1> DEFINE now == V!Now
<1>1. Right(now, Over) /\ now \in V!Answer
  BY AnswerOfNow DEF Right
<1> HIDE DEF now
<1>2. UNCHANGED <<vUnavailable, vPaid, vEnded, vPrepared, vPreparing>>
  BY DEF V!GetOrder, V!OrderComes, V!ReadForAggregate, V!PrepareNext, V!AggregateComes,
     V!AggregateFails, V!OrderFails, V!serverVars
<1>3. Over' = Over
  BY <1>2 DEF Over
<1>4. PICK doing : vLoad' = [vLoad EXCEPT ![l] = doing]
  BY DEF V!GetOrder, V!OrderComes, V!ReadForAggregate, V!PrepareNext, V!AggregateComes,
     V!AggregateFails, V!OrderFails, V!Step
<1>5. vLoad'[l] = None \/ (vLoad'[l] \in V!Doing /\ RightIfAny(vLoad'[l].seen, Over))
  <2>1. vLoad \in [Call -> V!Doing \cup {None}]
    BY DEF PageInv, V!TypeOK
  <2>2. CASE V!GetOrder(l)
    <3>1. vLoad'[l] = [at |-> "order", seen |-> now, left |-> {}]
      BY <2>1, <2>2 DEF V!GetOrder, V!Step, now
    <3> QED BY <1>1, <3>1 DEF V!Doing, RightIfAny
  <2>3. CASE V!ReadForAggregate(l)
    <3>1. \E left \in SUBSET ProviderOrder :
            vLoad'[l] = [at |-> "aggregate", seen |-> now, left |-> left]
      BY <2>1, <2>3 DEF V!ReadForAggregate, V!Step, now
    <3> QED BY <1>1, <3>1 DEF V!Doing, RightIfAny
  <2>4. CASE V!OrderComes(l)
    <3>1. vLoad'[l] = [at |-> "ask", seen |-> None, left |-> {}]
      BY <2>1, <2>4 DEF V!OrderComes, V!Step
    <3> QED BY <3>1 DEF V!Doing, RightIfAny
  <2>5. CASE V!PrepareNext(l)
    <3>1. vLoad[l] \in V!Doing /\ RightIfAny(vLoad[l].seen, Over)
      BY <2>1, <2>5 DEF V!PrepareNext, V!At, PageInv
    <3>2. PICK po \in vLoad[l].left : vLoad'[l] = [vLoad[l] EXCEPT !.left = @ \ {po}]
      BY <2>1, <2>5 DEF V!PrepareNext, V!Step
    <3>3. vLoad[l].left \ {po} \in SUBSET ProviderOrder
      BY <3>1 DEF V!Doing
    <3> QED BY <3>1, <3>2, <3>3 DEF V!Doing
  <2>6. CASE V!AggregateComes(l) \/ V!AggregateFails(l) \/ V!OrderFails(l)
    <3>1. V!Step(l, None)
      BY <2>6 DEF V!AggregateComes, V!AggregateFails, V!OrderFails
    <3> QED BY <2>1, <3>1 DEF V!Step
  <2> QED BY <2>2, <2>3, <2>4, <2>5, <2>6
<1>6. RightIfAny(vOrder', Over) /\ RightIfAny(vAggregate', Over)
  <2>1. V!At(l, "order") \/ V!At(l, "aggregate") => RightIfAny(vLoad[l].seen, Over)
    BY DEF V!At, PageInv
  <2>2. RightIfAny(vOrder, Over) /\ RightIfAny(vAggregate, Over) /\ RightIfAny(None, Over)
    BY DEF PageInv, RightIfAny
  <2> QED
    BY <2>1, <2>2 DEF V!GetOrder, V!OrderComes, V!ReadForAggregate, V!PrepareNext,
       V!AggregateComes, V!AggregateFails, V!OrderFails
<1>7. V!TypeOK'
  <2>1. vLoad' \in [Call -> V!Doing \cup {None}]
    BY <1>4, <1>5 DEF PageInv, V!TypeOK
  <2>2. vOrder' \in V!Answer \cup {None} /\ vAggregate' \in V!Answer \cup {None}
    BY <1>6 DEF RightIfAny, Right
  <2>3. V!Answer' = V!Answer /\ V!Doing' = V!Doing
    BY DEF V!Answer, V!Doing
  <2> QED BY <1>2, <2>1, <2>2, <2>3 DEF PageInv, V!TypeOK
<1>8. \A m \in Call : vLoad'[m] # None => RightIfAny(vLoad'[m].seen, Over)
  BY <1>4, <1>5 DEF PageInv, V!TypeOK
<1> QED
  BY <1>3, <1>6, <1>7, <1>8 DEF PageInv

\* The buttons: a session that comes says of one more that it is payable.
LEMMA ButtonKeeps ==
  ASSUME PageInv,
         \/ \E po \in ProviderOrder : V!Press(po)
         \/ V!ServerPrepares \/ V!SessionComes \/ V!PrepareReturns
  PROVE  PageInv'
<1>1. CASE \E po \in ProviderOrder : V!Press(po)
  <2>1. V!TypeOK'
    BY <1>1 DEF V!Press, PageInv, V!TypeOK, V!serverVars, V!Answer, V!Doing
  <2> QED BY <1>1, <2>1, ServerKeeps DEF V!Press, V!serverVars, pageAnswers
<1>2. CASE V!ServerPrepares
  <2>1. vPreparing \in [po : ProviderOrder, answered : BOOLEAN]
    BY <1>2 DEF V!ServerPrepares, PageInv, V!TypeOK
  <2>2. vPaid' \subseteq ProviderOrder /\ vPrepared' \subseteq ProviderOrder
    BY <1>2, <2>1 DEF V!ServerPrepares, PageInv, V!TypeOK
  <2>3. V!TypeOK'
    BY <1>2, <2>1, <2>2 DEF V!ServerPrepares, PageInv, V!TypeOK, V!Answer, V!Doing
  <2>4. vPaid \subseteq vPaid' /\ vEnded' = vEnded
    BY <1>2 DEF V!ServerPrepares
  <2> QED BY <1>2, <2>3, <2>4, ServerKeeps DEF V!ServerPrepares, pageAnswers
<1>3. CASE V!SessionComes
  <2>1. vPreparing \in [po : ProviderOrder, answered : BOOLEAN]
    BY <1>3 DEF V!SessionComes, PageInv, V!TypeOK
  <2>2. RightIfAny(vAggregate', Over)
    BY <1>3, <2>1 DEF V!SessionComes, PageInv, RightIfAny, Right, V!Answer
  <2>3. UNCHANGED <<vUnavailable, vPaid, vEnded, vPrepared, vOrder, vLoad>> /\ vPreparing' = None
    BY <1>3 DEF V!SessionComes, V!serverVars
  <2>4. vAggregate' \in V!Answer \cup {None}
    BY <2>2 DEF RightIfAny, Right
  <2>5. V!Answer' = V!Answer /\ V!Doing' = V!Doing
    BY DEF V!Answer, V!Doing
  <2>6. V!TypeOK'
    BY <2>3, <2>4, <2>5 DEF PageInv, V!TypeOK
  <2> QED BY <2>2, <2>3, <2>6 DEF PageInv, Over
<1>4. CASE V!PrepareReturns
  <2>1. V!TypeOK'
    BY <1>4 DEF V!PrepareReturns, PageInv, V!TypeOK, V!serverVars, V!Answer, V!Doing
  <2> QED BY <1>4, <2>1, ServerKeeps DEF V!PrepareReturns, V!serverVars, pageAnswers
<1> QED BY <1>1, <1>2, <1>3, <1>4

LEMMA PageStep == PageInv /\ [V!Next]_(V!pageVars) => PageInv'
<1> SUFFICES ASSUME PageInv, [V!Next]_(V!pageVars) PROVE PageInv'
  OBVIOUS
<1> USE DEF V!answers, V!serverVars
<1>1. CASE UNCHANGED V!pageVars
  <2>1. V!TypeOK'
    BY <1>1 DEF V!pageVars, PageInv, V!TypeOK, V!Answer, V!Doing
  <2> QED BY <1>1, <2>1, ServerKeeps DEF V!pageVars, pageAnswers
<1>2. ASSUME NEW po \in ProviderOrder, V!Settle(po) \/ V!End(po) \/ V!SessionExpires(po)
      PROVE  PageInv'
  <2>1. V!TypeOK'
    BY <1>2 DEF V!Settle, V!End, V!SessionExpires, PageInv, V!TypeOK, V!Answer, V!Doing
  <2> QED
    BY <1>2, <2>1, ServerKeeps DEF V!Settle, V!End, V!SessionExpires, pageAnswers
<1> QED BY <1>1, <1>2, ReopeningKeeps, LoadKeeps, ButtonKeeps DEF V!Next

\* The page never shows as covered what has to be paid, but from an answer that was right
\* when it was given and that a late activation has outdated since.
THEOREM CoveredMeansPaidAlways == V!Spec => []CoveredMeansPaid
<1>1. PageInv => CoveredMeansPaid
  BY DEF PageInv, RightIfAny, Right, Over, CoveredMeansPaid, V!CoveredMeansPaid, V!Shown
<1> QED BY <1>1, PageInit, PageStep, PTL DEF V!Spec

\* What the page shows and asks keeps to its types.
LEMMA PageTypes == V!Spec => []V!TypeOK
<1>1. PageInv => V!TypeOK
  BY DEF PageInv
<1> QED BY <1>1, PageInit, PageStep, PTL DEF V!Spec

-----------------------------------------------------------------------------
(***************************************************************************)
(* AccountEmails. The token of a request that has stored it is the one of  *)
(* its kind, or excused; and whatever may clear the token of a kind, a     *)
(* link being used or a code that cannot be sent, has stored the one there *)
(* is, or that one was stored while it was in use.                         *)
(***************************************************************************)
EmailTypes ==
  /\ aToken \in [A!Kind -> Email \cup {None}]
  /\ aCall \in [Email -> A!Calling \cup {None}]
  /\ aArrived \subseteq Email /\ aUsing \subseteq aArrived

Excused(r) ==
  r \in aSpent \cup aCrossed \/ (r \in A!Of("verification") /\ aVerified)

Clears(r) == r \in aUsing \/ (A!At(r, "send") /\ r \in A!Of("otp"))

LinkInv ==
  /\ EmailTypes
  /\ \A r \in aArrived : A!At(r, "done")
  /\ \A kind \in A!Kind : \A r \in A!Of(kind) :
       /\ r \in aArrived \/ A!At(r, "send") => aToken[kind] = r \/ Excused(r)
       /\ Clears(r) => aToken[kind] \in {r, None} \cup aCrossed

LEMMA EmailConstants == None \notin Email /\ None \notin A!Calling
BY ServicesAssumption DEF A!TimesAreNumbers

LEMMA LinkInit == A!Init => LinkInv
<1> SUFFICES ASSUME A!Init PROVE LinkInv
  OBVIOUS
<1>1. EmailTypes
  BY DEF A!Init, EmailTypes
<1>2. \A kind \in A!Kind : A!Of(kind) = {}
  BY DEF A!Init, A!Of
<1> QED BY <1>1, <1>2 DEF LinkInv, A!Init

\* One request changes, as its step says, and the others are where they were.
LEMMA RequestChanges ==
  ASSUME EmailTypes, NEW r \in Email, NEW next \in A!Calling,
         aCall' = [aCall EXCEPT ![r] = next]
  PROVE  /\ aCall' \in [Email -> A!Calling \cup {None}]
         /\ \A kind \in A!Kind : r \in A!Of(kind)' <=> next.kind = kind
         /\ \A step : A!At(r, step)' <=> next.at = step
         /\ \A o \in Email \ {r} : \A step : A!At(o, step)' <=> A!At(o, step)
         /\ \A o \in Email \ {r} : \A kind \in A!Kind : o \in A!Of(kind)' <=> o \in A!Of(kind)
BY EmailConstants DEF EmailTypes, A!At, A!Of

LEMMA RequestGoes ==
  ASSUME EmailTypes, NEW r \in Email, aCall[r] # None,
         NEW step \in {"create", "limit", "save", "send", "done"}, A!Goes(r, step)
  PROVE  \E next \in A!Calling :
           /\ aCall' = [aCall EXCEPT ![r] = next]
           /\ next.at = step /\ next.kind = aCall[r].kind
<1>1. aCall[r] \in A!Calling
  BY DEF EmailTypes
<1>2. [aCall[r] EXCEPT !.at = step] \in A!Calling
  BY <1>1 DEF A!Calling
<1> QED BY <1>1, <1>2 DEF A!Goes, EmailTypes, A!Calling

\* A request asks, is refused or is given up: no token and no link changes.
LEMMA AskingKeepsLinks ==
  ASSUME LinkInv, NEW r \in Email, ~A!At(r, "done"), NEW next \in A!Calling,
         aCall' = [aCall EXCEPT ![r] = next], next.at # "send",
         UNCHANGED <<aToken, aArrived, aUsing, aSpent, aCrossed, aVerified>>
  PROVE  LinkInv'
<1>1. EmailTypes /\ EmailTypes' /\ r \notin aArrived /\ r \notin aUsing
  BY RequestChanges DEF LinkInv, EmailTypes
<1>2. ~A!At(r, "send")'
  BY <1>1, RequestChanges
<1>3. \A o \in aArrived : A!At(o, "done")'
  BY <1>1, RequestChanges DEF LinkInv, EmailTypes
<1>4. ASSUME NEW kind \in A!Kind, NEW o \in Email \ {r}, o \in A!Of(kind)'
      PROVE  /\ o \in aArrived \/ A!At(o, "send")' => aToken[kind] = o \/ Excused(o)'
             /\ Clears(o)' => aToken[kind] \in {o, None} \cup aCrossed
  <2>1. /\ o \in A!Of(kind) /\ (A!At(o, "send")' <=> A!At(o, "send"))
        /\ \A k \in A!Kind : o \in A!Of(k)' <=> o \in A!Of(k)
    BY <1>1, <1>4, RequestChanges
  <2>2. "verification" \in A!Kind /\ "otp" \in A!Kind
    BY DEF A!Kind
  <2> QED BY <2>1, <2>2 DEF LinkInv, Excused, Clears
<1>5. \A kind \in A!Kind : A!Of(kind)' \subseteq Email
  BY DEF A!Of
<1> QED BY <1>1, <1>2, <1>3, <1>4, <1>5 DEF LinkInv, Clears

\* The token replaces the one of its kind.
LEMMA StoringKeepsLinks ==
  ASSUME LinkInv, NEW r \in Email, A!CreateUser(r) \/ A!SaveToken(r) PROVE LinkInv'
<1> DEFINE kind == aCall[r].kind
<1>1. /\ EmailTypes /\ A!Store(r) /\ aCall[r] # None /\ aCall[r] \in A!Calling /\ kind \in A!Kind
      /\ ~A!At(r, "send") /\ ~A!At(r, "done")
  BY DEF LinkInv, EmailTypes, A!CreateUser, A!SaveToken, A!At, A!Calling
<1>2. PICK next \in A!Calling :
        aCall' = [aCall EXCEPT ![r] = next] /\ next.at = "send" /\ next.kind = kind
  BY <1>1, RequestGoes DEF A!Store
<1>3. /\ aToken' = [aToken EXCEPT ![kind] = r]
      /\ aSpent' = aSpent \cup ({aToken[kind]} \ {None})
      /\ aCrossed' = aCrossed \cup
           (IF \/ aUsing \cap A!Of(kind) # {}
               \/ kind = "otp" /\ \E o \in A!Of(kind) : A!At(o, "send")
            THEN {r} ELSE {})
      /\ UNCHANGED <<aVerified, aArrived, aUsing>>
  BY <1>1 DEF A!Store
<1> HIDE DEF kind
<1>4. /\ EmailTypes' /\ r \notin aArrived /\ r \notin aUsing
      /\ aToken'[kind] = r /\ \A k \in A!Kind \ {kind} : aToken'[k] = aToken[k]
  BY <1>1, <1>2, <1>3, RequestChanges DEF LinkInv, EmailTypes
<1>5. \A o \in aArrived' : A!At(o, "done")'
  <2> SUFFICES ASSUME NEW o \in aArrived PROVE A!At(o, "done")'
    BY <1>3
  <2>1. o \in Email \ {r} /\ A!At(o, "done")
    BY <1>1, <1>4 DEF LinkInv, EmailTypes
  <2> QED BY <1>1, <1>2, <2>1, RequestChanges
<1>6. \A k \in A!Kind : r \in A!Of(k)' => k = kind
  BY <1>1, <1>2, RequestChanges
<1>7. ASSUME NEW k \in A!Kind, NEW o \in Email \ {r}, o \in A!Of(k)'
      PROVE  /\ o \in aArrived' \/ A!At(o, "send")' => aToken'[k] = o \/ Excused(o)'
             /\ Clears(o)' => aToken'[k] \in {o, None} \cup aCrossed'
  <2>1. /\ o \in A!Of(k) /\ (A!At(o, "send")' <=> A!At(o, "send"))
        /\ \A j \in A!Kind : o \in A!Of(j)' <=> o \in A!Of(j)
    BY <1>1, <1>2, <1>7, RequestChanges
  <2>2. "verification" \in A!Kind /\ "otp" \in A!Kind
    BY DEF A!Kind
  <2>3. Excused(o) => Excused(o)'
    BY <1>3, <2>1, <2>2 DEF Excused
  <2>4. Clears(o)' <=> Clears(o)
    BY <1>3, <2>1, <2>2 DEF Clears
  <2>5. CASE k # kind
    BY <1>3, <1>4, <2>1, <2>3, <2>4, <2>5 DEF LinkInv
  <2>6. CASE k = kind
    <3>1. aToken[k] = o => o \in aSpent'
      BY <1>3, <2>6, EmailConstants
    <3>2. o \in aArrived' \/ A!At(o, "send")' => Excused(o)'
      BY <1>3, <2>1, <2>3, <3>1 DEF LinkInv, Excused
    <3>3. Clears(o) => r \in aCrossed'
      <4>1. A!At(o, "send") /\ o \in A!Of("otp") => kind = "otp"
        BY <1>1, <2>1, <2>6 DEF A!Of
      <4> QED BY <1>3, <2>1, <2>6, <4>1 DEF Clears
    <3> QED BY <1>4, <2>4, <2>6, <3>2, <3>3
  <2> QED BY <2>5, <2>6
<1>8. \A k \in A!Kind : A!Of(k)' \subseteq Email
  BY DEF A!Of
<1> QED BY <1>4, <1>5, <1>6, <1>7, <1>8 DEF LinkInv

\* The e-mail is sent, or its sending fails and a code is cleared.
LEMMA SendingKeepsLinks ==
  ASSUME LinkInv, NEW r \in Email, A!Send(r) \/ A!SendFails(r) PROVE LinkInv'
<1>1. EmailTypes /\ A!At(r, "send") /\ aCall[r] # None /\ aCall[r] \in A!Calling /\ A!Goes(r, "done")
  BY DEF LinkInv, EmailTypes, A!Send, A!SendFails, A!At
<1>2. PICK next \in A!Calling :
        aCall' = [aCall EXCEPT ![r] = next] /\ next.at = "done" /\ next.kind = aCall[r].kind
  BY <1>1, RequestGoes
<1>3. r \notin aArrived /\ r \notin aUsing
  BY <1>1 DEF LinkInv, EmailTypes, A!At
<1>4. UNCHANGED <<aUsing, aSpent, aCrossed, aVerified>> /\ aArrived' \subseteq aArrived \cup {r}
      /\ aArrived \subseteq aArrived'
  BY DEF A!Send, A!SendFails, A!UserKept, A!LinksKept
<1>5. \A k \in A!Kind :
        \/ aToken'[k] = aToken[k]
        \/ r \in A!Of(k) /\ k = "otp" /\ aToken'[k] = None /\ r \notin aArrived'
  BY <1>1, <1>3 DEF A!Send, A!SendFails, A!UserKept, A!LinksKept, A!ClearedOnFailure, A!Of, EmailTypes
<1>6. EmailTypes'
  <2>1. aToken' \in [A!Kind -> Email \cup {None}]
    BY <1>1 DEF A!Send, A!SendFails, A!UserKept, EmailTypes
  <2> QED BY <1>1, <1>2, <1>4, <2>1, RequestChanges DEF EmailTypes
<1>7. /\ A!At(r, "done")' /\ ~A!At(r, "send")'
      /\ \A k \in A!Kind : r \in A!Of(k)' <=> r \in A!Of(k)
  <2>1. \A k \in A!Kind : r \in A!Of(k) <=> next.kind = k
    BY <1>1, <1>2 DEF A!Of
  <2>2. \A k \in A!Kind : r \in A!Of(k)' <=> next.kind = k
    BY <1>1, <1>2, RequestChanges
  <2>3. A!At(r, "done")' /\ ~A!At(r, "send")'
    BY <1>1, <1>2, RequestChanges
  <2> QED BY <2>1, <2>2, <2>3
<1>8. \A o \in Email \ {r} :
        /\ (A!At(o, "done")' <=> A!At(o, "done")) /\ (A!At(o, "send")' <=> A!At(o, "send"))
        /\ \A k \in A!Kind : o \in A!Of(k)' <=> o \in A!Of(k)
  BY <1>1, <1>2, RequestChanges
<1>9. \A o \in aArrived' : A!At(o, "done")'
  BY <1>1, <1>4, <1>7, <1>8 DEF LinkInv, EmailTypes
<1>10. "verification" \in A!Kind /\ "otp" \in A!Kind
  BY DEF A!Kind
<1>11. ASSUME NEW k \in A!Kind, NEW o \in Email, o \in A!Of(k)'
       PROVE  /\ o \in aArrived' \/ A!At(o, "send")' => aToken'[k] = o \/ Excused(o)'
              /\ Clears(o)' => aToken'[k] \in {o, None} \cup aCrossed'
  <2>1. o \in A!Of(k) /\ (o \in aArrived' \/ A!At(o, "send")' => o \in aArrived \/ A!At(o, "send"))
    BY <1>1, <1>4, <1>7, <1>8, <1>11
  <2>2. Excused(o)' = Excused(o) /\ (Clears(o)' => Clears(o))
    BY <1>4, <1>7, <1>8, <1>10 DEF Excused, Clears
  <2>3. CASE aToken'[k] = aToken[k]
    BY <1>4, <2>1, <2>2, <2>3 DEF LinkInv
  <2>4. CASE r \in A!Of(k) /\ k = "otp" /\ aToken'[k] = None /\ r \notin aArrived'
    <3>1. aToken[k] \in {r, None} \cup aCrossed
      BY <1>1, <2>4 DEF LinkInv, Clears
    <3>2. o # r /\ aToken[k] = o => Excused(o)
      BY <3>1, EmailConstants DEF Excused
    <3>3. ~(r \in aArrived' \/ A!At(r, "send")')
      BY <1>7, <2>4
    <3> QED BY <1>4, <2>1, <2>2, <2>4, <3>2, <3>3 DEF LinkInv
  <2> QED BY <1>5, <2>3, <2>4
<1>12. \A k \in A!Kind : A!Of(k)' \subseteq Email
  BY DEF A!Of
<1> QED BY <1>6, <1>9, <1>11, <1>12 DEF LinkInv

\* A link or code that came is found, and used or not.
LEMMA UsingKeepsLinks ==
  ASSUME LinkInv, NEW r \in Email, A!FindToken(r) \/ A!Use(r) \/ A!UseFails(r) PROVE LinkInv'
<1>1. EmailTypes /\ r \in aArrived /\ UNCHANGED <<aCall, aArrived, aCrossed>>
  BY DEF LinkInv, EmailTypes, A!FindToken, A!Use, A!UseFails
<1> DEFINE kind == aCall[r].kind
<1>2. kind \in A!Kind /\ r \in A!Of(kind)
  <2>1. aCall[r] # None /\ aCall[r] \in A!Calling
    BY <1>1, EmailConstants DEF LinkInv, EmailTypes, A!At
  <2> QED BY <1>1, <2>1 DEF A!Of, A!Calling
<1>3. /\ \A k \in A!Kind : A!Of(k)' = A!Of(k)
      /\ \A o \in Email : (A!At(o, "send")' <=> A!At(o, "send")) /\ (A!At(o, "done")' <=> A!At(o, "done"))
  BY <1>1 DEF A!Of, A!At
<1>4. "verification" \in A!Kind /\ "otp" \in A!Kind
  BY DEF A!Kind
<1>5. CASE A!FindToken(r)
  <2>1. aToken[kind] = r /\ aUsing' = aUsing \cup {r} /\ UNCHANGED <<aToken, aSpent, aVerified>>
    BY <1>5 DEF A!FindToken, A!UserKept
  <2>2. \A o \in Email : Excused(o)' = Excused(o)
    BY <1>1, <1>3, <1>4, <2>1 DEF Excused
  <2>3. \A o \in Email \ {r} : Clears(o)' = Clears(o)
    BY <1>1, <1>3, <1>4, <2>1 DEF Clears
  <2>4. \A k \in A!Kind : r \in A!Of(k) => k = kind
    BY DEF A!Of
  <2>5. \A k \in A!Kind : A!Of(k) \subseteq Email
    BY DEF A!Of
  <2> HIDE DEF kind
  <2> QED BY <1>1, <1>2, <1>3, <2>1, <2>2, <2>3, <2>4, <2>5 DEF LinkInv, EmailTypes
<1>6. CASE A!Use(r)
  <2>1. /\ r \in aUsing /\ aUsing' = aUsing \ {r} /\ aSpent' = aSpent \cup {r}
        /\ aToken' = [aToken EXCEPT ![kind] = None] /\ (aVerified => aVerified')
    BY <1>6 DEF A!Use
  <2>2. aToken[kind] \in {r, None} \cup aCrossed
    BY <1>2, <2>1 DEF LinkInv, Clears
  <2>3. \A o \in Email : (Excused(o) => Excused(o)') /\ (Clears(o)' => Clears(o))
    BY <1>1, <1>3, <1>4, <2>1 DEF Excused, Clears
  <2>4. \A k \in A!Kind : A!Of(k) \subseteq Email
    BY DEF A!Of
  <2>5. \A o \in Email : aToken[kind] = o => Excused(o)'
    BY <1>1, <2>1, <2>2, EmailConstants DEF Excused
  <2>6. /\ EmailTypes' /\ aToken'[kind] = None
        /\ \A k \in A!Kind \ {kind} : aToken'[k] = aToken[k]
    BY <1>1, <1>2, <2>1 DEF EmailTypes
  <2> HIDE DEF kind
  <2> QED BY <1>1, <1>2, <1>3, <2>3, <2>4, <2>5, <2>6 DEF LinkInv, EmailTypes
<1>7. CASE A!UseFails(r)
  <2>1. aUsing' = aUsing \ {r} /\ UNCHANGED <<aToken, aSpent, aVerified>>
    BY <1>7 DEF A!UseFails, A!UserKept
  <2>2. \A o \in Email : (Excused(o) => Excused(o)') /\ (Clears(o)' => Clears(o))
    BY <1>1, <1>3, <1>4, <2>1 DEF Excused, Clears
  <2>3. \A k \in A!Kind : A!Of(k) \subseteq Email
    BY DEF A!Of
  <2> QED BY <1>1, <1>3, <2>1, <2>2, <2>3 DEF LinkInv, EmailTypes
<1> QED BY <1>5, <1>6, <1>7

LEMMA LinkStep == LinkInv /\ [A!Next]_(A!emailVars) => LinkInv'
<1> SUFFICES ASSUME LinkInv, [A!Next]_(A!emailVars) PROVE LinkInv'
  OBVIOUS
<1>1. CASE A!Tick \/ UNCHANGED A!emailVars
  BY <1>1 DEF A!Tick, A!UserKept, A!LinksKept, A!emailVars, LinkInv, EmailTypes, Excused, Clears,
              A!At, A!Of
<1>2. ASSUME NEW r \in Email, NEW kind \in A!Kind,
             A!Register(r) \/ A!Ask(r, kind) \/ A!AssertEmailRateLimit(r) \/ A!Abandon(r)
      PROVE  LinkInv'
  <2>1. EmailTypes /\ UNCHANGED <<aToken, aArrived, aUsing, aSpent, aCrossed, aVerified>>
    BY <1>2 DEF LinkInv, A!Register, A!Ask, A!AssertEmailRateLimit, A!Abandon, A!UserKept, A!LinksKept
  <2>2. CASE A!Register(r) \/ A!Ask(r, kind)
    <3>1. PICK k \in A!Kind, step \in {"create", "limit"} :
            aCall' = [aCall EXCEPT ![r] = [kind |-> k, at |-> step]]
      BY <2>2 DEF A!Register, A!Ask, A!Kind
    <3>2. aCall[r] = None /\ [kind |-> k, at |-> step] \in A!Calling
      BY <2>2 DEF A!Register, A!Ask, A!Calling
    <3>3. ~A!At(r, "send") /\ ~A!At(r, "done")
      BY <3>2 DEF A!At
    <3> QED BY <2>1, <3>1, <3>2, <3>3, AskingKeepsLinks
  <2>3. CASE A!AssertEmailRateLimit(r)
    <3>1. PICK step \in {"done", "save"} : A!Goes(r, step)
      BY <2>3 DEF A!AssertEmailRateLimit
    <3>2. aCall[r] # None /\ ~A!At(r, "send") /\ ~A!At(r, "done")
      BY <2>3 DEF A!AssertEmailRateLimit, A!At
    <3> QED BY <2>1, <3>1, <3>2, RequestGoes, AskingKeepsLinks
  <2>4. CASE A!Abandon(r)
    <3>1. aCall[r] # None /\ A!Goes(r, "done") /\ ~A!At(r, "done")
      BY <2>4 DEF A!Abandon
    <3> QED BY <2>1, <3>1, RequestGoes, AskingKeepsLinks
  <2> QED BY <1>2, <2>2, <2>3, <2>4
<1>3. "otp" \in A!Kind
  BY DEF A!Kind
<1> QED
  BY <1>1, <1>2, <1>3, StoringKeepsLinks, SendingKeepsLinks, UsingKeepsLinks DEF A!Next

\* What reaches the owner works until it expires, is used or replaced, but for those excused.
THEOREM LinksWorkAlways == A!Spec => []LinksWork
<1>1. LinkInv => LinksWork
  <2> SUFFICES ASSUME LinkInv, NEW kind \in A!Kind, NEW r \in aArrived \cap A!Of(kind)
               PROVE  \/ aToken[kind] = r
                      \/ r \in aSpent \cup aCrossed
                      \/ kind = "verification" /\ aVerified
    BY DEF LinksWork, A!LinksWork
  <2>1. r \in A!Of("verification") => kind = "verification"
    BY DEF A!Of
  <2> QED BY <2>1 DEF LinkInv, Excused
<1> QED BY <1>1, LinkInit, LinkStep, PTL DEF A!Spec

\* Tokens, times and requests keep to their types.
LEMMA AccountEmailTypes == A!Spec => []A!TypeOK
<1> DEFINE Rest ==
      /\ aClock \in 0..MaxTime /\ aAccount \in BOOLEAN /\ aVerified \in BOOLEAN
      /\ aLast \in 0..MaxTime \cup {None} /\ aExpires \in [A!Kind -> Nat]
      /\ aPassword \in Email \cup {None} /\ aSpent \subseteq Email /\ aCrossed \subseteq Email
<1>1. LinkInv /\ Rest => A!TypeOK
  BY DEF LinkInv, EmailTypes, A!TypeOK
<1>2. A!Init => Rest
  <2>1. 0 \in 0..MaxTime
    BY ServicesAssumption DEF A!TimesAreNumbers
  <2> QED BY <2>1 DEF A!Init
<1>3. LinkInv /\ Rest /\ [A!Next]_(A!emailVars) => Rest'
  <2> SUFFICES ASSUME LinkInv, Rest, [A!Next]_(A!emailVars) PROVE Rest'
    OBVIOUS
  <2> USE DEF A!UserKept, A!LinksKept
  <2>0. EmailTypes
    BY DEF LinkInv
  <2>1. CASE UNCHANGED A!emailVars
    BY <2>1 DEF A!emailVars
  <2>2. CASE A!Tick
    BY <2>2, ServicesAssumption DEF A!Tick, A!TimesAreNumbers
  <2>3. ASSUME NEW r \in Email,
               \/ A!Register(r) \/ A!AssertEmailRateLimit(r) \/ \E kind \in A!Kind : A!Ask(r, kind)
               \/ A!Send(r) \/ A!SendFails(r) \/ A!Abandon(r) \/ A!FindToken(r) \/ A!UseFails(r)
        PROVE  Rest'
    BY <2>3 DEF A!Register, A!AssertEmailRateLimit, A!Ask, A!Send, A!SendFails, A!Abandon,
                A!FindToken, A!UseFails
  <2>4. ASSUME NEW r \in Email, A!CreateUser(r) \/ A!SaveToken(r) PROVE Rest'
    <3>1. aCall[r].kind \in A!Kind
      BY <2>0, <2>4 DEF A!CreateUser, A!SaveToken, A!At, EmailTypes, A!Calling
    <3>2. aClock + Lifetime[aCall[r].kind] \in Nat
      BY <3>1, ServicesAssumption DEF A!TimesAreNumbers
    <3>3. aSpent' \subseteq Email /\ aCrossed' \subseteq Email
      BY <2>0, <2>4, <3>1 DEF A!CreateUser, A!SaveToken, A!Store, EmailTypes
    <3>4. aExpires' \in [A!Kind -> Nat]
      BY <2>4, <3>2 DEF A!CreateUser, A!SaveToken, A!Store
    <3> QED BY <2>4, <3>3, <3>4 DEF A!CreateUser, A!SaveToken, A!Store
  <2>5. ASSUME NEW r \in Email, A!Use(r) PROVE Rest'
    BY <2>5 DEF A!Use
  <2> QED BY <2>1, <2>2, <2>3, <2>4, <2>5 DEF A!Next
<1> HIDE DEF Rest
<1> QED BY <1>1, <1>2, <1>3, LinkInit, LinkStep, PTL DEF A!Spec

-----------------------------------------------------------------------------
(***************************************************************************)
(* LiveMap. Whatever is shown, the effect is due to run, or its last       *)
(* request is for what is shown, or the answer to that request was taken.  *)
(***************************************************************************)
MapTypes ==
  /\ mStatus \in M!Status
  /\ mRead \in 0..MaxPosition /\ mHandling \subseteq 1..MaxPosition
  /\ mLoad \in [status : M!Status \cup {None}, location : {M!Stored, None}] \cup {None}
  /\ mPosition \in M!Place

MapInv ==
  /\ MapTypes
  /\ mOpen /\ mLoaded /\ ~mDue => mAsked = M!Start \/ (mAsked = None /\ mRoute = M!Start)

LEMMA MapConstants ==
  /\ MaxPosition \in Nat /\ None \notin M!Place
  /\ M!Initial \in M!Place /\ M!Origin \in M!Place /\ M!Stored \in M!Place
  /\ 0..MaxPosition \subseteq M!Place /\ 1..MaxPosition \subseteq M!Place
BY ServicesAssumption
   DEF M!PositionsAreNumbers, M!Place, M!Initial, M!Origin, M!Stored

LEMMA MapInit == M!Init => MapInv
BY MapConstants DEF M!Init, MapInv, MapTypes, M!Status

\* Nothing of what the route depends on changes.
LEMMA MapKept ==
  ASSUME MapInv, MapTypes', UNCHANGED <<mLoaded, mPosition, mTraced, mDue, mAsked, mRoute>>,
         mOpen' => mOpen
  PROVE  MapInv'
BY DEF MapInv, M!Start

\* The position, or what else a projection starts from, changes: the effect is due.
LEMMA MapShows == ASSUME MapTypes', mDue' PROVE MapInv'
BY DEF MapInv

LEMMA MapStep == MapInv /\ [M!Next]_(M!mapVars) => MapInv'
<1> SUFFICES ASSUME MapInv, [M!Next]_(M!mapVars) PROVE MapInv'
  OBVIOUS
<1> USE DEF M!DeliveryKept, M!GatewayKept, M!PageKept, M!WatchKept, M!ShownKept, M!RouteKept
<1>1. MapTypes
  BY DEF MapInv
<1>2. CASE UNCHANGED M!mapVars
  BY <1>1, <1>2, MapKept DEF M!mapVars, MapTypes
<1>3. CASE M!Advance \/ M!Lift \/ M!JoinOrder \/ M!LoseConnection \/ M!ToggleTracking \/ M!WatchFails
  BY <1>1, <1>3, MapKept
     DEF M!Advance, M!Lift, M!JoinOrder, M!LoseConnection, M!ToggleTracking, M!WatchFails, MapTypes, M!Status
<1>4. ASSUME NEW located \in BOOLEAN, NEW failed \in BOOLEAN, M!GetTracking(located, failed)
      PROVE  MapInv'
  <2>1. mLoad' \in [status : M!Status \cup {None}, location : {M!Stored, None}]
    BY <1>1, <1>4 DEF M!GetTracking, MapTypes
  <2>2. MapTypes'
    BY <1>1, <1>4, <2>1 DEF M!GetTracking, MapTypes
  <2> QED BY <1>4, <2>2, MapKept DEF M!GetTracking
<1>5. CASE M!UpdateLocation
  <2>1. mRead' \in 1..MaxPosition /\ mRead' \in 0..MaxPosition
    BY <1>1, <1>5, MapConstants DEF M!UpdateLocation, MapTypes
  <2>2. mHandling' \subseteq 1..MaxPosition /\ mLoad' = mLoad /\ mStatus' = mStatus
    BY <1>1, <1>5, <2>1 DEF M!UpdateLocation, MapTypes
  <2>3. mPosition' \in {mPosition, mRead'}
    BY <1>5 DEF M!UpdateLocation
  <2>4. MapTypes'
    BY <1>1, <2>1, <2>2, <2>3, MapConstants DEF MapTypes
  <2> QED BY <1>5, <2>4, MapKept, MapShows DEF M!UpdateLocation
<1>6. ASSUME NEW at \in mHandling, M!Broadcast(at) \/ M!Refuse(at) PROVE MapInv'
  <2>1. mPosition' \in {mPosition, at} /\ mHandling' \subseteq mHandling /\ UNCHANGED <<mStatus, mRead, mLoad>>
    BY <1>6 DEF M!Broadcast, M!Refuse
  <2>2. at \in M!Place
    BY <1>1, MapConstants DEF MapTypes
  <2>3. MapTypes'
    BY <1>1, <2>1, <2>2 DEF MapTypes
  <2> QED BY <1>6, <2>3, MapKept, MapShows DEF M!Broadcast, M!Refuse
<1>7. CASE M!MapDataComes
  <2>1. mPosition' \in M!Place /\ mLoad' = None /\ mDue' /\ UNCHANGED <<mStatus, mRead, mHandling>>
    BY <1>1, <1>7, MapConstants DEF M!MapDataComes, MapTypes
  <2> QED BY <1>1, <2>1, MapShows DEF MapTypes
<1>8. CASE M!ProjectRoute
  BY <1>1, <1>8 DEF M!ProjectRoute, MapInv, MapTypes, M!Start
<1>9. CASE M!RouteComes
  BY <1>1, <1>9 DEF M!RouteComes, MapInv, MapTypes, M!Start
<1>10. ASSUME NEW start \in mCancelled, M!CancelledComes(start) PROVE MapInv'
  BY <1>1, <1>10, MapKept DEF M!CancelledComes, M!ShowsCancelled, MapTypes
<1>11. CASE M!Leave
  BY <1>1, <1>11 DEF M!Leave, MapInv, MapTypes
<1> QED BY <1>2, <1>3, <1>4, <1>5, <1>6, <1>7, <1>8, <1>9, <1>10, <1>11 DEF M!Next

\* The route is of what the map shows once the last projection has been answered.
THEOREM RouteIsOfShownAlways == M!Spec => []RouteIsOfShown
<1>1. MapInv => RouteIsOfShown
  <2>1. MapInv => M!Start \in M!Place
    BY MapConstants DEF MapInv, MapTypes, M!Start
  <2> QED BY <2>1, MapConstants DEF MapInv, RouteIsOfShown, M!RouteIsOfShown
<1> QED BY <1>1, MapInit, MapStep, PTL DEF M!Spec

\* What the map shows and asks keeps to its types.
LEMMA LiveMapTypes == M!Spec => []M!TypeOK
<1> DEFINE Rest ==
      /\ mLimited \in BOOLEAN /\ mViewer \in {"client", "runner"} /\ mOpen \in BOOLEAN
      /\ mJoined \in BOOLEAN /\ mLoaded \in BOOLEAN /\ mTracking \in M!Status \cup {None}
      /\ mButton \in BOOLEAN /\ mWatched \in BOOLEAN /\ mLeaked \in BOOLEAN
      /\ mTraced \in BOOLEAN /\ mDue \in BOOLEAN
      /\ mAsked \in M!Place \cup {None} /\ mCancelled \subseteq M!Place
      /\ mRoute \in M!Place \cup {None}
<1>1. MapInv /\ Rest => M!TypeOK
  BY DEF MapInv, MapTypes, M!TypeOK
<1>2. M!Init => Rest
  BY DEF M!Init
<1>3. MapInv /\ Rest /\ [M!Next]_(M!mapVars) => Rest'
  <2> SUFFICES ASSUME MapInv, Rest, [M!Next]_(M!mapVars) PROVE Rest'
    OBVIOUS
  <2> USE DEF M!DeliveryKept, M!GatewayKept, M!PageKept, M!WatchKept, M!ShownKept, M!RouteKept
  <2>1. CASE UNCHANGED M!mapVars
    BY <2>1 DEF M!mapVars
  <2>2. CASE M!Advance \/ M!Lift
    <3>1. CASE M!Advance
      <4>1. UNCHANGED <<mLimited, mViewer, mOpen, mJoined, mLoaded, mTracking, mButton>>
        BY <3>1 DEF M!Advance
      <4>2. UNCHANGED <<mWatched, mLeaked, mTraced, mDue, mAsked, mCancelled, mRoute>>
        BY <3>1 DEF M!Advance
      <4> QED BY <4>1, <4>2
    <3>2. CASE M!Lift
      <4>1. mLimited' \in BOOLEAN
        BY <3>2 DEF M!Lift
      <4>2. UNCHANGED <<mViewer, mOpen, mJoined, mLoaded, mTracking, mButton>>
        BY <3>2 DEF M!Lift
      <4>3. UNCHANGED <<mWatched, mLeaked, mTraced, mDue, mAsked, mCancelled, mRoute>>
        BY <3>2 DEF M!Lift
      <4> QED BY <4>1, <4>2, <4>3
    <3> QED BY <2>2, <3>1, <3>2
  <2>3. CASE M!JoinOrder \/ M!LoseConnection \/ M!WatchFails
    <3>1. mJoined' \in BOOLEAN /\ mButton' \in BOOLEAN
      BY <2>3 DEF M!JoinOrder, M!LoseConnection, M!WatchFails
    <3> QED BY <2>3, <3>1 DEF M!JoinOrder, M!LoseConnection, M!WatchFails
  <2>4. CASE M!ToggleTracking
    <3>1. mButton' \in BOOLEAN /\ mWatched' \in BOOLEAN /\ mLeaked' \in BOOLEAN
      BY <2>4 DEF M!ToggleTracking
    <3> QED BY <2>4, <3>1 DEF M!ToggleTracking
  <2>5. CASE M!UpdateLocation
    <3>1. mDue' \in BOOLEAN
      BY <2>5 DEF M!UpdateLocation
    <3> QED BY <2>5, <3>1 DEF M!UpdateLocation
  <2>6. ASSUME NEW located \in BOOLEAN, NEW failed \in BOOLEAN, M!GetTracking(located, failed)
         PROVE  Rest'
    BY <2>6 DEF M!GetTracking
  <2>7. ASSUME NEW at \in mHandling, M!Broadcast(at) \/ M!Refuse(at) PROVE Rest'
    <3>1. mTraced' \in BOOLEAN /\ mDue' \in BOOLEAN
      BY <2>7 DEF M!Broadcast, M!Refuse
    <3> QED BY <2>7, <3>1 DEF M!Broadcast, M!Refuse
  <2>8. CASE M!MapDataComes
    <3>1. mLoad.status \in M!Status \cup {None}
      BY <2>8 DEF M!MapDataComes, MapInv, MapTypes
    <3> QED BY <2>8, <3>1 DEF M!MapDataComes
  <2>9. CASE M!ProjectRoute
    <3>1. M!Start \in M!Place
      BY MapConstants DEF MapInv, MapTypes, M!Start
    <3>2. /\ mAsked' \in M!Place \cup {None} /\ mRoute' \in M!Place \cup {None}
          /\ mCancelled' \subseteq M!Place /\ mDue' \in BOOLEAN
      BY <2>9, <3>1 DEF M!ProjectRoute
    <3>3. /\ UNCHANGED <<mLimited, mViewer, mOpen, mJoined, mLoaded, mTracking, mButton>>
          /\ UNCHANGED <<mWatched, mLeaked, mTraced>>
      BY <2>9 DEF M!ProjectRoute
    <3> QED BY <3>2, <3>3
  <2>10. CASE M!RouteComes \/ M!Leave
    <3>1. CASE M!RouteComes
      <4>1. mRoute' \in M!Place \cup {None} /\ mAsked' \in M!Place \cup {None}
        BY <3>1 DEF M!RouteComes
      <4>2. UNCHANGED <<mLimited, mViewer, mOpen, mJoined, mLoaded, mTracking, mButton>>
        BY <3>1 DEF M!RouteComes
      <4>3. UNCHANGED <<mWatched, mLeaked, mTraced, mDue, mCancelled>>
        BY <3>1 DEF M!RouteComes
      <4> QED BY <4>1, <4>2, <4>3
    <3>2. CASE M!Leave
      <4>1. /\ mOpen' \in BOOLEAN /\ mJoined' \in BOOLEAN /\ mWatched' \in BOOLEAN
            /\ mCancelled' \subseteq M!Place /\ mAsked' \in M!Place \cup {None}
        BY <3>2 DEF M!Leave
      <4>2. UNCHANGED <<mLimited, mViewer, mLoaded, mTracking, mButton>>
        BY <3>2 DEF M!Leave
      <4>3. UNCHANGED <<mLeaked, mTraced, mDue, mRoute>>
        BY <3>2 DEF M!Leave
      <4> QED BY <4>1, <4>2, <4>3
    <3> QED BY <2>10, <3>1, <3>2
  <2>11. ASSUME NEW start \in mCancelled, M!CancelledComes(start) PROVE Rest'
    BY <2>11 DEF M!CancelledComes, M!ShowsCancelled
  <2> QED BY <2>1, <2>2, <2>3, <2>4, <2>5, <2>6, <2>7, <2>8, <2>9, <2>10, <2>11 DEF M!Next
<1> HIDE DEF Rest
<1> QED BY <1>1, <1>2, <1>3, MapInit, MapStep, PTL DEF M!Spec

-----------------------------------------------------------------------------
(***************************************************************************)
(* DemoDataset. What the documents say of it is not so (claim_demo_repair  *)
(* shows why); what a run writes keeps to its types all the same.          *)
(***************************************************************************)
\* The dataset and the run that seeds it keep to their types.
LEMMA DatasetTypes == N!Spec => []N!TypeOK
<1>1. N!Init => N!TypeOK
  <2>1. Len(Seeding) \in Nat
    BY ServicesAssumption DEF N!StepsAreSeeded
  <2>2. 0 \in 0..Len(Seeding)
    BY <2>1
  <2> QED BY <2>2, Zenon DEF N!Init, N!TypeOK
<1>2. N!TypeOK /\ [N!Next]_(N!demoVars) => N!TypeOK'
  <2> SUFFICES ASSUME N!TypeOK, [N!Next]_(N!demoVars) PROVE N!TypeOK'
    OBVIOUS
  <2> USE DEF N!TypeOK, N!End
  <2>1. Len(Seeding) \in Nat /\ N!Found \in {"nothing", "part", "whole"}
    BY ServicesAssumption DEF N!StepsAreSeeded, N!Found
  <2>2. CASE UNCHANGED N!demoVars
    BY <2>2 DEF N!demoVars
  <2>3. CASE N!Boot
    BY <2>1, <2>3 DEF N!Boot, N!Running
  <2>4. ASSUME NEW by \in {"seed", "reset"}, NEW actor \in {"demo", "other"},
               N!RequestSeeding(by, actor)
        PROVE  N!TypeOK'
    BY <2>1, <2>4 DEF N!RequestSeeding, N!Running
  <2>5. CASE N!EnsureDemoAdmin \/ N!DecideSeeding \/ N!CleanupDemoData
    <3>1. nRun \in N!Running /\ 0 \in 0..Len(Seeding)
      BY <2>1, <2>5 DEF N!EnsureDemoAdmin, N!DecideSeeding, N!CleanupDemoData, N!At
    <3>2. CASE N!EnsureDemoAdmin
      <4>1. nRun' \in N!Running
        BY <3>1, <3>2 DEF N!EnsureDemoAdmin, N!Running
      <4> QED BY <3>2, <4>1 DEF N!EnsureDemoAdmin
    <3>3. CASE N!DecideSeeding
      <4>1. nRun' \in N!Running
        BY <3>1, <3>3 DEF N!DecideSeeding, N!Running
      <4> QED BY <3>3, <4>1 DEF N!DecideSeeding
    <3>4. CASE N!CleanupDemoData
      <4>1. nRun' \in N!Running
        <5>1. nRun' = [nRun EXCEPT !.at = "seed",
                                   !.actor = IF nRun.actor = "demo" THEN "gone" ELSE nRun.actor]
          BY <3>1, <3>4 DEF N!CleanupDemoData, N!Running
        <5>2. (IF nRun.actor = "demo" THEN "gone" ELSE nRun.actor) \in {"demo", "other", "gone"}
          BY <3>1 DEF N!Running
        <5> QED BY <3>1, <5>1, <5>2 DEF N!Running
      <4>2. nAdmin' = FALSE /\ nProgress' = 0 /\ nStale' = FALSE /\ nEnded' = nEnded
        BY <3>4 DEF N!CleanupDemoData
      <4> QED BY <3>1, <4>1, <4>2, Zenon
    <3> QED BY <2>5, <3>2, <3>3, <3>4
  <2>6. CASE N!SeedStep
    BY <2>1, <2>6 DEF N!SeedStep
  <2>7. CASE \/ N!LeaveAlone \/ N!RegisterDemoAdmin \/ N!ActorIsGone \/ N!Seeded \/ N!Interrupt
             \/ N!ChangePassword
    BY <2>7 DEF N!LeaveAlone, N!RegisterDemoAdmin, N!ActorIsGone, N!Seeded, N!Interrupt,
                N!ChangePassword
  <2> QED BY <2>2, <2>3, <2>4, <2>5, <2>6, <2>7 DEF N!Next
<1> QED BY <1>1, <1>2, PTL DEF N!Spec

-----------------------------------------------------------------------------
(***************************************************************************)
(* The services together. Whichever of them runs, the others keep their    *)
(* variables: every behaviour of the system is one of each service, so     *)
(* what the sections above prove holds of the system.                      *)
(***************************************************************************)
\* A step of the system is a step of the service that runs, and the others keep their rows.
LEMMA FocusedSteps ==
  ASSUME Next
  PROVE  /\ OthersKeep
         /\ focus = "delivery" => DeliveryNext
         /\ focus = "fulfilment" => FulfilmentNext
         /\ focus = "donations" => DonationNext
         /\ focus = "roles" => RolesNext
         /\ focus = "incidents" => I!Next
         /\ focus = "risk" => K!Next
         /\ focus = "cart" => C!Next
         /\ focus = "guest" => G!Next
         /\ focus = "catalogue" => O!Next
         /\ focus = "accounts" => P!Next
         /\ focus = "tracking" => T!Next
         /\ focus = "email" => E!Next
         /\ focus = "pricing" => Q!Next
         /\ focus = "page" => V!Next
         /\ focus = "demo" => N!Next
         /\ focus = "emails" => A!Next
         /\ focus = "map" => M!Next
BY DEF Next

LEMMA EachServiceSteps ==
  [Next]_vars =>
    /\ [DeliveryNext]_deliveryVars /\ [FulfilmentNext]_fulfilmentVars
    /\ [DonationNext]_donationVars /\ [RolesNext]_roleVars
    /\ [I!Next]_(I!incidentVars) /\ [K!Next]_(K!riskVars) /\ [C!Next]_(C!cartVars)
    /\ [G!Next]_(G!guestVars) /\ [O!Next]_(O!catalogueVars) /\ [P!Next]_(P!accountVars)
    /\ [T!Next]_(T!trackingVars) /\ [E!Next]_(E!emailVars) /\ [Q!Next]_(Q!pricingVars)
    /\ [V!Next]_(V!pageVars) /\ [N!Next]_(N!demoVars) /\ [A!Next]_(A!emailVars)
    /\ [M!Next]_(M!mapVars)
<1> SUFFICES ASSUME [Next]_vars
             PROVE  /\ [DeliveryNext]_deliveryVars /\ [FulfilmentNext]_fulfilmentVars
                    /\ [DonationNext]_donationVars /\ [RolesNext]_roleVars
                    /\ [I!Next]_iVars /\ [K!Next]_kVars /\ [C!Next]_cVars /\ [G!Next]_gVars
                    /\ [O!Next]_oVars /\ [P!Next]_pVars /\ [T!Next]_tVars /\ [E!Next]_eVars
                    /\ [Q!Next]_qVars /\ [V!Next]_vVars /\ [N!Next]_nVars /\ [A!Next]_aVars
                    /\ [M!Next]_mVars
  BY DEF iVars, kVars, cVars, gVars, oVars, pVars, tVars, eVars, qVars, vVars, nVars, aVars, mVars,
         I!incidentVars, K!riskVars, C!cartVars, G!guestVars, G!authVars, G!cartVars, G!history,
         O!catalogueVars, P!accountVars, T!trackingVars, E!emailVars, Q!pricingVars, V!pageVars,
         V!serverVars, V!answers,
         N!demoVars, A!emailVars, M!mapVars
<1>1. CASE UNCHANGED vars
  BY <1>1 DEF vars
<1>2. CASE Next
  BY <1>2, FocusedSteps DEF OthersKeep, Still
<1> QED BY <1>1, <1>2

\* A behaviour of the collection is one of each service: all of it or none of it moves.
LEMMA EachServiceRuns ==
  Spec => /\ DeliverySpec /\ FulfilmentSpec /\ DonationSpec /\ RolesSpec /\ I!Spec /\ K!Spec
          /\ C!Spec /\ G!Spec /\ O!Spec /\ P!Spec /\ T!Spec /\ E!Spec /\ Q!Spec /\ V!Spec
          /\ N!Spec /\ A!Spec /\ M!Spec
<1>1. Init => /\ DeliveryInit /\ FulfilmentInit /\ DonationInit /\ RolesInit /\ I!Init /\ K!Init
              /\ C!Init /\ G!Init /\ O!Init /\ P!Init /\ T!Init /\ E!Init /\ Q!Init /\ V!Init
              /\ N!Init /\ A!Init /\ M!Init
  BY DEF Init
<1> QED
  BY <1>1, EachServiceSteps, PTL
     DEF Spec, DeliverySpec, FulfilmentSpec, DonationSpec, RolesSpec, I!Spec, K!Spec, C!Spec,
         G!Spec, O!Spec, P!Spec, T!Spec, E!Spec, Q!Spec, V!Spec, N!Spec, A!Spec, M!Spec

\* The rows, requests and pages of the service that runs keep to their types.
THEOREM TypesAlways == Spec => []TypeOK
<1> DEFINE All ==
      /\ DeliveryTypeOK /\ FulfilmentTypeOK /\ DonationTypeOK /\ RolesTypeOK /\ I!TypeOK
      /\ K!TypeOK /\ C!TypeOK /\ G!TypeOK /\ O!TypeOK /\ P!TypeOK /\ T!TypeOK /\ E!TypeOK
      /\ Q!TypeOK /\ V!TypeOK /\ N!TypeOK /\ A!TypeOK /\ M!TypeOK
<1>1. Spec => []All
  BY EachServiceRuns, DeliveryTypes, FulfilmentTypes, DonationTypes, RolesTypes, IncidentTypes,
     RiskTypes, CartTypesAlways, GuestTypesAlways, CatalogueTypes, PaymentAccountTypes,
     TrackingTypes, EmailSettingsTypes, PricingTypes, PageTypes, DatasetTypes,
     AccountEmailTypes, LiveMapTypes, PTL
<1>2. Spec => [](focus \in Service)
  <2>1. Init => focus \in Service
    BY DEF Init
  <2>2. focus \in Service /\ [Next]_vars => (focus \in Service)'
    BY FocusedSteps DEF vars, OthersKeep
  <2> QED BY <2>1, <2>2, PTL DEF Spec
<1>3. All /\ focus \in Service => TypeOK
  BY DEF TypeOK, Service
<1> HIDE DEF All
<1> QED BY <1>1, <1>2, <1>3, PTL
=============================================================================
