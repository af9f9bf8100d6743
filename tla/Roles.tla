-------------------------------- MODULE Roles --------------------------------
(***************************************************************************)
(* The roles of the users: a user asks for one, administrators grant and   *)
(* revoke. The column holds the whole set and is written as a whole, so a  *)
(* request holds the lock of the user's row from before it reads the set   *)
(* until it has written it and the audit entry that tells of the change.   *)
(***************************************************************************)
EXTENDS StateMachine

CONSTANTS
  User,
  Request,   \* requests that may be in flight
  Null       \* null: no role; no request; no user

ASSUME NullIsNothing == Null \notin User \cup Request \cup Role

VARIABLES
  roles,      \* User.roles
  requested,  \* User.requestedRole, whose roleStatus is APPROVED
  recent,     \* the users whose requestedAt is within the cooldown
  ledger,     \* the roles that the audit log, replayed, says a user has
  task        \* what a request is to do and what it has read, or Null

roleVars == <<roles, requested, recent, ledger, task>>

Requestable == {"PROVIDER", "RUNNER"}
Kind == {"request", "grant", "revoke"}

Task == [kind : Kind, user : User, role : Role, seen : SUBSET Role]

RolesInit ==
  /\ roles \in {f \in [User -> {{"CLIENT"}, {"ADMIN"}}] : \E u \in User : f[u] = {"ADMIN"}}
  /\ requested = [u \in User |-> Null] /\ recent = {}
  /\ ledger = roles
  /\ task = [q \in Request |-> Null]

\* Mutant of Free: nobody waits for the lock of the user.
FreeAlways(u) == TRUE

\* SELECT ... FOR UPDATE returns: no request in flight holds the row.
Free(u) == \A q \in Request : task[q] # Null => task[q].user # u

\* An administrator does not revoke their own ADMIN; users ask for themselves.
Begin(q, kind, actor, u, role) ==
  /\ task[q] = Null /\ Free(u)
  /\ IF kind = "request" THEN actor = u /\ role \in Requestable
     ELSE "ADMIN" \in roles[actor] /\ ~(kind = "revoke" /\ role = "ADMIN" /\ actor = u)
  /\ task' = [task EXCEPT ![q] = [kind |-> kind, user |-> u, role |-> role, seen |-> roles[u]]]
  /\ UNCHANGED <<roles, requested, recent, ledger>>

\* A conflict, a request within the cooldown, or a rollback.
Refuse(q) ==
  /\ task[q] # Null
  /\ task' = [task EXCEPT ![q] = Null]
  /\ UNCHANGED <<roles, requested, recent, ledger>>

Audit(u, set) == ledger' = [ledger EXCEPT ![u] = set]

\* Granting what the user has is no error and changes nothing but the log.
Keep(q) ==
  LET t == task[q] IN
  /\ t # Null
  /\ \/ t.kind = "grant" /\ t.role \in t.seen /\ Audit(t.user, ledger[t.user] \cup {t.role})
     \/ t.kind = "revoke" /\ t.role \notin t.seen /\ Audit(t.user, ledger[t.user] \ {t.role})
  /\ task' = [task EXCEPT ![q] = Null]
  /\ UNCHANGED <<roles, requested, recent>>

\* assignRoleInTx(), which approves a PROVIDER or a RUNNER on the spot.
Assign(q) ==
  LET t == task[q] IN
  /\ t # Null /\ t.kind \in {"request", "grant"} /\ t.role \notin t.seen
  /\ t.kind = "request" => t.user \notin recent
  /\ roles' = [roles EXCEPT ![t.user] = t.seen \cup {t.role}]
  /\ IF t.role \in Requestable
       THEN /\ requested' = [requested EXCEPT ![t.user] = t.role]
            /\ recent' = recent \cup {t.user}
       ELSE UNCHANGED <<requested, recent>>
  /\ Audit(t.user, ledger[t.user] \cup {t.role})
  /\ task' = [task EXCEPT ![q] = Null]

Withdrawn(u, role) == role \in Requestable /\ requested[u] = role

MayLose(seen, role) == role \in seen /\ seen # {role}

Revoke(q) ==
  LET t == task[q] IN
  /\ t # Null /\ t.kind = "revoke" /\ MayLose(t.seen, t.role)
  /\ roles' = [roles EXCEPT ![t.user] = t.seen \ {t.role}]
  /\ IF Withdrawn(t.user, t.role)
       THEN /\ requested' = [requested EXCEPT ![t.user] = Null]
            /\ recent' = recent \ {t.user}
       ELSE UNCHANGED <<requested, recent>>
  /\ Audit(t.user, ledger[t.user] \ {t.role})
  /\ task' = [task EXCEPT ![q] = Null]

CooldownEnds(u) ==
  /\ u \in recent
  /\ recent' = recent \ {u}
  /\ UNCHANGED <<roles, requested, ledger, task>>

RolesNext ==
  \/ \E q \in Request :
       \/ \E kind \in Kind, actor, u \in User, role \in Role : Begin(q, kind, actor, u, role)
       \/ Refuse(q) \/ Keep(q) \/ Assign(q) \/ Revoke(q)
  \/ \E u \in User : CooldownEnds(u)

RolesSpec == RolesInit /\ [][RolesNext]_roleVars

-----------------------------------------------------------------------------
\* The types; in particular every user keeps a role.
RolesTypeOK ==
  /\ roles \in [User -> (SUBSET Role) \ {{}}] /\ ledger \in [User -> SUBSET Role]
  /\ requested \in [User -> Requestable \cup {Null}]
  /\ recent \subseteq User
  /\ task \in [Request -> Task \cup {Null}]

\* The roles of a user are those the audit log tells of: of requests that overlap none
\* undoes what another has written, though each writes the whole set.
AuditTellsRoles == \A u \in User : roles[u] = ledger[u]

\* A role that is shown as approved is held, whoever else changes the roles meanwhile.
ApprovedIsHeld == \A u \in User : requested[u] # Null => requested[u] \in roles[u]
=============================================================================
