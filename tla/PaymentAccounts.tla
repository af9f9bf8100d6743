--------------------------- MODULE PaymentAccounts ---------------------------
(***************************************************************************)
(* How a provider or a runner comes to have a Stripe account: the account  *)
(* is made at Stripe, written to the User, then to the PaymentAccount of   *)
(* the role; the return from Stripe verifies it. Every statement is one of *)
(* its own, so requests overlap and stop between any two.                  *)
(***************************************************************************)
EXTENDS FiniteSets, Naturals

CONSTANTS
  Account,  \* the accounts that Stripe may make
  Call,     \* the user's requests that may overlap
  None      \* null: no account, no request, a user of neither role

VARIABLES
  roles,            \* of the User, as far as payments go
  stripeAccountId,  \* of the User
  account,          \* externalAccountId by owner type: the PaymentAccount rows
  created,          \* Stripe: the accounts made for the user
  submitted,        \* Stripe: those with details_submitted
  call,             \* what a request is about to do
  troubled          \* history: two requests made an account at once, or one stopped between
                    \* the making and the last row

accountVars == <<roles, stripeAccountId, account, created, submitted, call, troubled>>

OwnerType == {"PROVIDER", "RUNNER"}
Onboarding ==
  [at : {"create", "save", "retrieve", "activate"}, type : OwnerType \cup {None},
   id : Account \cup {None}]

\* Assumed of every instance.
NoneIsNoAccount == None \notin Account \cup Onboarding

Init ==
  /\ roles \in SUBSET OwnerType
  /\ stripeAccountId = None /\ account = [t \in OwnerType |-> None]
  /\ created = {} /\ submitted = {}
  /\ call = [c \in Call |-> None] /\ troubled = FALSE

\* resolvePaymentAccountOwnerType(): a provider's account comes before a runner's.
ResolvedType ==
  IF "PROVIDER" \in roles THEN "PROVIDER" ELSE IF "RUNNER" \in roles THEN "RUNNER" ELSE None

At(c, place) == IF call[c] = None THEN FALSE ELSE call[c].at = place
Making == {c \in Call : At(c, "create") \/ At(c, "save")}
Step(c, request) == call' = [call EXCEPT ![c] = request]

-----------------------------------------------------------------------------
\* Mutant of Registered: what is looked for is the row of the role.
RegisteredInRole == IF ResolvedType = None THEN FALSE ELSE account[ResolvedType] # None

\* A user who has an account only gets a link to it.
Registered == stripeAccountId # None

GenerateOnboardingLink(c) ==
  /\ call[c] = None /\ ~Registered
  /\ Step(c, [at |-> "create", type |-> ResolvedType, id |-> None])
  /\ troubled' = (troubled \/ Making # {})
  /\ UNCHANGED <<roles, stripeAccountId, account, created, submitted>>

\* accounts.create has no idempotency key: each call makes another account.
CreateAccount(c) ==
  /\ At(c, "create")
  /\ \E a \in Account \ created :
       /\ created' = created \cup {a}
       /\ Step(c, [call[c] EXCEPT !.at = "save", !.id = a])
  /\ UNCHANGED <<roles, stripeAccountId, account, submitted, troubled>>

SaveAccountId(c) ==
  /\ At(c, "save")
  /\ stripeAccountId' = call[c].id
  /\ Step(c, IF call[c].type = None THEN None ELSE [call[c] EXCEPT !.at = "activate"])
  /\ UNCHANGED <<roles, account, created, submitted, troubled>>

\* verifyAndSaveConnectedAccount() reads the user, then asks Stripe for the account.
VerifyConnectedAccount(c) ==
  /\ call[c] = None /\ stripeAccountId # None
  /\ Step(c, [at |-> "retrieve", type |-> ResolvedType, id |-> stripeAccountId])
  /\ UNCHANGED <<roles, stripeAccountId, account, created, submitted, troubled>>

RetrieveAccount(c) ==
  /\ At(c, "retrieve") /\ call[c].id \in submitted
  /\ Step(c, IF call[c].type = None THEN None ELSE [call[c] EXCEPT !.at = "activate"])
  /\ UNCHANGED <<roles, stripeAccountId, account, created, submitted, troubled>>

\* upsert(): an account is of one row only, so that a runner who became a provider fails.
ActivatePaymentAccount(c) ==
  LET r == call[c] IN
  /\ At(c, "activate")
  /\ account' = IF \E t \in OwnerType \ {r.type} : account[t] = r.id THEN account
                ELSE [account EXCEPT ![r.type] = r.id]
  /\ Step(c, None)
  /\ UNCHANGED <<roles, stripeAccountId, created, submitted, troubled>>

\* Stripe or the database fails, or the process stops.
Interrupt(c) ==
  /\ call[c] # None /\ Step(c, None)
  /\ troubled' = (troubled \/ At(c, "save"))
  /\ UNCHANGED <<roles, stripeAccountId, account, created, submitted>>

\* The user fills in the form behind the link.
SubmitDetails(a) ==
  /\ a \in created \ submitted /\ submitted' = submitted \cup {a}
  /\ UNCHANGED <<roles, stripeAccountId, account, created, call, troubled>>

RolesChange ==
  /\ \E r \in (SUBSET OwnerType) \ {roles} : roles' = r
  /\ UNCHANGED <<stripeAccountId, account, created, submitted, call, troubled>>

Next ==
  \/ RolesChange \/ \E a \in Account : SubmitDetails(a)
  \/ \E c \in Call :
       \/ GenerateOnboardingLink(c) \/ CreateAccount(c) \/ SaveAccountId(c)
       \/ VerifyConnectedAccount(c) \/ RetrieveAccount(c) \/ ActivatePaymentAccount(c)
       \/ Interrupt(c)

Spec == Init /\ [][Next]_accountVars

-----------------------------------------------------------------------------
TypeOK ==
  /\ roles \subseteq OwnerType /\ stripeAccountId \in Account \cup {None}
  /\ account \in [OwnerType -> Account \cup {None}]
  /\ created \subseteq Account /\ submitted \subseteq created
  /\ call \in [Call -> Onboarding \cup {None}] /\ troubled \in BOOLEAN

\* A user has one account at Stripe, and every payment row names it, whatever roles come
\* and go and whichever requests are cut short: only requests that make an account at once,
\* or one that stops before the account is written to the user, can leave a second.
OneAccount ==
  ~troubled =>
    /\ Cardinality(created) <= 1
    /\ \A t \in OwnerType : account[t] \in {None, stripeAccountId}
=============================================================================
