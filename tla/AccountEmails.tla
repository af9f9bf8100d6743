---------------------------- MODULE AccountEmails ----------------------------
(***************************************************************************)
(* The links and codes that are e-mailed to the owner of one account: to   *)
(* verify the address, to reset the password, to set up a second factor.   *)
(* A request looks the user up, looks when the last e-mail was asked for,  *)
(* stores its token and sends it, each with a statement of its own; a link *)
(* is looked up and used up by two more. Each request makes one token,     *)
(* which carries its name. Sessions and the factor itself are left out.    *)
(***************************************************************************)
EXTENDS Integers

CONSTANTS
  Request,    \* requests for an e-mail
  Interval,   \* the 90 seconds between two e-mails of an account
  Lifetime,   \* of the tokens of each kind
  MaxTime,    \* bound on the clock
  None        \* null, or nothing yet

Kind == {"verification", "reset", "otp"}
Calling == [kind : Kind, at : {"create", "limit", "save", "send", "done"}]

\* Assumed of every instance.
TimesAreNumbers ==
  /\ Interval \in Nat /\ MaxTime \in Nat /\ Lifetime \in [Kind -> Nat]
  /\ None \notin Request \cup Calling

VARIABLES
  clock,
  account, emailVerified, lastEmailSentAt,  \* the row of the user
  token, expiresAt,   \* verificationToken, resetPasswordTokenHash, mfaSetupToken; until when
  password,           \* the request by whose link it was last reset
  call,               \* each request: its kind and where it is
  arrived,            \* requests whose e-mail was sent
  using,              \* requests whose link or code was found and is being used
  spent, crossed      \* history: used or replaced; stored while an older one was in use

emailVars ==
  <<clock, account, emailVerified, lastEmailSentAt, token, expiresAt, password, call,
    arrived, using, spent, crossed>>

\* The account is not there yet, or is one that was verified long ago.
Init ==
  /\ clock = 0 /\ account \in BOOLEAN /\ emailVerified = account /\ lastEmailSentAt = None
  /\ token = [k \in Kind |-> None] /\ expiresAt = [k \in Kind |-> 0]
  /\ password = None /\ call = [r \in Request |-> None]
  /\ arrived = {} /\ using = {} /\ spent = {} /\ crossed = {}

At(r, place) == IF call[r] = None THEN FALSE ELSE call[r].at = place
Of(kind) == {r \in Request : IF call[r] = None THEN FALSE ELSE call[r].kind = kind}
Goes(r, place) == call' = [call EXCEPT ![r].at = place]
UserKept == UNCHANGED <<account, emailVerified, lastEmailSentAt, token, expiresAt, password>>
LinksKept == UNCHANGED <<arrived, using, spent, crossed>>

\* Mutant of ClearedOnFailure: any link that cannot be sent is taken away.
ClearedWhateverKind == Kind

\* Kinds whose token is taken away again when its e-mail cannot be sent.
ClearedOnFailure == {"otp"}

-----------------------------------------------------------------------------
\* register() looks whether the address is taken before it hashes the password.
Register(r) ==
  /\ call[r] = None /\ ~account
  /\ call' = [call EXCEPT ![r] = [kind |-> "verification", at |-> "create"]]
  /\ UserKept /\ LinksKept /\ UNCHANGED clock

\* An address that is verified is answered as any other; codes are for who is signed in.
Ask(r, kind) ==
  /\ call[r] = None /\ account
  /\ kind = "verification" => ~emailVerified
  /\ kind = "otp" => emailVerified
  /\ call' = [call EXCEPT ![r] = [kind |-> kind, at |-> "limit"]]
  /\ UserKept /\ LinksKept /\ UNCHANGED clock

TooSoon == IF lastEmailSentAt = None THEN FALSE ELSE clock - lastEmailSentAt < Interval

\* assertEmailRateLimit()
AssertEmailRateLimit(r) ==
  /\ At(r, "limit") /\ Goes(r, IF TooSoon THEN "done" ELSE "save")
  /\ UserKept /\ LinksKept /\ UNCHANGED clock

\* The token replaces the one of its kind, whatever has become of the account.
Store(r) ==
  LET kind == call[r].kind IN
  /\ token' = [token EXCEPT ![kind] = r]
  /\ expiresAt' = [expiresAt EXCEPT ![kind] = clock + Lifetime[kind]]
  /\ lastEmailSentAt' = clock
  /\ spent' = spent \cup ({token[kind]} \ {None})
  /\ crossed' = crossed \cup
       (IF \/ using \cap Of(kind) # {}
           \/ kind = "otp" /\ \E o \in Of(kind) : At(o, "send")
        THEN {r} ELSE {})
  /\ Goes(r, "send")
  /\ UNCHANGED <<clock, emailVerified, password, arrived, using>>

CreateUser(r) == At(r, "create") /\ ~account /\ account' = TRUE /\ Store(r)

SaveToken(r) == At(r, "save") /\ Store(r) /\ UNCHANGED account

Send(r) ==
  /\ At(r, "send") /\ arrived' = arrived \cup {r} /\ Goes(r, "done")
  /\ UserKept /\ UNCHANGED <<clock, using, spent, crossed>>

\* The mail server refuses: only a code is cleared, and whichever is stored.
SendFails(r) ==
  /\ At(r, "send") /\ Goes(r, "done")
  /\ token' = [k \in Kind |->
       IF k \in ClearedOnFailure /\ k = call[r].kind THEN None ELSE token[k]]
  /\ UNCHANGED <<clock, account, emailVerified, lastEmailSentAt, expiresAt, password>>
  /\ LinksKept

\* A refusal of the database, the address that was taken meanwhile, or a crash.
Abandon(r) ==
  /\ call[r] # None /\ ~At(r, "done") /\ Goes(r, "done")
  /\ UserKept /\ LinksKept /\ UNCHANGED clock

-----------------------------------------------------------------------------
\* The owner opens a link or types a code that came.
FindToken(r) ==
  /\ r \in arrived \ using
  /\ token[call[r].kind] = r /\ expiresAt[call[r].kind] >= clock
  /\ using' = using \cup {r}
  /\ UserKept /\ UNCHANGED <<clock, call, arrived, spent, crossed>>

\* The update names the user, not the token that was found.
Use(r) ==
  /\ r \in using
  /\ token' = [token EXCEPT ![call[r].kind] = None]
  /\ emailVerified' = (emailVerified \/ call[r].kind = "verification")
  /\ password' = IF call[r].kind = "reset" THEN r ELSE password
  /\ using' = using \ {r} /\ spent' = spent \cup {r}
  /\ UNCHANGED <<clock, account, lastEmailSentAt, expiresAt, call, arrived, crossed>>

UseFails(r) ==
  /\ r \in using /\ using' = using \ {r}
  /\ UserKept /\ UNCHANGED <<clock, call, arrived, spent, crossed>>

Tick == clock < MaxTime /\ clock' = clock + 1 /\ UserKept /\ LinksKept /\ UNCHANGED call

Next ==
  \/ Tick
  \/ \E r \in Request :
       \/ Register(r) \/ CreateUser(r) \/ AssertEmailRateLimit(r) \/ SaveToken(r)
       \/ \E kind \in Kind : Ask(r, kind)
       \/ Send(r) \/ SendFails(r) \/ Abandon(r) \/ FindToken(r) \/ Use(r) \/ UseFails(r)

Spec == Init /\ [][Next]_emailVars

-----------------------------------------------------------------------------
TypeOK ==
  /\ clock \in 0..MaxTime /\ account \in BOOLEAN /\ emailVerified \in BOOLEAN
  /\ lastEmailSentAt \in 0..MaxTime \cup {None}
  /\ token \in [Kind -> Request \cup {None}] /\ expiresAt \in [Kind -> Nat]
  /\ password \in Request \cup {None}
  /\ call \in [Request -> Calling \cup {None}]
  /\ arrived \subseteq Request /\ using \subseteq arrived
  /\ spent \subseteq Request /\ crossed \subseteq Request

\* What reaches the owner works until it expires, is used or is replaced by a newer request,
\* although other e-mails fail and the kinds share one limit; but for a token stored while an
\* older one was being used or the sending of an older code could fail, which both clear
\* whatever is stored, and for an address that is verified already.
LinksWork ==
  \A kind \in Kind : \A r \in arrived \cap Of(kind) :
    \/ token[kind] = r
    \/ r \in spent \cup crossed
    \/ kind = "verification" /\ emailVerified
=============================================================================
