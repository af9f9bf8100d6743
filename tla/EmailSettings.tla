---------------------------- MODULE EmailSettings ----------------------------
(***************************************************************************)
(* Where the connector that sends e-mails is configured: a row of          *)
(* SystemSetting, the row of an older version, or the environment. Saving  *)
(* reads the settings in effect, to keep a secret that is not stated       *)
(* anew, writes the row and then deletes the old one, each in a statement  *)
(* of its own.                                                             *)
(***************************************************************************)
CONSTANTS
  Secret,  \* passwords, or secret access keys
  Call,    \* saves that may overlap
  None     \* null: no row, no secret, no save

VARIABLES
  row, legacy,  \* EMAIL_CONNECTOR_CONFIG; EMAIL_SMTP_CONFIG, which is of SMTP
  call,         \* what a save has done
  stated,       \* history: the secret last stated while the connector was of its kind
  crossed       \* history: a save stored its row while another had read and not stored

emailVars == <<row, legacy, call, stated, crossed>>

Connector == {"SMTP", "AWS_SES"}
Settings == [connector : Connector, secret : Secret \cup {None}]

\* Assumed of every instance.
NoneIsNoSecret == None \notin Secret \cup Settings

Input == [connector : Connector, secret : Secret \cup {None}, clear : BOOLEAN]

Todo == {"readLegacy", "store", "delete"}
Doing == [todo : Todo, input : Input, previous : Settings \cup {None}]

Init ==
  /\ row = None
  /\ legacy \in {None} \cup {s \in Settings : s.connector = "SMTP"}
  /\ call = [c \in Call |-> None]
  /\ stated = IF legacy = None THEN None ELSE legacy.secret
  /\ crossed = FALSE

\* getStoredSettings(), of one moment.
Stored == IF row # None THEN row ELSE legacy

Due(c, what) == IF call[c] = None THEN FALSE ELSE call[c].todo = what
Step(c, doing) == call' = [call EXCEPT ![c] = doing]

\* What is not stated anew is kept, if it is of the same connector.
Kept(input, previous) ==
  /\ ~input.clear /\ input.secret = None
  /\ IF previous = None THEN FALSE ELSE previous.connector = input.connector

Normalized(input, previous) ==
  [connector |-> input.connector,
   secret |-> IF input.clear THEN None
              ELSE IF Kept(input, previous) THEN previous.secret ELSE input.secret]

-----------------------------------------------------------------------------
\* Mutant of ReadRow: a secret that is not stated is kept from the new row only.
ReadRowOnly(c, input) ==
  /\ call[c] = None
  /\ Step(c, [todo |-> "store", input |-> input, previous |-> row])
  /\ UNCHANGED <<row, legacy, stated, crossed>>

\* getStoredSettings(): the row, and if there is none, the older one.
ReadRow(c, input) ==
  /\ call[c] = None
  /\ Step(c, [todo |-> IF row = None THEN "readLegacy" ELSE "store", input |-> input,
              previous |-> row])
  /\ UNCHANGED <<row, legacy, stated, crossed>>

ReadLegacy(c) ==
  /\ Due(c, "readLegacy")
  /\ Step(c, [call[c] EXCEPT !.todo = "store", !.previous = legacy])
  /\ UNCHANGED <<row, legacy, stated, crossed>>

\* Amazon's connector is refused without its secret.
StoreRow(c) ==
  /\ Due(c, "store")
  /\ LET next == Normalized(call[c].input, call[c].previous) IN
     row' = next /\ (next.connector = "AWS_SES" => next.secret # None)
  /\ stated' = IF Kept(call[c].input, Stored) THEN stated
               ELSE IF call[c].input.clear THEN None ELSE call[c].input.secret
  /\ crossed' = (crossed \/ \E o \in Call \ {c} : Due(o, "readLegacy") \/ Due(o, "store"))
  /\ Step(c, [call[c] EXCEPT !.todo = "delete"])
  /\ UNCHANGED legacy

DeleteLegacy(c) ==
  /\ Due(c, "delete")
  /\ legacy' = None /\ Step(c, None)
  /\ UNCHANGED <<row, stated, crossed>>

\* A refusal, an error, or a crash.
Stop(c) ==
  /\ call[c] # None /\ Step(c, None)
  /\ UNCHANGED <<row, legacy, stated, crossed>>

Next ==
  \E c \in Call :
    \/ \E input \in Input : ReadRow(c, input)
    \/ ReadLegacy(c) \/ StoreRow(c) \/ DeleteLegacy(c) \/ Stop(c)

Spec == Init /\ [][Next]_emailVars

-----------------------------------------------------------------------------
TypeOK ==
  /\ row \in Settings \cup {None} /\ legacy \in Settings \cup {None}
  /\ call \in [Call -> Doing \cup {None}]
  /\ stated \in Secret \cup {None} /\ crossed \in BOOLEAN

\* A save never loses the settings, wherever it stops: the connector in effect has the
\* secret that was last stated for it, unless two saves crossed.
SecretSurvives ==
  ~crossed => (IF Stored = None THEN None ELSE Stored.secret) = stated
=============================================================================
