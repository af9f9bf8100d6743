------------------------------ MODULE GuestCart ------------------------------
(***************************************************************************)
(* One tab of the browser: the signed-in state that AuthProvider shows,    *)
(* the guest cart that CartProvider keeps, and its migration to the cart   *)
(* of the server once the visitor is signed in. Renders, effects and the   *)
(* answers of requests interleave; a step is what runs between two awaits. *)
(***************************************************************************)
EXTENDS Naturals

CONSTANTS
  Product,
  Ask,        \* bound: the GET /auth/me requests that may be in flight
  MaxUnits,   \* bound: units of a product in the guest cart, and half those of the server
  Nothing     \* no synchronisation in flight

VARIABLES
  isAuthenticated,         \* AuthState
  cookie,                  \* the server would accept the session
  profile,                 \* what each GET /auth/me in flight has been answered
  leaving,                 \* the server has signed out, the tab not yet
  guestItems,              \* units by product; localStorage holds the same
  effect,                  \* the effect that migrates is due: its inputs changed
  sync,                    \* the run that syncInFlightRef points to
  serverCart,              \* units by product in the cart of the server
  wanted,                  \* units the visitor has asked for, in either cart
  interrupted,             \* history: a run lost an answer or was left with the page
  edited                   \* history: the guest cart was edited under a run

authVars == <<isAuthenticated, cookie, profile, leaving>>
history == <<interrupted, edited>>
cartVars == <<guestItems, effect, sync, serverCart, wanted, history>>
guestVars == <<authVars, cartVars>>

Empty == [p \in Product |-> 0]
Held(items) == {p \in Product : items[p] > 0}
Only(items, ps) == [p \in Product |-> IF p \in ps THEN items[p] ELSE 0]

Answer == {"none", "asked", "user", "unauthorized", "failed"}

\* items: the closure's guestItems; remaining: remainingItems; asking: the product whose
\* POST is on its way ("answered" when the server has acted on it); then the refresh.
Run ==
  [items : [Product -> 0..MaxUnits], todo : SUBSET Product, remaining : SUBSET Product,
   phase : {"next", "asked", "added", "refused", "refreshing"}, product : Product \cup {Nothing}]

\* Assumed of every instance.
UnitsAreNumbers == MaxUnits \in Nat /\ Nothing \notin Run

Init ==
  /\ isAuthenticated = FALSE /\ cookie \in BOOLEAN
  /\ profile = [a \in Ask |-> "none"] /\ leaving = FALSE
  /\ guestItems = Empty /\ effect = FALSE /\ sync = Nothing
  /\ serverCart = Empty /\ wanted = Empty
  /\ interrupted = FALSE /\ edited = FALSE

-----------------------------------------------------------------------------
(***************************************************************************)
(* AuthProvider.                                                           *)
(***************************************************************************)
ShowsUser(shown) ==
  /\ isAuthenticated' = shown
  /\ effect' = (effect \/ shown # isAuthenticated)

GetProfile(a) == profile[a] = "none" /\ profile' = [profile EXCEPT ![a] = "asked"]

\* A change of page, which asks who is signed in if the new one is protected or the tab has
\* the hint of a session, whether or not an earlier page's request has come back.
Navigate(a) ==
  /\ GetProfile(a)
  /\ UNCHANGED <<isAuthenticated, cookie, leaving, cartVars>>

ServerAnswers(a) ==
  /\ profile[a] = "asked"
  /\ \E answer \in {IF cookie THEN "user" ELSE "unauthorized", "failed"} :
       profile' = [profile EXCEPT ![a] = answer]
  /\ UNCHANGED <<isAuthenticated, cookie, leaving, cartVars>>

\* The answer is applied whatever has happened since it was given.
HydrateUser(a) ==
  /\ profile[a] \in {"user", "unauthorized", "failed"}
  /\ profile' = [profile EXCEPT ![a] = "none"]
  /\ ShowsUser(profile[a] = "user" \/ (profile[a] = "failed" /\ isAuthenticated))
  /\ UNCHANGED <<cookie, leaving, guestItems, sync, serverCart, wanted, history>>

\* Shown at once, and asked for once more.
Login(a) ==
  /\ GetProfile(a)
  /\ cookie' = TRUE
  /\ ShowsUser(TRUE)
  /\ UNCHANGED <<leaving, guestItems, sync, serverCart, wanted, history>>

\* The request to sign out; it may fail, and the tab signs out all the same.
LogoutRequest ==
  /\ isAuthenticated /\ ~leaving /\ leaving' = TRUE
  /\ cookie' \in {FALSE, cookie}
  /\ UNCHANGED <<isAuthenticated, profile, cartVars>>

Logout ==
  /\ leaving /\ leaving' = FALSE
  /\ ShowsUser(FALSE)
  /\ UNCHANGED <<cookie, profile, guestItems, sync, serverCart, wanted, history>>

\* The session ends at the server without the tab being told.
SessionEnds ==
  /\ cookie /\ cookie' = FALSE
  /\ UNCHANGED <<isAuthenticated, profile, leaving, cartVars>>

\* The page is loaded anew: the run and the requests of the old one are forgotten, of
\* which the server has acted on the last or never does.
Reload ==
  /\ isAuthenticated' = FALSE /\ profile' = [a \in Ask |-> "none"] /\ leaving' = FALSE
  /\ effect' = FALSE /\ sync' = Nothing
  /\ interrupted' = (interrupted \/ sync # Nothing)
  /\ UNCHANGED <<cookie, guestItems, serverCart, wanted, edited>>

-----------------------------------------------------------------------------
(***************************************************************************)
(* The migration. A run works on the guest cart of the render that started *)
(* it; syncInFlightRef keeps a second one from starting.                   *)
(***************************************************************************)
\* Mutant of MayStartRun: a run does not wait for the one under way.
MayStartRunAlways == TRUE

MayStartRun == sync = Nothing

NewRun ==
  [items |-> guestItems, todo |-> Held(guestItems), remaining |-> Held(guestItems),
   phase |-> "next", product |-> Nothing]

\* The effect of CartProvider: it migrates what the guest cart holds, or only refreshes.
EffectRuns ==
  /\ effect /\ effect' = FALSE
  /\ sync' = IF isAuthenticated /\ Held(guestItems) # {} /\ MayStartRun THEN NewRun ELSE sync
  /\ UNCHANGED <<authVars, guestItems, serverCart, wanted, history>>

\* addItem() of a signed-in visitor starts the run it then waits for.
AddItemMigrates ==
  /\ isAuthenticated /\ Held(guestItems) # {} /\ MayStartRun
  /\ sync' = NewRun
  /\ UNCHANGED <<authVars, guestItems, effect, serverCart, wanted, history>>

PostItem ==
  /\ sync # Nothing /\ sync.phase = "next"
  /\ \E p \in sync.todo : sync' = [sync EXCEPT !.phase = "asked", !.product = p]
  /\ UNCHANGED <<authVars, guestItems, effect, serverCart, wanted, history>>

\* The server adds the units to those it has, or refuses (no session, no stock, other city).
ServerActs ==
  /\ sync # Nothing /\ sync.phase = "asked"
  /\ \/ /\ cookie /\ serverCart[sync.product] + sync.items[sync.product] <= 2 * MaxUnits
        /\ serverCart' = [serverCart EXCEPT ![sync.product] = @ + sync.items[sync.product]]
        /\ sync' = [sync EXCEPT !.phase = "added"]
     \/ serverCart' = serverCart /\ sync' = [sync EXCEPT !.phase = "refused"]
  /\ UNCHANGED <<authVars, guestItems, effect, wanted, history>>

\* What is left once the answer for the product has come.
Left == sync.remaining \ {sync.product}

ItemAdded ==
  /\ sync # Nothing /\ sync.phase = "added"
  /\ sync' = [sync EXCEPT !.phase = "next", !.product = Nothing,
                          !.todo = @ \ {sync.product}, !.remaining = Left]
  /\ UNCHANGED <<authVars, guestItems, effect, serverCart, wanted, history>>

\* The refresh of the server's cart, for which a run needs no more of the guest cart.
Refreshing ==
  [items |-> Empty, todo |-> {}, remaining |-> {}, phase |-> "refreshing", product |-> Nothing]

\* setGuestItems(remainingItems): whatever the guest cart holds by now is replaced.
Stores(run) ==
  /\ guestItems' = Only(run.items, run.remaining) /\ effect' = TRUE
  /\ sync' = Refreshing
  /\ UNCHANGED <<authVars, serverCart, wanted>>

RunCompletes ==
  /\ sync # Nothing /\ sync.phase = "next" /\ sync.todo = {}
  /\ Stores(sync) /\ UNCHANGED history

\* The request failed, or only its answer was lost.
RunFails ==
  /\ sync # Nothing /\ sync.phase \in {"added", "refused"}
  /\ interrupted' = (interrupted \/ sync.phase = "added") /\ edited' = edited
  /\ Stores(sync)

RunEnds ==
  /\ sync # Nothing /\ sync.phase = "refreshing"
  /\ sync' = Nothing
  /\ UNCHANGED <<authVars, guestItems, effect, serverCart, wanted, history>>

-----------------------------------------------------------------------------
(***************************************************************************)
(* The visitor: addItem(), updateQuantity(), removeItem(), in either cart. *)
(***************************************************************************)
\* A run that has yet to store what it leaves of the guest cart.
Delivering == IF sync = Nothing THEN FALSE ELSE sync.phase # "refreshing"

\* Units the tab has yet to hand to the server.
Undelivered(p) ==
  IF ~Delivering THEN guestItems[p]
  ELSE IF p \in sync.todo /\ ~(sync.phase = "added" /\ p = sync.product) THEN sync.items[p] ELSE 0

\* A visitor not signed in sets the units of a product.
SetGuest(p, n) ==
  /\ ~isAuthenticated /\ n # guestItems[p]
  /\ guestItems' = [guestItems EXCEPT ![p] = n] /\ effect' = TRUE
  /\ wanted' = [wanted EXCEPT ![p] = serverCart[p] + n]
  /\ edited' = (edited \/ Delivering)
  /\ UNCHANGED <<authVars, sync, serverCart, interrupted>>

\* A signed-in visitor does, with the requests that add, update or remove a line. Only
\* addItem() waits for the run, and only it makes a line that is not there.
SetServer(p, n) ==
  /\ isAuthenticated /\ cookie /\ n # serverCart[p]
  /\ serverCart[p] = 0 => ~Delivering
  /\ n + Undelivered(p) <= 2 * MaxUnits
  /\ serverCart' = [serverCart EXCEPT ![p] = n]
  /\ wanted' = [wanted EXCEPT ![p] = n + Undelivered(p)]
  /\ UNCHANGED <<authVars, guestItems, effect, sync, history>>

Next ==
  \/ \E a \in Ask : Navigate(a) \/ ServerAnswers(a) \/ HydrateUser(a) \/ Login(a)
  \/ LogoutRequest \/ Logout \/ SessionEnds \/ Reload
  \/ EffectRuns \/ AddItemMigrates \/ PostItem \/ ServerActs \/ ItemAdded
  \/ RunCompletes \/ RunFails \/ RunEnds
  \/ \E p \in Product, n \in 0..MaxUnits : SetGuest(p, n)
  \/ \E p \in Product, n \in 0..2 * MaxUnits : SetServer(p, n)

Spec == Init /\ [][Next]_guestVars

TypeOK ==
  /\ isAuthenticated \in BOOLEAN /\ cookie \in BOOLEAN
  /\ profile \in [Ask -> Answer] /\ leaving \in BOOLEAN
  /\ guestItems \in [Product -> 0..MaxUnits] /\ effect \in BOOLEAN
  /\ sync \in Run \cup {Nothing}
  /\ serverCart \in [Product -> 0..2 * MaxUnits]
  /\ wanted \in [Product -> 0..3 * MaxUnits]
  /\ interrupted \in BOOLEAN /\ edited \in BOOLEAN

\* However sign-ins, sign-outs, stale answers, reloads and effects cross with the run, no
\* unit that was asked for is forgotten, and none is handed over twice but after a run that
\* lost an answer or was left with the page. An edit of the guest cart under a run, which
\* the run overwrites, is excepted.
MigrationKeepsUnits ==
  ~edited => \A p \in Product :
    /\ serverCart[p] + Undelivered(p) >= wanted[p]
    /\ ~interrupted => serverCart[p] + Undelivered(p) = wanted[p]
=============================================================================
