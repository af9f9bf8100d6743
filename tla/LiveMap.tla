------------------------------- MODULE LiveMap -------------------------------
(***************************************************************************)
(* The live map of one order: positions of its runner that the tracking    *)
(* gateway checks and forwards, and the page of the client or of the       *)
(* runner that shows them with a projected route. What the page asks for   *)
(* is answered at any time. Positions are numbered as the device reads     *)
(* them. Whose delivery it is, and how it goes on, is the subject of       *)
(* Delivery; updates of anybody else are refused and left out.             *)
(***************************************************************************)
EXTENDS Integers

CONSTANTS
  MaxPosition,  \* bound: positions that are read
  None          \* null, or no request

\* PICKED_UP is treated as IN_TRANSIT everywhere, and is not told apart from it here.
Status == {"RUNNER_ASSIGNED", "PICKUP_PENDING", "IN_TRANSIT", "DELIVERED"}

\* Places on the map: the page's default, the first pickup, the position the row has, and
\* those that devices read.
Initial == -2
Origin == -1
Stored == 0
Place == Initial..MaxPosition

\* Assumed of every instance.
PositionsAreNumbers == MaxPosition \in Nat /\ None \notin Place /\ None \notin Status

VARIABLES
  status,            \* of the delivery order
  read,              \* positions read so far
  limited,           \* locationRateLimits: an update came within this second
  handling,          \* updates that wait for the gateway's query
  viewer, open,      \* whose page it is; whether it is mounted
  joined,            \* the socket is connected, and in the client's room
  load, loaded,      \* initMapData(): what it has read; it has set what it read
  trackingStatus, isTracking,  \* status as loaded; what the button says
  watched, leaked,   \* watchIdRef is set; a watch runs on that it names no longer
  position, traced,          \* what is shown; routeHistory is not empty
  due,               \* the effect that projects the route is to run
  asked, cancelled,  \* starts of its last request and of those it cancelled
  route              \* start of the projected route

mapVars ==
  <<status, read, limited, handling, viewer, open, joined, load, loaded,
    trackingStatus, isTracking, watched, leaked, position, traced, due, asked, cancelled, route>>

Init ==
  /\ status = "RUNNER_ASSIGNED"
  /\ read = 0 /\ limited = FALSE /\ handling = {}
  /\ viewer \in {"client", "runner"} /\ open = TRUE /\ joined = FALSE /\ load = None
  /\ loaded = FALSE /\ trackingStatus = None
  /\ isTracking = FALSE /\ watched = FALSE /\ leaked = FALSE
  /\ position = Initial /\ traced = FALSE
  /\ due = TRUE /\ asked = None /\ cancelled = {} /\ route = None

GatewayKept == UNCHANGED <<limited, handling>>
DeliveryKept == UNCHANGED <<status, read>>
WatchKept == UNCHANGED <<isTracking, watched, leaked>>
PageKept == UNCHANGED <<viewer, open, joined, load, loaded, trackingStatus>> /\ WatchKept
ShownKept == UNCHANGED <<position, traced, due>>
RouteKept == UNCHANGED <<asked, cancelled, route>>

-----------------------------------------------------------------------------
\* The delivery goes on.
Advance ==
  /\ status # "DELIVERED"
  /\ status' = CASE status = "RUNNER_ASSIGNED" -> "PICKUP_PENDING"
                 [] status = "PICKUP_PENDING" -> "IN_TRANSIT"
                 [] OTHER -> "DELIVERED"
  /\ UNCHANGED read /\ GatewayKept /\ PageKept /\ ShownKept /\ RouteKept

\* watchPosition() of the runner's page, or of another page of theirs: an update comes to
\* handleUpdateLocation(), which remembers it before it asks whether it is allowed. The page
\* that watches shows the position, and adds nothing to the history.
UpdateLocation ==
  /\ read < MaxPosition /\ read' = read + 1
  /\ limited' = TRUE
  /\ handling' = IF limited THEN handling ELSE handling \cup {read'}
  /\ IF open /\ viewer = "runner" /\ (watched \/ leaked)
     THEN position' = read' /\ due' = TRUE
     ELSE UNCHANGED <<position, due>>
  /\ UNCHANGED <<status, traced>> /\ PageKept /\ RouteKept

\* A second has passed, or a socket of the runner was closed (handleDisconnect()).
Lift ==
  /\ limited /\ limited' = FALSE
  /\ UNCHANGED handling /\ DeliveryKept /\ PageKept /\ ShownKept /\ RouteKept

\* isTrackingUpdateAllowed()
Allowed == status \in {"PICKUP_PENDING", "IN_TRANSIT"}

\* locationUpdated reaches the client who is in the room; the queries overtake one another.
Broadcast(at) ==
  /\ Allowed /\ handling' = handling \ {at}
  /\ IF open /\ joined /\ viewer = "client"
     THEN position' = at /\ traced' = TRUE /\ due' = TRUE
     ELSE ShownKept
  /\ UNCHANGED limited /\ DeliveryKept /\ PageKept /\ RouteKept

Refuse(at) ==
  /\ ~Allowed /\ handling' = handling \ {at}
  /\ UNCHANGED limited /\ DeliveryKept /\ PageKept /\ ShownKept /\ RouteKept

-----------------------------------------------------------------------------
\* handleConnection() and handleJoinOrder(), again after every reconnection.
JoinOrder ==
  /\ open /\ ~joined /\ joined' = TRUE
  /\ UNCHANGED <<viewer, open, load, loaded, trackingStatus>> /\ WatchKept
  /\ DeliveryKept /\ GatewayKept /\ ShownKept /\ RouteKept

LoseConnection ==
  /\ joined /\ joined' = FALSE
  /\ UNCHANGED <<viewer, open, load, loaded, trackingStatus>> /\ WatchKept
  /\ DeliveryKept /\ GatewayKept /\ ShownKept /\ RouteKept

\* getOrderTracking() shows a position that the row has from the pickup on; if it fails the
\* page goes on without.
GetTracking(located, failed) ==
  /\ open /\ load = None /\ ~loaded
  /\ located => status \in {"IN_TRANSIT", "DELIVERED"} /\ ~failed
  /\ load' = [status |-> IF failed THEN None ELSE status,
              location |-> IF located THEN Stored ELSE None]
  /\ UNCHANGED <<viewer, open, joined, loaded, trackingStatus>> /\ WatchKept
  /\ DeliveryKept /\ GatewayKept /\ ShownKept /\ RouteKept

\* After the geocoder has answered twice: whatever has been shown meanwhile is replaced.
MapDataComes ==
  /\ open /\ load # None /\ load' = None /\ loaded' = TRUE
  /\ trackingStatus' = load.status
  /\ traced' = (load.location # None)
  /\ position' = IF load.location # None THEN load.location ELSE Origin
  /\ due' = TRUE
  /\ UNCHANGED <<viewer, open, joined>> /\ WatchKept /\ DeliveryKept /\ GatewayKept /\ RouteKept

\* runnerCanTransmit
CanTransmit == trackingStatus \in {"PICKUP_PENDING", "IN_TRANSIT", None}

\* The button also refuses to stop once it may not be started.
ToggleTracking ==
  /\ open /\ viewer = "runner" /\ CanTransmit /\ isTracking' = ~isTracking
  /\ watched' = ~isTracking /\ leaked' = (leaked \/ (watched /\ ~isTracking))
  /\ UNCHANGED <<viewer, open, joined, load, loaded, trackingStatus>>
  /\ DeliveryKept /\ GatewayKept /\ ShownKept /\ RouteKept

\* The device fails once: the button says so, but the watch is not cleared, and the next
\* start forgets it.
WatchFails ==
  /\ open /\ watched /\ isTracking /\ isTracking' = FALSE
  /\ UNCHANGED <<viewer, open, joined, load, loaded, trackingStatus, watched, leaked>>
  /\ DeliveryKept /\ GatewayKept /\ ShownKept /\ RouteKept

-----------------------------------------------------------------------------
Start == IF traced \/ ~loaded THEN position ELSE Origin

\* The effect cancels its last request and projects from what is shown now.
ProjectRoute ==
  /\ open /\ due /\ due' = FALSE
  /\ cancelled' = cancelled \cup ({asked} \ {None})
  /\ IF loaded THEN asked' = Start /\ UNCHANGED route
     ELSE asked' = None /\ route' = None
  /\ UNCHANGED <<position, traced>> /\ DeliveryKept /\ GatewayKept /\ PageKept

\* The route service answers, or fails and a straight line is drawn.
RouteComes ==
  /\ open /\ asked # None /\ route' = asked /\ asked' = None /\ UNCHANGED cancelled
  /\ DeliveryKept /\ GatewayKept /\ PageKept /\ ShownKept

\* Mutant of ShowsCancelled: the answer to a request that was cancelled is taken.
ShowsAnyAnswer(start) == start

ShowsCancelled(start) == route

CancelledComes(start) ==
  /\ start \in cancelled /\ cancelled' = cancelled \ {start} /\ route' = ShowsCancelled(start)
  /\ UNCHANGED asked /\ DeliveryKept /\ GatewayKept /\ PageKept /\ ShownKept

\* The page is left: its answers are ignored, its socket and its watch end.
Leave ==
  /\ open /\ open' = FALSE /\ joined' = FALSE /\ watched' = FALSE
  /\ cancelled' = cancelled \cup ({asked} \ {None}) /\ asked' = None
  /\ UNCHANGED <<viewer, load, loaded, trackingStatus, isTracking, leaked, route>>
  /\ DeliveryKept /\ GatewayKept /\ ShownKept

Next ==
  \/ Advance \/ JoinOrder \/ LoseConnection \/ MapDataComes
  \/ ToggleTracking \/ WatchFails
  \/ \E located, failed \in BOOLEAN : GetTracking(located, failed)
  \/ UpdateLocation \/ Lift \/ \E at \in handling : Broadcast(at) \/ Refuse(at)
  \/ ProjectRoute \/ RouteComes \/ \E start \in cancelled : CancelledComes(start)
  \/ Leave

Spec == Init /\ [][Next]_mapVars

-----------------------------------------------------------------------------
TypeOK ==
  /\ status \in Status /\ read \in 0..MaxPosition
  /\ limited \in BOOLEAN /\ handling \subseteq 1..MaxPosition
  /\ viewer \in {"client", "runner"} /\ open \in BOOLEAN /\ joined \in BOOLEAN
  /\ load \in [status : Status \cup {None}, location : {Stored, None}] \cup {None}
  /\ loaded \in BOOLEAN
  /\ trackingStatus \in Status \cup {None} /\ isTracking \in BOOLEAN
  /\ watched \in BOOLEAN /\ leaked \in BOOLEAN
  /\ position \in Place /\ traced \in BOOLEAN /\ due \in BOOLEAN
  /\ asked \in Place \cup {None} /\ cancelled \subseteq Place /\ route \in Place \cup {None}

\* Whenever the last projection has been answered, the route, its distance and its time are
\* of what the map shows, in whatever order positions, the initial load and the answers of
\* the route service came.
RouteIsOfShown ==
  open /\ loaded /\ ~due /\ asked = None => route = Start
=============================================================================
