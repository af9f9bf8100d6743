------------------------------ MODULE Services ------------------------------
(***************************************************************************)
(* The smaller services, each a model with variables and a specification   *)
(* of its own. One of them runs in a behaviour, chosen at the start, so    *)
(* that their states add up instead of multiplying: what one does to the   *)
(* rows of another is part of the model of the other, and nothing is said  *)
(* of two of them together. Delivery and OrderFulfilment do share          *)
(* Order.runnerId; each has the other's writes of it among its own actions. *)
(* Roles, Donations, Delivery and OrderFulfilment are extended, the others *)
(* are instances; one name for the calls that may overlap, Call, serves all *)
(* of them.                                                                *)
(***************************************************************************)
EXTENDS Roles, Donations, Delivery, OrderFulfilment, Integers, FiniteSets

CONSTANTS
  Call,                                                         \* calls that may overlap
  Reported, DailyLimit, DeliveryLimit, MaxIncidents,            \* Incidents
  Cause, Category, categoryOf, scoreOf, maxContribution,        \* Risk
  Line, City, cityOf, MaxQuantity,                              \* Cart
  MaxUnits,                                                     \* GuestCart
  Price, MaxStated, Edit, File,                               \* Catalogue
  Account,                                                      \* PaymentAccounts
  Tracked, Tracker, Admin, Interval, Retention, MaxTime,        \* Tracking
  Secret,                                                       \* EmailSettings
  Provider, CityFees, Distance, Radius, RunnerFee,              \* DeliveryPricing
  ProviderOrder,                                                \* PaymentsPage
  Email, EmailInterval, Lifetime,                               \* AccountEmails
  MaxPosition,                                                  \* LiveMap
  Seeding                                                       \* DemoDataset

VARIABLES
  focus,                      \* the service that runs
  iIncident, iReport,
  kRows, kTold, kOld, kSnapshot, kEmission,
  cActive, cCity, cLine, cGroup, cTotal, cCall, cCheckout, cOrder, cCrossed,
  gSignedIn, gCookie, gProfile, gLeaving, gItems, gEffect, gSync, gServer, gWanted,
  gInterrupted, gEdited,
  oProduct, oClient, oInUse, oJob, oRow, oCall, oCounted, oApplied, oOverlapped,
  pRoles, pAccountId, pAccount, pCreated, pSubmitted, pCall, pTroubled,
  tClock, tRunner, tActive, tLast, tLocated, tReported, tCall,
  eRow, eLegacy, eCall, eStated, eCrossed,
  qOrder, qSelected, qDelivery,
  vUnavailable, vPaid, vEnded, vPrepared, vOrder, vAggregate, vLoad, vPreparing,
  aClock, aAccount, aVerified, aLast, aToken, aExpires, aPassword, aCall, aArrived, aUsing,
  aSpent, aCrossed,
  mStatus, mRead, mLimited, mHandling, mViewer, mOpen, mJoined, mLoad, mLoaded,
  mTracking, mButton, mWatched, mLeaked, mPosition, mTraced, mDue, mAsked, mCancelled, mRoute,
  nAdmin, nProgress, nStale, nRun, nEnded

I == INSTANCE Incidents WITH Delivery <- Reported, incident <- iIncident, report <- iReport

K == INSTANCE Risk WITH
  rows <- kRows, told <- kTold, old <- kOld, snapshot <- kSnapshot, emission <- kEmission

C == INSTANCE Cart WITH
  active <- cActive, city <- cCity, line <- cLine, group <- cGroup, total <- cTotal,
  call <- cCall, checkout <- cCheckout, order <- cOrder, crossed <- cCrossed

G == INSTANCE GuestCart WITH
  Product <- Line, Ask <- Call, Nothing <- None,
  isAuthenticated <- gSignedIn, cookie <- gCookie, profile <- gProfile,
  leaving <- gLeaving, guestItems <- gItems, effect <- gEffect, sync <- gSync,
  serverCart <- gServer, wanted <- gWanted,
  interrupted <- gInterrupted, edited <- gEdited

O == INSTANCE Catalogue WITH
  MaxStock <- MaxStated, Request <- Edit,
  product <- oProduct, client <- oClient, inUse <- oInUse, job <- oJob, row <- oRow,
  call <- oCall, counted <- oCounted, applied <- oApplied, overlapped <- oOverlapped

P == INSTANCE PaymentAccounts WITH
  roles <- pRoles, stripeAccountId <- pAccountId, account <- pAccount, created <- pCreated,
  submitted <- pSubmitted, call <- pCall, troubled <- pTroubled

T == INSTANCE Tracking WITH
  Delivery <- Tracked, User <- Tracker, clock <- tClock, runner <- tRunner,
  active <- tActive, last <- tLast, located <- tLocated, reported <- tReported, call <- tCall

E == INSTANCE EmailSettings WITH
  row <- eRow, legacy <- eLegacy, call <- eCall, stated <- eStated, crossed <- eCrossed

Q == INSTANCE DeliveryPricing WITH
  City <- CityFees, order <- qOrder, selected <- qSelected, delivery <- qDelivery

V == INSTANCE PaymentsPage WITH
  Load <- Call, Nothing <- None, unavailable <- vUnavailable, paid <- vPaid, ended <- vEnded,
  prepared <- vPrepared, order <- vOrder, aggregate <- vAggregate, load <- vLoad,
  preparing <- vPreparing

A == INSTANCE AccountEmails WITH
  Request <- Email, Interval <- EmailInterval,
  clock <- aClock, account <- aAccount, emailVerified <- aVerified, lastEmailSentAt <- aLast,
  token <- aToken, expiresAt <- aExpires, password <- aPassword, call <- aCall,
  arrived <- aArrived, using <- aUsing, spent <- aSpent, crossed <- aCrossed

M == INSTANCE LiveMap WITH
  status <- mStatus, read <- mRead, limited <- mLimited, handling <- mHandling,
  viewer <- mViewer, open <- mOpen, joined <- mJoined, load <- mLoad, loaded <- mLoaded,
  trackingStatus <- mTracking, isTracking <- mButton, watched <- mWatched, leaked <- mLeaked,
  position <- mPosition, traced <- mTraced, due <- mDue, asked <- mAsked,
  cancelled <- mCancelled, route <- mRoute

N == INSTANCE DemoDataset WITH
  admin <- nAdmin, progress <- nProgress, stale <- nStale, run <- nRun, ended <- nEnded

\* What each of them assumes of its constants.
ASSUME ServicesAssumption ==
  /\ I!LimitsAreNumbers /\ K!CausesAreScored /\ C!LinesAreSold /\ G!UnitsAreNumbers
  /\ O!PricesAreNumbers
  /\ P!NoneIsNoAccount /\ T!ClockIsEnough /\ E!NoneIsNoSecret /\ Q!PricingAssumption
  /\ A!TimesAreNumbers /\ M!PositionsAreNumbers /\ N!StepsAreSeeded

iVars == <<iIncident, iReport>>
kVars == <<kRows, kTold, kOld, kSnapshot, kEmission>>
cVars == <<cActive, cCity, cLine, cGroup, cTotal, cCall, cCheckout, cOrder, cCrossed>>
gVars == <<gSignedIn, gCookie, gProfile, gLeaving, gItems, gEffect, gSync, gServer,
           gWanted, gInterrupted, gEdited>>
oVars == <<oProduct, oClient, oInUse, oJob, oRow, oCall, oCounted, oApplied, oOverlapped>>
pVars == <<pRoles, pAccountId, pAccount, pCreated, pSubmitted, pCall, pTroubled>>
tVars == <<tClock, tRunner, tActive, tLast, tLocated, tReported, tCall>>
eVars == <<eRow, eLegacy, eCall, eStated, eCrossed>>
qVars == <<qOrder, qSelected, qDelivery>>
vVars == <<vUnavailable, vPaid, vEnded, vPrepared, vOrder, vAggregate, vLoad, vPreparing>>
nVars == <<nAdmin, nProgress, nStale, nRun, nEnded>>
aVars == <<aClock, aAccount, aVerified, aLast, aToken, aExpires, aPassword, aCall, aArrived,
           aUsing, aSpent, aCrossed>>
mVars == <<mStatus, mRead, mLimited, mHandling, mViewer, mOpen, mJoined, mLoad,
           mLoaded, mTracking, mButton, mWatched, mLeaked, mPosition, mTraced, mDue, mAsked,
           mCancelled, mRoute>>
vars == <<focus, deliveryVars, fulfilmentVars, donationVars, roleVars, iVars, kVars, cVars,
          gVars, oVars, pVars, tVars, eVars, qVars, vVars, nVars, aVars, mVars>>

Service ==
  {"delivery", "fulfilment", "donations", "roles", "incidents", "risk", "cart",
   "guest", "catalogue", "accounts", "tracking", "email", "pricing", "page", "demo",
   "emails", "map"}

Init ==
  /\ focus \in Service
  /\ DeliveryInit /\ FulfilmentInit /\ DonationInit /\ RolesInit /\ I!Init /\ K!Init /\ C!Init
  /\ G!Init /\ O!Init /\ P!Init /\ T!Init /\ E!Init /\ Q!Init /\ V!Init /\ N!Init
  /\ A!Init /\ M!Init

Still(service, serviceVars) == IF focus = service THEN TRUE ELSE UNCHANGED serviceVars

OthersKeep ==
  /\ UNCHANGED focus
  /\ Still("delivery", deliveryVars) /\ Still("fulfilment", fulfilmentVars)
  /\ Still("donations", donationVars) /\ Still("roles", roleVars)
  /\ Still("incidents", iVars) /\ Still("risk", kVars)
  /\ Still("cart", cVars) /\ Still("guest", gVars) /\ Still("catalogue", oVars)
  /\ Still("accounts", pVars) /\ Still("tracking", tVars) /\ Still("email", eVars)
  /\ Still("pricing", qVars) /\ Still("page", vVars) /\ Still("demo", nVars)
  /\ Still("emails", aVars) /\ Still("map", mVars)

Next ==
  \/ focus = "delivery" /\ DeliveryNext /\ OthersKeep
  \/ focus = "fulfilment" /\ FulfilmentNext /\ OthersKeep
  \/ focus = "donations" /\ DonationNext /\ OthersKeep
  \/ focus = "roles" /\ RolesNext /\ OthersKeep
  \/ focus = "incidents" /\ I!Next /\ OthersKeep
  \/ focus = "risk" /\ K!Next /\ OthersKeep
  \/ focus = "cart" /\ C!Next /\ OthersKeep
  \/ focus = "guest" /\ G!Next /\ OthersKeep
  \/ focus = "catalogue" /\ O!Next /\ OthersKeep
  \/ focus = "accounts" /\ P!Next /\ OthersKeep
  \/ focus = "tracking" /\ T!Next /\ OthersKeep
  \/ focus = "email" /\ E!Next /\ OthersKeep
  \/ focus = "pricing" /\ Q!Next /\ OthersKeep
  \/ focus = "page" /\ V!Next /\ OthersKeep
  \/ focus = "demo" /\ N!Next /\ OthersKeep
  \/ focus = "emails" /\ A!Next /\ OthersKeep
  \/ focus = "map" /\ M!Next /\ OthersKeep

Spec == Init /\ [][Next]_vars

\* The rows, requests and pages of the service that runs keep to their types, however its
\* calls overlap: no quantity below zero or beyond its bound, no status without a name.
TypeOK ==
  CASE focus = "delivery" -> DeliveryTypeOK
    [] focus = "fulfilment" -> FulfilmentTypeOK
    [] focus = "donations" -> DonationTypeOK
    [] focus = "roles" -> RolesTypeOK
    [] focus = "incidents" -> I!TypeOK
    [] focus = "risk" -> K!TypeOK
    [] focus = "cart" -> C!TypeOK
    [] focus = "guest" -> G!TypeOK
    [] focus = "catalogue" -> O!TypeOK
    [] focus = "accounts" -> P!TypeOK
    [] focus = "tracking" -> T!TypeOK
    [] focus = "email" -> E!TypeOK
    [] focus = "pricing" -> Q!TypeOK
    [] focus = "page" -> V!TypeOK
    [] focus = "demo" -> N!TypeOK
    [] focus = "emails" -> A!TypeOK
    [] focus = "map" -> M!TypeOK

\* Each of these properties is stated, with what it is about, in the module of its service.
LimitsHoldButForOverlap == I!LimitsHoldButForOverlap
EachCauseCountsOnce == K!EachCauseCountsOnce
TotalIsOfLines == C!TotalIsOfLines
MigrationKeepsUnits == G!MigrationKeepsUnits
SalesSurviveEdits == O!SalesSurviveEdits
OneAccount == P!OneAccount
UpdatesAreSpaced == T!UpdatesAreSpaced
SecretSurvives == E!SecretSurvives
PartsAddUp == Q!PartsAddUp
CoveredMeansPaid == V!CoveredMeansPaid
LinksWork == A!LinksWork
RouteIsOfShown == M!RouteIsOfShown
=============================================================================
