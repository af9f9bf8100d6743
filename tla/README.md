# Mecerka: specification and verification

Mecerka is a marketplace of local shops. A client fills one cart with products of
several providers, checks it out into one root `Order` with one `ProviderOrder` for
each provider, pays every provider order separately to the provider's Stripe account,
and a runner delivers. The backend is NestJS over PostgreSQL (Prisma, READ COMMITTED);
several replicas and many requests run at once, and the only synchronisation is what
the database gives: row locks taken by `SELECT ... FOR UPDATE`, conditional updates
and unique indexes. Stripe delivers its webhooks at least once and in any order. The
frontend is a Next.js application whose pages keep state across awaits and callbacks.

This directory holds TLA+ modules translated from `src/backend/src` and
`src/frontend`, the TLC configurations that check them on small instances, and TLAPS
proofs of the properties that matter most for every instance. Paths below are relative
to `src/backend/src` unless they begin with `frontend/` or `docs/`.

## 1. Inventory

| Component | State | Operations | What is hard | What makes it correct | Modelled |
|---|---|---|---|---|---|
| Payment preparation and activation (`payments/provider-payment-preparation`, `-intent-activation`) | `ProviderPaymentSession.status`, `ProviderOrder.status`, `.paymentStatus`, `.paymentRef` | prepare (reuse or create a session), create the intent, activate or reject it | a transaction, a remote call, another transaction; late activations; refusals recorded outside a transaction | one open session; nobody charged twice; captured money stays confirmable; a payment is never taken back | `ProviderPayment` |
| Webhook and settlement (`payments/webhooks.controller`, `stripe-webhook`, `payment-webhook-event`, `provider-payment-confirmation`, `-settlement`) | `PaymentWebhookEvent.status`, `StockReservation.status`, `Product.stock`, `Order.status` | claim, confirm, settle, mark | duplicate deliveries, crashes at any point, two settlements of one order, several of one product | units conserved; confirmation neither lost nor early; terminal events mean a payment; captured money is settled in the end | `ProviderPayment` |
| Root order and provider order lifecycle (`orders/order-status`, `order-runner-lifecycle`, `repositories/`, `utils/state-machine`) | `Order.status`, `.runnerId`, `ProviderOrder.status` | decisions of the provider, cancellation, promotion, acceptance, selection, pickup, transit, completion | decisions on stale readings, unconditional writes | the order follows its runner and its goods | `ProviderPayment`, `OrderFulfilment` |
| Legacy order creation and cash payment (`orders/legacy-manual-order-creation`, `payments/legacy-cash-payment`) | the same rows | create, pay in cash | overlapping payments, a decrement whose count is ignored | as above | `OrderFulfilment` |
| Reservation expiry (`orders/orders.service`) | `StockReservation.status` | `expireReservations` | lists outside its transaction, writes by id | nothing consumed or paid is expired | `ProviderPayment`, partly |
| Checkout (`orders/checkout*`, `stock-reservation`) | `Order`, `CartGroup.status`, `StockReservation` | `checkoutFromCart` | retries and overlaps under one key; reservations written after the transaction | one order per key, shown to its client only; a cart closed by an order alone | `StockCheckout` |
| Delivery planning and pricing (`orders/checkout-delivery-planning`, `domain/value-objects/money.value-object`) | fee parts of `Order`, `DeliveryOrder.deliveryFee` | plan, quote, copy, show | binary fractions, rounding, parts rounded apart | what is asked is what the parts add up to | `DeliveryPricing` |
| Cart (`cart/cart.service`) | `CartGroup`, `CartProvider`, `CartItem`, totals | add, update, remove, recalculate | mutations overlap each other and a checkout | totals match the lines | `Cart`, `StockCheckout` |
| Reconciliation and aggregation (`payments/payment-reconciliation`, `observability/observability-reconciliation`, `payments/provider-payment-aggregate`, `payments/payment-summary.builder`) | none | report, summarise | reports are trusted to be empty | what is reported as inconsistent does not happen | conditions as invariants, partly |
| Payment accounts (`payments/payment-account-onboarding`, `payments/repositories/prisma-payment-account.repository`) | `User.stripeAccountId`, `PaymentAccount` | onboard, verify, resolve | an account at Stripe before a row; role changes | one account, named by every row | `PaymentAccounts` |
| Delivery (`delivery/delivery-order-creation`, `-dispatch`, `-job-acceptance`, `-lifecycle`, `-domain-policy`) | `DeliveryOrder`, `DeliveryJob`, `DeliveryJobClaim`, `Order.runnerId` | create, offer, accept, assign, expire, pick up, deliver | runners racing for a job, direct assignment, expiry, the root order's own acceptance | one winner of a job; one runner of delivery and order, but for a selection by the client | `Delivery` |
| Runner payment (`delivery/delivery-runner-payment`, `-runner-webhook`) | `RunnerPaymentSession`, the delivery's payment | prepare, confirm, fail | an intent inside the transaction, claims never reclaimed, late failures | no capture without a row; every capture recorded | `RunnerPayment` over `Delivery` |
| Incidents (`delivery/delivery-incident`) | `DeliveryIncident` | report, review, resolve, reject | counted and inserted without a lock | limits, but for the overlap | `Incidents` |
| Tracking (`delivery/delivery-tracking`) | last position, `RunnerLocation` | update, clean up | positions arrive at once | updates an interval apart | `Tracking` |
| Refunds (`refunds/`) | `RefundRequest`, amounts captured and refunded | request, review, approve, reject, execute | requests checked without a lock; a remote call between two transactions; outcomes written blindly | refunded once and only if approved; never more committed than captured | `Refunds` |
| Donations (`support/donation-payment`) | donation and its sessions | prepare, confirm, fail | an intent inside the transaction, late failures | a completed donation was captured | `Donations` |
| Roles (`users/role-assignment`, `users.service`, `admin.service`) | `User.roles`, audit entries | request, grant, revoke | a set read, changed and written whole | the audit log tells the roles | `Roles` |
| E-mailed links and codes (`auth/auth-email-workflow`, `auth.service`) | tokens of `User`, `lastEmailSentAt` | register, resend, reset, code for a second factor | one token of a kind, updates by user, a limit read before it is set | what arrives works | `AccountEmails` |
| Catalogue and imports (`products/`) | `Product`, `ProductImportJob`, client discounts | edit, discount, check, apply | read, decide, write; checked early, applied late | sales survive edits | `Catalogue` |
| E-mail settings (`email/email-settings.service`) | `SystemSetting`, a legacy row | save, read | a kept secret is read before it is written | the secret survives | `EmailSettings` |
| Risk (`risk/`) | `RiskEvent`, snapshots | record, recalculate, clean up | overlapping recalculations, retries | a cause counts once | `Risk` |
| Demonstration data (`demo/`) | most rows | boot, seed, reset | interrupted anywhere, judged by counts | a repair leaves nothing partial (refuted) | `DemoDataset` |
| Runner gateway and live map (`runner/runner.gateway`, `frontend/components/tracking/DeliveryMap.tsx`) | limits in memory, the page's state | join, update, broadcast, load, project | answers and messages in any order | the route belongs to what is shown | `LiveMap` |
| Guest cart and session (`frontend/contexts/`) | storage, cookies, React state | sign in and out, migrate the cart | effects, lost and late answers, overlapping requests, reloads | no unit forgotten, and none twice but after a lost answer | `GuestCart` |
| Payments page (`frontend/app/[locale]/orders/[id]/payments`) | answers shown | load, prepare, refresh | late and partial answers, provider orders that become payable again | covered means paid or over | `PaymentsPage` |
| Other pages, administration, providers, categories, cities, geocoding, observability, sending of e-mail, sessions | | | | | section 6 |

How they interact. The checkout creates orders and reservations that the preparation
reads; the settlement consumes reservations, decrements stock and confirms the order;
cancellation, the sweep and the provider's decisions write the same rows; a settled
order is announced by an event whose listener forwards it to sockets. A delivery order
is created for an order and writes its runner over the order's, which the order's own
`acceptOrder()` and `selectRunner()` also write: `Delivery` has the latter among its
actions, and `OrderFulfilment` the former (`Dispatch`). The delivery's payment is composed
with it in `RunnerPayment`. Refunds
read what was captured. Incidents, acceptances, positions and refunds tell `Risk` of
causes after their own transactions. The frontend's models have the server's answers as
their environment.

## 2. Modules

| Module | What it is |
|---|---|
| `StateMachine` | the two transition tables and the enumerations of the schema |
| `ProviderPayment` | preparation, activation, webhook, settlement, and what races with them |
| `OrderSettlement` | the abstract specification: atomic sales, cancellations, promotions |
| `StockCheckout` | checkout, opening of carts, reservations and their consumption |
| `OrderPlacement` | the abstract specification: a key takes an order, a request is shown it |
| `Refunds` | refund requests, their review, their execution at Stripe |
| `RefundLedger` | the abstract specification: decisions, and single refunds |
| `Delivery`, `RunnerPayment` | the delivery order with its job; its payment, which extends it |
| `OrderFulfilment` | an order paid in cash, from its creation to its delivery |
| `Cart`, `Catalogue`, `DeliveryPricing` | what is bought, from what, and what its delivery costs |
| `Donations`, `PaymentAccounts` | the other two dealings with Stripe |
| `Roles`, `AccountEmails`, `EmailSettings` | accounts and the administration of them |
| `Incidents`, `Tracking`, `Risk` | what happens on the way |
| `GuestCart`, `PaymentsPage`, `LiveMap` | pages of the frontend |
| `DemoDataset` | the data of the demonstration environment |
| `*Claims` | what comments, tests and documents say and the code does not keep |
| `Runners` | the runners that `Delivery` and `OrderFulfilment` have in common |
| `Services` | the smaller services, one of which runs in a behaviour, and their properties |
| `MC*` | instances for TLC |
| `*Proofs` | theorems about the module of that name; `ServicesProofs` also about `Roles` and the thirteen instances of `Services` |

A step is what PostgreSQL makes atomic. A transaction that first locks the row it
decides on is one action; a transaction that locks nothing, or later than it reads, is
split into its statements; a statement outside a transaction is an action. What a
handler has read is kept in a variable until it writes. History variables, which no
guard reads, are named as such where they are declared.

### ProviderPayment

`ReuseSession`, `CreateSession`, `Activate` and `CommitCancel` are transactions that are
one action; `IntentRefused`, `ResetProviderOrder`, `Claim` and `Mark` are single
statements. The confirmation transaction, which reads before it locks and locks in
stages, is split at each of those points: `LoadSession`, `Validate` (ProviderOrder
locked), `LockOrder`, `Settle` (products locked), `Commit`. Its writes are private until
`Commit` and appear there. A row is locked exactly while a handler is at the places
listed in `HoldsProviderOrder`, `HoldsOrder` and `HoldsProducts`; an action that needs
the row waits for it.

| State | Code |
|---|---|
| `orderStatus`, `poStatus`, `paymentStatus`, `paymentRef` | columns of `Order` and `ProviderOrder` |
| `reservation`, `lapsed` | `StockReservation.status`; orders whose `expiresAt` has passed (a checkout gives all reservations of an order one instant) |
| `stock`, `supply`, `restored` | `Product.stock`; its initial value and, as history, what came back |
| `session`, `external`, `activation` | `ProviderPaymentSession.status`, has an intent id; the request activating it |
| `intent`, `delivery` | Stripe's intent and the delivery of its event: due until answered 200 |
| `event`, `stale`, `handler`, `seen`, `allPaid` | `PaymentWebhookEvent`; the handler's place and what it has read |
| `cancel`, `sweep`, `evaluation` | requests between their reading and their transaction |

A session stands for itself, its intent and its event, because the idempotency key of
an intent is its session and Stripe sends one `payment_intent.succeeded` for each.
`Units` gives the units of a product a set of provider orders asks for; only its
additivity is assumed. Initial stock is arbitrary, not just what checkout verified,
because edits and imports of the catalogue set it without regard to reservations.
Crashes and failing statements (`StatementFails` also covers a deadlock victim, an
inactive payment account, a rejected payload and a listener or `markStatus` that throws
after the commit) happen anywhere, up to `MaxFaults`.

### StockCheckout

`checkoutFromCart` step by step: `Lookup` of the key, `ValidateCart` (the client's
newest cart), `CreateOrder` (one transaction: the products locked, the stock less the
live reservations compared, the order inserted under the unique key, the cart closed),
`Reserve` (after that transaction), `Reply`; `ReplyDuplicate` is the P2002 path. Carts
are opened by a look-up and a later insertion, so a client may have two. A retry is
another request with the same key; an order is named by the request that created it.

### Refunds

A request is one `POST /refunds` and its row. `requestRefund` locks nothing, so its
statements are three actions: `CountRequests`, `CheckCapacity`, `CreateRequest`. A
review locks the row and is one action. `executeRefund` is three steps:
`PrepareExecution` (the row and then the boundary locked, the capacity checked again,
`EXECUTING` committed, the creation sent), Stripe's answer or its loss, and the record
of the outcome, `Complete` or `MarkFailed`, which look at nothing; `Crash` ends a call
at any point. Stripe is external: a creation on the `wire` may be processed at any time
or never, a key is processed once and its result replayed, and a payment is not refunded
beyond what it captured. `overlapped` is history. A boundary is taken to be `PAID` for
good. For provider orders that is the theorem `PaidStaysPaid`; for delivery orders
`claim_runner_paid` refutes it, and a request for a refund of one is then refused until
the delivery is paid again.

### Delivery and RunnerPayment

`CreateDeliveryOrder` also publishes the job, and asks for neither the status nor the
runner of the root order, so both are arbitrary at the start. `RequestJob` takes the time,
as `acceptDeliveryJob` does before its transaction, and `AcceptDeliveryJob` decides under
the lock of the job without asking for the delivery order. `assignRunner` locks nothing,
so `ReadAssignable` and `AssignRunner` are two actions.

The root order has its own way to a runner, also when it has a delivery order. Of its life
only whether it is `READY_FOR_ASSIGNMENT` is kept (`orderReady`), which may change at any
time (`OrderMoves`). `AcceptRootOrder` is the conditional update of `acceptOrder()`, which
asks that there be no runner; `SelectForRootOrder` that of `selectRunner()`, which does not,
and may leave the order with another runner than its delivery. `OneRunner` excepts that
runner (`selected`, history), and no other.

`RunnerPayment` extends `Delivery` with the sessions: the intent is created inside the
transaction, and `PrepareAborts` leaves it an orphan that nobody was told of. A webhook
claims its event and reads, writes, and marks, and a claimed event is never claimed again.

### OrderFulfilment

A payment by Stripe makes a provider order `PAID`, from which the transition table has
no entry, so the provider cannot prepare it step by step; the module therefore follows
an order paid in cash (`ENABLE_LEGACY_CASH_PAYMENTS`), which has one provider. Almost
every handler reads and writes in two statements; each is two actions.

### The services

`Services` is a container of seventeen models, so that one run and one module of proofs
serve them: it extends `Roles`, `Donations`, `Delivery` and `OrderFulfilment` and has an
instance of each of the others, with variables and constants of its own (one set, `Call`,
serves all of them). In its `Spec` a behaviour runs one of them, the `focus`, chosen at the
start; the variables of the others keep their initial values (`OthersKeep`), so that for
TLC states add up instead of multiplying. Nothing is said of two services together. Where
one writes a row of another, the write is an action of the other's model: `Delivery` and
`OrderFulfilment` share `Order.runnerId` and each has the other's writes of it, `Cart` has
the steps of the checkout, `Catalogue` the sales. The theorems about the properties are of each service's own specification. `TypeOK` is that of
the service in focus; a property holds trivially of the initial values of a service that is
not.

`MCServices` only gives the constants values. Its constraint `Promised` cuts behaviours
off at states whose property promises nothing any more (`crossed` in `Cart`, `edited` in
`GuestCart`); `MigrationBound` and `PageBound` bound the two pages, whose theorems hold
without: two units in the server's cart, two profile requests at once while no run is under
way or was interrupted; one provider order ended at a time, two loads at once while none
has ended and no button is pressed. Symmetry of users and of calls is sound: no instance
distinguishes them, and there is no liveness here.

- `Cart`: a mutation is one READ COMMITTED transaction in four steps (begin, group,
  line, sum and commit) with the row locks it has taken; the checkout reads the totals
  and the items in two statements. `crossed` records that mutations of different lines
  were under way at once or one committed between the two readings: the stored total may
  then be stale, and is what is charged.
- `Catalogue`: edits and applications of imports read, decide and write; sales go on.
  `counted` is what was last stated less what was sold.
- `DeliveryPricing`: cents and hundredths of kilometres, every rounding of a half either
  way. The summary's `toFixed` and the checkout's `Math.round` differ by a cent at most.
- `PaymentAccounts`, `Donations`, `Roles`, `Incidents`, `Tracking`, `Risk`,
  `EmailSettings`: one action a statement, or a locked transaction; the head of each
  module says which. `Roles` holds the user's row lock in the state (`Free`).
- `AccountEmails`: each request makes one token, which bears its name. The look-up, the
  limit, the saving and the sending are four steps, use is two. `crossed` marks tokens
  that were stored while an older one was in use or could still fail to be sent, since
  both clear whatever is stored.
- `GuestCart`: a step is what runs between two awaits of the two React contexts. Every
  change of page and every login starts a `GET /auth/me`, as many at a time as `Ask` has
  members, and each answer is applied whatever has happened since, a login included. While
  a run migrates the guest cart, the lines of the server's cart can be updated (only
  `addItem()` waits for the run). `interrupted` records that a run lost an answer or was
  left with the page, after which units may be there twice but none is missing; `edited`,
  that the guest cart was edited under a run, which overwrites the edit.
- `PaymentsPage`: loads and preparations whose answers come in any order. A provider order
  that has ended may become payable again, as often as an activation that began before its
  end commits or is refused (`Activate`, `ActivationFails`). An answer "covered" that was
  right when it was given and that such an activation made wrong is `outdated`, which the
  page cannot tell from the other; `CoveredMeansPaid` excepts it until the page asks again.
- `LiveMap`: the gateway's limit and query for the positions of the runner, and the page
  with its initial load, socket, watch and projected route; the effect that projects a
  route cancels its last request by a flag, after which its answer must not be shown.
- `DemoDataset`: the steps of the seeding as a sequence of kinds; the database holds a
  first part of it.

## 3. Runs

| Run | Instance | What it shows |
|---|---|---|
| `pp_siblings` | one order, two provider orders of different products, a session each; the sweep, short retries, a cancellation, one fault. And two orders for one product with 0, 1 or 2 units, a cancellation | `AllPaidConfirms`, `ConfirmedMeansAllPaid`, `UnitsConserved`, `TerminalMeansPaid`, `BothImplementSettlement` |
| `pp_overlap` | one provider order prepared twice; all the rest as in `pp_siblings` | `NothingToReconcile`, `NeverChargedTwice`, `CapturedIsConfirmable`, `PaidIsFinal`, `ImplementsSettlement` |
| `pp_liveness` | as `pp_siblings` without the sweep and short retries | `CapturedIsSettled` |
| `checkout` | four requests, two clients, two keys, one product, one crash | `TypeOK`, `RetriesAgree`, `CheckedOutIsOrdered`, `ImplementsPlacement` |
| `refunds` | requests of 2, 1 and 2 on a payment of 3, a full refund of another payment, two calls in flight, two requests an actor | `RefundedOnce`, `CompletedIsRefunded`, `CommittedWithinCapture`, `CompletedStays`, `ImplementsLedger` |
| `delivery` | a delivery, one runner, two payment sessions | `SessionsMatchIntents`, `ProcessedIsRecorded`, `CaptureIsRecorded` |
| `services` | two users, two calls; one of seventeen services | `TypeOK` and one property for each of sixteen: `OneRunner` (Delivery), `OrderFollowsGoods` (OrderFulfilment), `CompletedIsCaptured` (Donations), `AuditTellsRoles` (Roles), `LimitsHoldButForOverlap` (Incidents), `EachCauseCountsOnce` (Risk), `TotalIsOfLines` (Cart), `MigrationKeepsUnits` (GuestCart), `SalesSurviveEdits` (Catalogue), `OneAccount` (PaymentAccounts), `UpdatesAreSpaced` (Tracking), `SecretSurvives` (EmailSettings), `PartsAddUp` (DeliveryPricing), `CoveredMeansPaid` (PaymentsPage), `LinksWork` (AccountEmails), `RouteIsOfShown` (LiveMap) |
| `claim_*` | the instance of the finding | one property each, refuted |

Bounds. Every race of the code is between at most two rows of a kind: two sessions of
a provider order, two provider orders of an order, two orders for a product, two runners
for a job, two mutations of a cart. Each instance has its races once, and one fault is
enough to interrupt each handler at each place. One unit a provider order and a stock of
at most the demand make every comparison of the stock go both ways. In `checkout` the
four requests are the least that have a retry, a foreign use of the key and a second
key; two carts are the least that can hide one another; the request and its retry may be
exchanged, and TLC is told so. In `refunds` three amounts give
requests that fit together and requests that do not, and the limit of requests (3 in the
code) is 2 so that it is reached. Limits of `Incidents` (10 a day, 3 a delivery) are 2
and 1, and two calls exceed them by one. `Risk` has two causes of a capped category and
one of another. `DeliveryPricing` takes fees and distances whose products end on a half
cent and lie on both sides of each limit. `Tracking` and `AccountEmails` have clocks of
three ticks, longer than the interval and the lifetimes together. `LiveMap` has two
positions, so that one can overtake the other. The theorems of section 5 hold without
any of these bounds.

Fairness. `ProviderPayment.FairSpec`: Stripe repeats a delivery that was not answered
200 (`WF` of `Redeliver`); the five minutes after which a `RECEIVED` event may be claimed
again pass (`WF` of `WindowElapses`); a handler that is running takes its next step
whenever the row locks it waits for are free again and again (`SF` of `Confirmation`:
PostgreSQL queues the waiters of a row lock). `RunnerPayment.FairSpec`: Stripe delivers
an event at least once and its handler goes on, though each of its steps may be the one
that fails (`WF` of `Webhook`; it takes no lock that others hold). Nothing else is
assumed: no preparation, payment, cancellation or sweep ever needs to happen.

`CHECK_DEADLOCK FALSE`: a finished order, or a client that does nothing more, is not an
error, and every instance is finite.

### Where the code falls short of what is written

- `claim_ignored_conflict`: a settlement that finds no stock is answered 200 as if an
  overlapping webhook had settled it. This is why `CapturedIsSettled` asks for stock.
- `claim_oversell`: the reservations are written after the transaction that checked
  the stock, so two checkouts can promise the same units. The settlement's conditional
  decrement keeps the stock itself from going negative.
- `claim_delivery_table`: an assignment read before the pickup takes a delivery that is
  on the road back to `RUNNER_ASSIGNED`, under another runner.
- `claim_runner_paid`: the handler of a failure event reads the delivery before a payment
  of the same session is recorded, and writes after it
  (`delivery-runner-webhook.service.ts:175`, `:207`): a paid delivery is payable again. A
  failure event of an older session that has been replaced ends the same way.
- `claim_demo_repair`: the repair of partial demonstration data at a boot deletes the
  administrator it acts as, and stops at the first role it grants; every later boot
  repeats it.

### Noticed while modelling

These are behaviours of the code that the models contain. No document says otherwise, or
a property excepts them by name.

Orders and payments:
- `claim()` refuses an event that is `RECEIVED` and younger than five minutes, and the
  delivery is answered 200: if the first handler died, Stripe stops. `pp_liveness`
  therefore has `RetryInWindow = FALSE`.
- `evaluateReadyForAssignment` promotes an order that was cancelled after it read it; a
  second cancellation then returns what the first left out, a part of what was sold.
- Two overlapping cancellations of one order restore the same units twice: `UnitsConserved`
  and the refinement are checked and proved with one cancellation of an order in flight at
  a time.
- The activation writes a provider order's status whatever it is, also `CANCELLED`
  (`provider-payment-intent-activation.service.ts:168`), so that a payments page which was
  told that it is covered is outdated until it asks again; cancelling a `PENDING` order
  keeps the units its paid provider orders consumed (`order-status.service.ts:327`);
  `expireReservations` can overwrite a consumed reservation (`orders.service.ts:203`;
  nothing calls it at this commit).
- Overlapping checkouts with different keys turn one cart into two orders
  (`checkout-cart-validation.service.ts:54`); a retry can be refused for the stock its own
  order reserved (`checkout-order-creation.service.ts:64`). The checkout page makes a new
  key for each click, so a second click is no retry.
- A total that is stale after crossing mutations of different lines is what the checkout
  charges; overlapping additions of one product can lose one; a cart can come to hold
  products of two cities.
- The reconciliation's warning of provider payments whose order is not completed omits
  `READY_FOR_ASSIGNMENT`, and a `PAID` provider order of a `PENDING` order, which it also
  lists, is normal between the payments of siblings.
- Provider orders paid by Stripe have no entry in the transition table
  (`state-machine.ts:59-90`).

Fulfilment and delivery:
- A provider who decides before the cash payment leaves the order `CONFIRMED` for good:
  nothing evaluates its readiness again.
- The legacy cash payment ignores the count of its conditional decrement.
- The propagation of a pickup writes `IN_TRANSIT` without condition and can take an order
  back from `DELIVERED` (`order-status.service.ts:228`).
- `selectRunner` overwrites the runner of an order asking only for its status
  (`runner.service.ts:140`), and replaces parts of the fee while leaving `deliveryFee`. If
  the order has a delivery order, the two then have different runners, where
  `docs/delivery-job-acceptance-spec.md:31` writes both; `OneRunner` excepts it. The
  dispatch of a delivery order overwrites `Order.runnerId` in turn.
- The update of an expired job is rolled back by the exception that reports it.
- A claimed event of a runner payment whose handler died is never claimed again.
- The jump check of a position only runs inside the interval in which an update is
  refused anyway, so `docs/delivery-tracking-spec.md:40` has no effect; a runner with two
  deliveries is limited for each of them.
- Overlapping reports exceed the limits of incidents; a crash between a cause and its
  score leaves the snapshot stale until the next cause.
- The initial load of the live map replaces a newer position that came by socket; it
  reads the status once, so a runner whose page loaded a closed delivery can neither start
  nor stop, and one that loaded `RUNNER_ASSIGNED` cannot start; after an error of the
  device the watch is not cleared, and the next start forgets it
  (`frontend/components/tracking/DeliveryMap.tsx:244-251`); two tabs lift each other's
  rate limit; positions sent by socket are never stored.

Refunds, donations and accounts:
- Two overlapping requests for a refund together ask for more than was captured
  (`docs/refund-request-query-spec.md:31`). The execution checks again under a lock, so no
  more is committed; if both are approved, each is refused for the other's sake and
  neither can be rejected any more. When two calls execute one refund, the error handler
  of one overwrites the outcome of the other (`refunds.service.ts:393`): `CompletedStays`
  and `CommittedWithinCapture` except such requests. A refund whose answer was lost is
  `FAILED` although Stripe made it.
- Two onboardings that overlap make two accounts; a runner who becomes a provider cannot
  get a row for the second role, since `externalAccountId` is unique.
- Two administrators can revoke each other's role.
- A request for an e-mail that overlaps another passes the limit of 90 seconds with it; a
  reset link that is stored while an older one is being used is lost.
- Saves of the e-mail settings that overlap can lose a kept secret; the settings are read
  in two statements.

Catalogue and frontend:
- An import applied twice at once creates its rows twice or states its stock twice; a
  `discount_price` that cannot be parsed silently means no discount; a client's discount
  is not checked again when the price falls, but is ignored where it is used.
- A lost answer or a reload in the middle of the migration of a guest cart doubles units,
  an edit under a run is lost, and a late `getProfile` signs a visitor in again after the
  logout.
- The payments page takes an unassigned runner for one that needs no payment, and may show
  an order as covered before its delivery is asked for.

Demonstration data: what a boot finds is judged by counts, so that data that lack only
the lifecycle of the last delivery pass for whole; cleaning up misses the prefix
`demo_runner_evt_`; roles, discounts or orders given to demonstration users by hand make
it fail; seedings that overlap can duplicate products.

## 4. The abstract specifications

`OrderSettlement` has four variables and three actions. `Sell` takes the units of an
unpaid provider order from stock that has them, and confirms the root order in the same
step if it was the last; `Cancel` returns only what was sold and has not come back, and of
a confirmed order all or nothing; `Promote` follows payment. `ProviderPayment` implements
it under the mapping `paid <- Paid` (the provider orders whose `paymentStatus` is `PAID`),
the other variables mapping to themselves: only `Commit`, `CommitCancel` and
`PromoteOrder` are not stuttering steps. `pp_siblings` checks the refinement for siblings
and for contending orders, `pp_overlap` for a provider order that is prepared twice, and
`SettlementImplemented` proves it for every instance.

The proof found `Cancel` too strict: of an order that was promoted after it had been
cancelled, a later cancellation returns just what the first left out, a part. `Cancel`
allows that now, for promoted orders only; none of the runs' instances reaches it.

`OrderPlacement` has two actions. `PlaceOrder` gives a key that has none an order and closes
one of the client's carts, in one step; `ShowOrder` answers a request, once, with what its key
names, if that is its own client's. `StockCheckout` implements it: `orderOf` is the order
under each key (`OrderOf`), `closed` the carts that are `CHECKED_OUT`, `shown` the answers.
Look-ups, reservations, settlements, the P2002 path and crashes are stuttering steps, or one
of the two. The abstract specification leaves open which cart is closed and whether
it already was, because overlapping checkouts under different keys may order one cart twice.
`checkout` checks it, `PlacementImplemented` proves it; that no client is shown another's order
(`AnswerIsOwn`) is part of it.

`RefundLedger` has two actions. `Decide` approves or rejects an open request, for good;
`Refund` moves the amount of an approved one, once, in one step and within what its payment
captured. `Refunds` implements it: a request that is being executed, or was, is approved, and
its money has moved as often as Stripe made a refund of it. What calls write into a row and
what their answers tell them is not in the mapping: the money is at Stripe, and neither a
`FAILED` that overwrites a `COMPLETED` nor an execution that is repeated moves it again.
`refunds` checks it, `LedgerImplemented` proves it; that no money moves without approval
(`RefundedWasApproved`) is part of it.

## 5. What is proved

Assumptions: the named `ASSUME` of each module. They give constants their types (each
order has a provider order, units add up, limits and clocks are numbers), say that the
null value is none of the rows, and that the calls, providers and causes are finitely
many where they are counted or added up. Nothing bounds how many orders, provider
orders, products, sessions, cancellations, requests, payments, users, runners, calls,
lines or causes there are, nor any amount. A theorem
`Spec => []P` follows from an inductive invariant (`...Inv`), whose `Init` and `Step`
lemmas come before it, with one step for each action; the action properties and the
refinement use the same invariants.

`ProviderPaymentProofs`:

- `TypeCorrect`: `Spec => []TypeOK`. That `stock` stays in `Nat` is the part with
  content, and not inductive: `TypeInv` adds that a settlement about to commit saw
  enough of each product (`SettledInStock`) and that two such settlements share no
  product (`ProductLocks`). `Commit` takes units that are there, and takes nothing from
  the other settlements.
- `PaidStaysPaid`: `Spec => PaidIsFinal`, step by step from the types.
- `AllPaidIsConfirmed`, `ConfirmedIsAllPaid`: from `ConfirmInv`. The settlement decides
  on a reading of the siblings and writes in a later step; `OrderLocks` (one settlement
  of an order holds its lock) keeps the reading true until then (`SeesSiblings`).
  `PaidStatus` says no other step moves a paid provider order away from `PAID` while
  the root order is pending or confirmed, and `CancelsOwn` that a cancellation touches
  its own order only.
- `OnlyOneOpenSession`: only `CreateSession` opens a session, and it expires the others
  of the provider order in the same step (`OpensNoSession`).
- `NothingIsToReconcile`: the same, and that a `PAID` provider order has a completed
  session: only `Commit` pays (`OnlyCommitPays`), it completes its session in the same
  step (`PaidHasSession`), and a completed session stays so (`CompletedStaysSo`).
- `CapturedIsConfirmableAlways`, `NeverChargedTwiceAlways`: from `CaptureInv`. A client can
  pay an intent at any time after its session was `READY`, so the invariant speaks of all
  intents that were ever given out: such a session is open or completed and is the one the
  provider order refers to (`PayableIsReferred`). Then the next preparation finds it
  again instead of replacing it, a late activation of another finds itself superseded,
  and two captured sessions of a provider order would both be what it refers to.
- `TerminalMeansPaidAlways`: from `EventInv`. A handler closes its event a step after it
  committed or was told of a payment; what it saw is never taken back
  (`ClosingMeansPaid`).
- `SettlementImplemented`: `Spec /\ []SerialCancellations => ImplementsSettlement`. That
  nobody pays a provider order between the check and the commit is `LockInv`; `StatusInv`
  relates the statuses to what was sold and returned, and says of each cancellation
  under way that what it is going to return was sold and has not come back
  (`ReturnsSold`).
- `UnitsAreConserved`: `Spec /\ []SerialCancellations => []UnitsConserved`, along the sales
  and returns of the refinement.
- `NoUnitIsLostAlways`: `Spec => []NoUnitIsLost`, without that hypothesis. What a settlement
  takes from the stock it sells (nobody has paid the provider order meanwhile, `LockInv`),
  and a cancellation returns at least what it records as returned. So overlapping
  cancellations can make units out of nothing, but no overlap loses any.

`SerialCancellations` says that two cancellations of one order are not under way at once.
It is a hypothesis, not a fact: the code can break it, and then returns the same units
twice (section 3). Cancellations of different orders may overlap. The runs have one
cancellation.

`StockCheckoutProofs`:

- `RetriesAgreeAlways`, `AnswersAreOwn`: from `KeyInv` (keys of the orders are unique,
  a handler about to reply created its order, an answer is an order of the request's
  key and client).
- `CheckedOutIsOrderedAlways`: from `CartInv` (the cart a handler has read is still
  there, and a request that is not past its transaction has no order).
- `CheckoutTypes`: `Spec => []TypeOK`; a settlement takes only stock that is there, and
  the positions of carts need `CartInv`.
- `PlacementImplemented`: `Spec => ImplementsPlacement`. The key that `CreateOrder` takes was
  unused, and names that order from then on, because keys are unique (`KeyInv`); the cart
  closed with it is there (`CartInv`); and an answer replaces none, because it ends its
  request (`AnsweredAtEnd`).

`RefundsProofs`:

- `RefundTypes`; `RefundedOnceAlways`, `RefundedWasApprovedAlways` and
  `CompletedIsRefundedAlways` from `StripeInv`: what was sent is keyed by its request
  (`KeysOfRequests`) and was approved (`SentWasApproved`), and a call that was told of a
  refund is right (`CallsSent`).
- `CommittedWithinCaptureAlways`, `CompletedStaysAlways` from `CapacityInv`. Two calls on
  one request are recorded as overlapped (`Exclusive`), so a call alone on its request
  finds it still `EXECUTING` (`AloneExecuting`) and its outcome commits nothing new.
  Only `PrepareExecution` commits more, and `TotalMonotone` bounds what is committed by
  what it counted.
- `LedgerImplemented`: `Spec => ImplementsLedger`. What is on the wire belongs to a request
  that was approved, which no later step un-approves (`SentWasApproved`); Stripe processes a
  key once, and a key has one request, so the count of a request's refunds goes from zero to
  one and no further (`RefundsCounted`); Stripe's own limit keeps the total within the capture.

`DeliveryProofs`: `DeliveryHasOneRunner` and `DeliveryTypes`, of `Delivery` alone, with the
root order's acceptance and selection among its steps. A job is published with the delivery,
so it has no claims (`JobHasDelivery`); an acceptance of the root order finds it without a
runner, and so finds no delivery that has one.

`RunnerPaymentProofs`:

- `OneRunnerAlways`: the same with the steps of the payment among those of the delivery,
  which write back a status they read before.
- `SessionsMatchIntentsAlways`, `ProcessedIsRecordedAlways`: from `PaymentInv`. An intent
  that can be paid has a session and belongs to a delivery with a runner
  (`PayableHasSession`), an event of success is of a captured intent
  (`EventsAreCaptures`), and everything that says the delivery is paid was written along
  with its reference (`PaidHasReference`).

`OrderFulfilmentProofs`: `OrderFollowsGoodsAlways` and `FulfilmentTypes` from `FollowInv`.
The writes are blind, so the invariant says what their authors read: that an evaluation
can only promote an order whose goods are prepared and is due once (`PromotedOnce`; an
order won by a runner is not offered again), and that whoever is about to write
`IN_TRANSIT` has seen the goods picked up (`CarriersPickedUp`).

`DonationsProofs`: `CompletedIsCapturedAlways` from `Captured` (a handler that is about to
write a success, and a session that is completed, have a captured intent, and a reference
that is written names one of them), `OneReadySessionAlways`, `IgnoredIsPaidAlways`,
`DonationTypes`.

`ServicesProofs`, the properties of the other services, each of the service's own
specification:

| Theorem | Why it holds |
|---|---|
| `AuditTellsRolesAlways`, `ApprovedIsHeldAlways` | a request writes a set that it read some steps before; one request at a time holds the row of a user, and what it has read is what is there (`LocksHold`), which is why the whole set can be written back |
| `LimitsHoldButForOverlapAlways` | a request that has counted and not inserted is room taken: rows and such requests together stay below the limit and one for each call (`RoomFor`) |
| `EachCauseCountsOnceAlways` | a cause has one row, and a sum over fewer causes is no greater; so no recalculation, however old its reading, exceeds the score of all causes told |
| `TotalIsOfLinesAlways` | unless mutations have crossed, one at most has written a line that it has not committed, and nothing commits between its sum and its commit (`SumsAreOfLines`) |
| `MigrationKeepsUnitsAlways` | a run has left what it has yet to post, and what it is posting is among it (`RunInv`); until it stores that, the guest cart holds what it did when the run began, unless it was edited (`ItemsInv`). Who is shown to be signed in plays no part |
| `SalesSurviveEditsAlways` | without overlap one application of the import at most is under way, of a job not applied yet; what it writes is what is counted (`ImportSteps`) |
| `OneAccountAlways` | without trouble one request at most is making an account; what is at Stripe is what it holds, then what the user holds (`AccountSteps`) |
| `UpdatesAreSpacedAlways` | one update holds the lock of a delivery, and the time it compared with stays the last |
| `SecretSurvivesAlways` | a save that crosses no other has read what is in effect when it stores; the older row is deleted only once the newer is there (`SaveSteps`) |
| `PartsAddUpAlways` | the fee is the sum of its parts with some rounding of the kilometres, and two roundings differ by a cent at most |
| `CoveredMeansPaidAlways` | each answer, in flight or shown, says covered only of what is paid or over, or is marked as outdated (`Right`): payments are final, and the one step that reopens a provider order marks every answer about it |
| `LinksWorkAlways` | the token that a request stored is the one there, or excused; whatever may clear a token stored the one it clears, or that one is marked |
| `RouteIsOfShownAlways` | an effect is due, or its last request is for what is shown, or the answer to that was taken |

`TypesAlways`, of the services together: `Spec => []TypeOK`. A step of the service in focus
is a step of that service (`FocusedSteps`), so that a behaviour of the container is one of
each service's own specification (the lemma `EachServiceRuns`), whose types are proved
there. They are not inductive where something is added up: the stored total of a cart is a
sum of its lines, whatever crossed (`SumBounded`, `UnitsAreBounded`), and a score is a sum of
the causes read, cut off at its cap (`ScoreIsSum`). `DemoDataset` has only this: the run
about it refutes what it should promise.

Induction. The library's induction theorems take an operator, which the provers cannot
instantiate. Where a proof needs induction over numbers or finite sets (a set of numbers
has a greatest element; the recursive sum of `MapThenSumSet` exists and grows), it goes
through the least counterexample: `LeastNumber` follows from the library's
`NatLessThanWellFounded` and `WFMin`, and a set is taken by its cardinality.

Only model-checked: `CapturedIsSettled` and `CaptureIsRecorded`, because liveness under
fairness and `ENABLED` are outside what the prover does; and `BothImplementSettlement`, which
is `ImplementsSettlement` of two instances at once, where `SettlementImplemented` is of
any. Every other property of a passing run is a theorem.

## 6. Not modelled

- Sessions, sign-in, the second factor, guards of routes, signatures and ownership checks:
  what could be stated of them is about security, which is not the subject here.
- Amounts, metadata and accounts of a webhook: a mismatch is a failing confirmation. A
  commit whose acknowledgement is lost: the activation would then fail a session that is
  `READY`. A handler that is still running five minutes after its claim: the timeout of an
  interactive transaction is seconds. The 24 hours after which Stripe forgets a key.
- `ProviderPayment` beyond `READY_FOR_ASSIGNMENT`, and `OrderFulfilment` for orders of
  several providers (which cannot be paid in cash).
- Currencies, types and readers of refunds; the risk event of a request and the back-fill
  of a payment account. The second, unrouted copy of the preparation in
  `orders.service.ts`.
- Overlapping seedings of the demonstration data; the sending of e-mail, templates,
  geocoding, metrics and base data, which are I/O without retries or queues.
- Administration of providers, categories and cities beyond roles: single statements
  without protocol.
- The other pages of the frontend. They load, show, send one request and load again; they
  keep nothing across requests that a server's answer does not replace, and the requests
  they send are those the models already allow in any order. With their components,
  wording and layout, the controllers and their DTOs, the read-only queries and the seed
  data they are well over half of the lines of the repository, which is why the share of
  lines the map covers stays far below the whole although every
  service with a protocol of several steps is in a module, but for those named above.

## 7. Plan

1. Models: fulfilment of a dispatched order with several providers; overlapping seedings of
   the demonstration data.
2. Abstract specifications of what is proved property by property so far: the payment of a
   runner, and the donation, as a ledger of captures.
3. Liveness: `CapturedIsSettled` rests on the fairness of row locks; a proof needs a prover
   with rules for `SF`.
