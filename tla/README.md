# A verification project for gas-tam-de

gas-tam-de sells bottled gas: customers order from a phone app, admins settle
the orders at an "order desk", and seven small Go services with one SQLite
database each keep catalog, orders, stock, debts and figures, connected by
synchronous HTTP calls and by NATS JetStream events. This directory holds TLA+
models of the parts where these services can disagree with one another, TLC runs
over small instances, and TLAPS proofs for all instances.

Paths below are relative to `src/`; `services/order-service/create_order.go` is
shortened to `create_order.go` where the service is clear.

## 1. The system

| component | state it keeps | operations | how it talks to others |
|---|---|---|---|
| order-service, orders | `orders`, `order_items` | create, cancel (customer), complete (desk), lists | calls inventory (reserve, release), billing (payment), catalog, geo, auth; publishes `order.placed`, `order.completed`, `order.cancelled` |
| order-service, fees and desk settings | `delivery_fee_settings`, `delivery_fee_rules`, desk settings | admin PUT, quote, match of a distance | read by create and quote |
| inventory-service | `stock_items`, `stock_movements`, `processed_events` | reserve, release, admin movements, two consumers | consumes `order.completed`, `catalog.product.updated` |
| billing-service | `payments`, `debts`, `debt_ledger` | record a payment, list debts | publishes `billing.payment.recorded`, `billing.debt.updated` |
| report-service | `daily_stats`, `dashboard_snapshot`, `customer_debt_balances`, `processed_events` | three consumers, dashboard queries | consumes `order.placed`, `order.completed`, `billing.debt.updated` |
| catalog-service | `products`, `product_price_history` | product CRUD | publishes `catalog.product.updated` |
| auth-service | users, OTP challenges, refresh tokens, admin accounts and phones, in-memory rate limits | OTP request and verify, refresh, logout, admin login and administration | called by the app through the gateway |
| api-gateway | in-memory rate limits | JWT check, roles, rate limit, audit, proxy | in front of everything |
| geo-service | store settings, geocoding cache and slot | range check, search | called by order-service and the app |
| pkg | JetStream connection | connect in the background, ensure streams, publish | used by all services |
| Flutter app | session, cart, polled order lists, alarm | screens | calls the gateway |

What makes the system hard to get right:

* **An order is visible before it is placed.** `handleCreateOrder` commits the
  PENDING row, *then* asks inventory-service for the stock. Customer and desk can
  act on the order in between.
* **Three handlers write one row.** Complete reads the status outside a
  transaction and updates later; cancel does both in one transaction; create
  sets CANCELLED without a condition when the reservation fails.
* **Calls time out while they are applied.** No call carries an idempotency key
  except the payment (unique per order) and no call is repeated.
* **Events are published after the commit, and a failure is only logged.**
  Consumers get what was published at least once, possibly again after later
  events, and remember event ids in their database.
* **A refresh token can be used once.** Its rotation may be answered late, or not at
  all, while the app signs out, signs in or is closed, and accounts change
  between two rotations.
* **A crash ends every request between two of its steps** and nothing resumes it.
* **Read-modify-write without a transaction** in the catalog, the fee rules, the
  accounts and the singleton settings: the row is loaded, merged with the body of
  the request and written back whole, whatever was stored meanwhile.
* **A quote and an order read three services** one after the other, and the
  toggle and the rules of the delivery fee in two statements; nothing holds still
  in between.
* **A handler reads the clock, then waits for a mutex or a connection**, so limiters
  and one-time codes meet times out of order.
* **Waiting that may be given up**: searches queue for one turn at the geocoding
  provider; the broker may be down when a service starts, and the service may
  stop while it is still connecting.

What each component must get right, as the properties below state it: an order is
settled or cancelled, once; stock follows orders and the movement ledger explains
it; debts follow settled orders and their ledger explains them; statistics count
each order once; every request ends and every event delivered is counted; a
sign-in has one usable session, which ends for good and carries the role of its account;
a code signs in once and only the newest one does; the customer pays what was quoted
unless an admin changed something; every price on sale is on record and no two fee bands
overlap; no quota is exceeded, no search starves, no connection is left behind.

## 2. The modules

| module | models | EXTENDS |
|---|---|---|
| `Shop` | ids, carts | |
| `Orders` | create, cancel and complete handlers of order-service, their calls and events, crashes | `Shop` |
| `OrderLifecycle` | the abstract life of an order | |
| `Orders_proofs` | inductive invariant, refinement of `OrderLifecycle`, theorems | `Orders`, `TLAPS` |
| `Inventory` | the transactions of inventory-service | `Shop` |
| `OrderStock` | order-service with inventory-service, JetStream and the stock admin | `Orders`, `Inventory` |
| `OrderStock_proofs` | refinement of `Orders`, theorems on stock and ledger | `OrderStock`, `Orders_proofs`, `Sums` |
| `Accounts` | customers | `Shop` |
| `Billing` | the transactions and publications of billing-service | `Accounts` |
| `Report` | the consumers of report-service | `Accounts` |
| `Money` | order-service with billing-service and report-service | `Orders`, `Billing`, `Report` |
| `Money_proofs` | refinement of `Orders`, theorems on debts and statistics | `Money`, `Orders_proofs`, `Sums` |
| `AllowList` | the phones whose accounts are admins | |
| `Sessions` | sign-in, refresh and logout of auth-service | `AllowList` |
| `Sessions_proofs` | inductive invariant of `Sessions`, for any client | `Sessions`, `TLAPS` |
| `AppSession` | the session an installed app holds, with `Sessions` | `Sessions` |
| `AppSession_proofs` | theorems about the two together | `AppSession`, `Sessions_proofs` |
| `Editing` | the editors of settings and the merge of a body with a row | |
| `Catalog` | products, price history and announcements | `Editing` |
| `Fees` | bands of the delivery fee, their check and their match | `Editing` |
| `Store` | place and radius of the store | `Editing` |
| `Checkout` | quote and order, next to the admins who edit what they read | `Catalog`, `Fees`, `Store` |
| `Checkout_proofs` | inductive invariant, theorems | `Checkout`, `Sums`, `TLAPS` |
| `Limits` | the sliding windows of auth, gateway and geo | |
| `OneTimeCode` | what a one-time code promises | |
| `Otp` | challenges: request, verify, attempts, expiry, use | |
| `Geocoder` | the turns of searches at the provider | |
| `Connection` | the background connector to NATS | |
| `AdminAccounts` | accounts of admins: seed, create, patch | `Editing` |
| `DeskSettings` | thresholds of the order desk | `Editing` |
| `Services` | the six modules above, side by side | all of them |
| `Services_proofs` | an invariant per part, refinement of `OneTimeCode` | `Services`, `Sums`, `TLAPS` |
| `Sums` | least numbers, and what a sum over a finite set is | `TLAPS` |
| `MCOrders`, `MCOrderStock`, `MCMoney`, `MCAppSession`, `MCCheckout`, `MCServices` | instances for TLC | |

### Orders

State is the two tables (`status`, `payment`, `cart`, `costed`, one entry per
order), a program counter for every handler (`placing`, `cancelling` per order,
`desk` per admin request, with the local variables a complete handler carries
from one statement to the next), one message per remote call (`none`, `sent`,
`applied`, `refused`, `lost`), and the events published. A database statement or
transaction is one step (SQLite is opened with one connection,
`pkg/sqlite/sqlite.go:23`), a remote call is a step to send it, a step of the
callee and a step that returns. A caller may return before the callee has acted.

| code | actions |
|---|---|
| `create_order.go:110` `handleCreateOrder` | `CreateOrder` (to the commit), `CallReserve`, then `ReserveSucceeded`, `StoreItemCost` per line and `PublishOrderPlaced`, or `ReserveFailed` |
| `cancel_order.go:29` `handleCancelMyOrder` | `CancelMyOrder` (to the commit), `CallRelease`, `ReleaseReturned`, `PublishOrderCancelled` |
| `complete_order.go:60` `handleCompleteOrder` | `LoadOrder`, `SettleOrder` or `SettleConflict`, `PostPayment` or `LoadItemsFailed`, `PaymentReturned`, `PublishOrderCompleted` |
| process exit | `OrderServiceCrash` |
| the callees | `ReserveEnds`, `ReleaseEnds`, `PaymentEnds`, `CallLost` |

A crash may come between a commit and the call that follows it: the order stays
PENDING and never reserved, or CANCELLED and never released. `storeItemCosts` skips a
line whose UPDATE fails, so `PublishOrderPlaced` may follow `StoreItemCost` at any
line. The UPDATE after a failed reservation drops its error too: with `Unreliable` the
order may stay PENDING although its customer was told it was refused.

Two constants describe the environment. `EarlyAccess` says whether anyone acts on
an order before its placement has ended (`Reachable`); the code allows it, and it
is FALSE only in runs that ask what holds when nobody does. `Unreliable` says
whether calls and publications can fail or be late, and statements fail whose
error the code drops. Validation, addresses, the delivery range
and the wording of answers decide whether a request gets to its
transaction and are left out; a request that fails earlier writes nothing.

### Inventory and OrderStock

`Inventory` has one action per transaction: `Reserve`, `Release`
(`reserve.go`), `AcceptCompleted` and `DeductCompleted` (`order_completed.go`),
`ProductUpdated` (`product_updated.go`), `MoveIn`, `MoveOut`, `Adjust`
(`stock_api.go`). The ledger is kept as totals per kind, reference and product.
`OrderStock` serves the calls of `Orders` with them. Reserve and release do not
use the context of the request, so they are applied even when the caller has
gone. `SkuTaken` holds the products whose row cannot be created because another
row has their SKU.

### Billing, Report and Money

`Billing` has `RecordPayment` and `RepeatPayment` (`record_payment.go`), and the
publication of the balance after the commit as a step of its own
(`AnnounceDebt`, `AnnounceFails`). `Report` has one action per consumer
(`ApplyOrderPlaced`, `ApplyOrderCompleted`, `ApplyDebtUpdated`), which
updates a day, or a balance, and records the event id in one transaction.
`Money` connects them to `Orders`. The day an event falls on is left open,
since it depends on the clock of report-service for some events and on a
timestamp of the order for others. The balances of one customer are delivered in
the order of publication unless `Unreliable`.

### AllowList, Sessions and AppSession

`sessions` is the table, in order of insertion. A refresh token belongs to one row
and is known by its hash, so it is identified with the number of the row;
`login`, the row a session descends from, is not in the table and serves the
properties. `Refresh` is the transaction of `handleRefresh` (`refresh.go:92`): it revokes the
row and inserts the next one with the role the account has then (`RoleOf`).
`AllowList` has the table `admin_phones`, where a delete counts in one statement and
deletes in another. `SessionsSpec` lets any client send anything.

`AppSession` is `AuthSessionNotifier` of the app: what it holds (`app`), what is on disk
(`disk`, which follows later), and one record per call under way.

| code | actions |
|---|---|
| `auth_session.dart:135` `refresh`, `_refresh` | `StartRefresh`, then `AcceptRefresh` or `RejectRefresh`, then `RefreshReturned` or `RefreshLost` |
| `auth_session.dart:206` `logout` | `PressLogout`, `ServeLogout`, `LogoutReturned` or `LogoutLost` |
| `google_auth.dart:93` `_exchange`, `admin_login_page.dart:34` `_submit` | `StartSignIn`, `CheckPassword` (admins), `ServeSignIn`, `SignInReturned` or `SignInLost` |
| `auth_session.dart:108` `bootstrap` | `AppInit`, `Relaunch` |
| `api_client.dart:37` `onError` | `FreshTokenRejected` |

Access tokens are left out: any request may find its token refused, so a refresh may
start whenever there is a session. The app no longer signs in with an OTP, but
may hold the session of a release that did.

### Catalog, Fees, Store and Checkout

| code | actions |
|---|---|
| `catalog-service/products.go` `handleCreateProduct` | `CreateProduct`, `ReloadProduct`, `AnnounceProduct` |
| `handlePatchProduct` | `LoadForPatch`, `CommitPatch` or `RefusePatch` (the sku is taken), `ReloadProduct`, `AnnounceProduct` |
| `admin_delivery_fee.go` `handlePutAdminDeliveryFee`, `saveDeliveryFeeConfig` | `PutFees` (merge and check), `SaveFees` (one transaction) |
| `geo-service/store.go` `handlePutAdminStore` | `PutStore`, `SaveStore` |
| `quote_order.go` | `AskQuote`, `CheckRange`, `SumPrices`, `ReadToggle`, `AnswerQuote` |
| `create_order.go` up to the commit | `PlaceOrder`, `CheckRange`, `PrepareLines`, `ReadToggle`, `InsertOrder` |
| either, at any point | `RequestFails` |
| a service starts again, with or without its seed | `CatalogRestart`, `FeesRestart`, `StoreRestart` |

`Acceptable` is the check of a PUT: it sorts the active bands and compares each with
the next. `BandFee` is the lookup: the first rule, in another order, that covers the
distance. `OneBandPerDistance` is what ties them. A distance is a number of some unit
and `Distance` the table of distances between places: the code rounds haversine to
floats, which the bands only compare. `priceHistory`, the rows of
`product_price_history` per product, and `productEvents`, the announcements, are
what others see of the catalog. `feeLog` (every list of rules there has
been) and `steady` (nothing stored since the quote began) serve the properties.
The sum is defined twice, as it is written twice: `SumPrices` adds up prices times
quantities, `PrepareLines` makes the lines that will be stored and sums their totals.
The check of the range and the fee are one definition each, the second because the
code has one (`computeDeliveryFee`). `InsertOrder` is one step for the second read and the
transaction, as nothing the order costs is read in between.

### Limits, Otp, Geocoder, Connection, AdminAccounts, DeskSettings

| module | code | actions |
|---|---|---|
| `Limits` | `auth-service/ratelimit.go`, `api-gateway/ratelimit.go`, `geo-service/search_ratelimit.go` | `Arrive` (reads the clock), `Allow` (one or two keys), `AllowOtp` (cooldown, phone, IP) |
| `Otp` | `otp_request.go`, `otp_verify.go` | `RequestOtp`, `IssueOtp`; `VerifyOtp`, `WrongCode`, `RightCode`, `OtpEnds` |
| `Geocoder` | `geo-service/geocode.go` `waitSlot`, `search.go` | `StartSearch`, `TakeToken`, `GetTurn`, `Answered`, `Cancel` |
| `Connection` | `pkg/natsx/background.go`, `natsx.go` | `StartLoop`, `Dial`, `Ping`, `MakeStreams`, `Subscribe`, `StoreConnection`, `Retry`, `StopLoop`, `SignalClose`, `TakeConnection` |
| `AdminAccounts` | `admin_accounts_api.go`, `admin_seed.go` | `SeedAccount`, `CreateAccount`, `LoadAccount`, `WriteAccount` or `RefuseAccount` |
| `DeskSettings` | `desk_settings.go` | `PutDesk`, `SaveDesk` |

In `Limits` and `Otp` the clock is read at the start of a request and used after a wait
for a mutex or the one connection; `MaxSkew` and `MaxWait` bound that wait. `hits` is
what a limiter keeps, `granted` every hit it has ever recorded, which the property is
about. In `Otp` a challenge carries the wrong guesses answered and the sessions begun
with it, which the table does not. `OneTimeCode` is the abstract specification:
codes are `unissued`, `open`, `used` or `dead`, and never come back. The mapping
(`State`) calls a challenge dead when it is consumed without a sign-in, has been
superseded by a newer one, or has expired for every request that may still ask.
The token of the channel `lastMu`, the time since it was last set and what the timer
of a search has left are the state of `Geocoder`. In `Connection` the broker may
go down between any two steps of an attempt; `open` counts connections.

`Services` puts the six parts side by side. They share no state in the code
either: each behaviour is one of one part (`running`), which checks each
part for itself in one run without the product of their states.

## 3. The runs

| run | instance | question |
|---|---|---|
| `orders` | 1 order, 2 desks, lost and late calls, early access, 1 crash; fair | do the handlers exclude each other, implement `OrderLifecycle`, and end? |
| `stock_calm` | 2 orders, 1 product, 1 desk, 1 crash, admin moves | do stock, ledger and orders agree when calls are answered and nobody acts early? |
| `stock_drift` | 1 order of up to 2 pieces, everything unreliable | how far can stock drift per order? |
| `stock_leak` | 1 order, unreliable calls | violated: a rejected order may hold stock |
| `double_deduct` | 1 order, early access | violated: stock may be deducted twice |
| `money` | 2 orders of 1 customer, 1 desk, 2 days, redelivery | do debts, ledger, statistics and dashboard agree with the orders? |
| `money_live` | 1 order, 2 products (one free), everything unreliable, 1 crash; fair | is every payment received recorded or refused, and every event counted? |
| `debt_race` | 2 orders of 1 customer, 2 desks | violated: the dashboard may keep an older total |
| `checkout` | 2 products, 2 skus, 2 prices, 2 admins with 2 requests, 6 lists of rules, 2 places | are prices on record, fees whole, bands apart, and quotes kept? |
| `services` | 2 requests per limiter, 2 codes and 2 handlers, 3 searches, 3 outages, 2 accounts, 2 PUTs of the desk; fair | does each part keep its promise, and do searches and consumers get on? |
| `sign_in` | 1 Google, 2 phone and 1 admin account, 3 rows, 1 tick, 2 incidents | do sessions stay single, dead ones dead, and does a smooth app stay signed in until it is signed out everywhere? |
| `logout_race` | the same, 1 incident | violated: a late refresh may undo a logout |

The properties, by what they are for:

* **Exclusion.** `CancelExcludesSettle` and `SettledOnce` relate the handlers of
  one order, whatever they read before. `LifecycleSpec` is the refinement: only
  an open placement that fails takes an order out of a final status.
* **Promises.** `PlacedMeansReserved`, `EventsTellTheTruth`: what customers and
  consumers are told was so and stays so. `CompletedCarriesCosts`: the completion event carries
  exactly the unit costs stored at reservation.
* **Stock.** `LedgerExplainsStock` (up to the sign an ADJUST row loses),
  `StockMatchesOrders`, `NoOversell`; `StockDriftBounded` for the same without
  any assumption about calls: deducted at most twice and given back at most once.
* **Money.** `DebtLedgerAgrees`, `DebtsMatchOrders`, `StatsMatchOrders`,
  `DebtTotalSettles`.
* **Sessions.** `OneLivePerLogin`, `DeadLoginsStayDead` and
  `RotationRereadsAccount` hold whatever is lost, late or cut off. `StaySignedIn` and
  `SignOutRevokes` are what the app adds, as long as nothing is lost and no refresh,
  logout and sign-in overlap (`Smooth`); concurrent refreshes are included.
* **Prices.** `PricesOnRecord`, `TrailLeftOnlyByStaleWrite` (the one way in which
  history and price part), `OneBandPerDistance`, `FeeFromStoredRules`,
  `PlacedAsQuoted`.
* **Codes and quotas.** `KeepsOneTimeCode` is the refinement; `QuotasHold` says
  that no key is granted more than its quota in a window, less the longest wait for
  the mutex: hits recorded out of order make the plain window false.
* **Shared singletons.** `ThresholdsOrdered`, `PasswordsKept`: what survives the lost
  updates of overlapping edits. `SlotsSpaced`, `NoStrayConnection`.
* **Progress.** `RequestsEnd`, `FiguresCatchUp`, `SearchesEnd`, `ConsumersStart`.

### Bounds

One order is enough for `orders`, because handlers of different orders share
nothing but the desk slots, and a second desk gives the races between admins. The
composition of orders over shared stock and shared balances needs two. One product
suffices where lines do not interact (a reservation is all or nothing, which
`Inventory` has as one step over all lines); quantities go to 2 where a double
deduction must be told from a large order. One crash is enough to end a handler at
each of its steps. `MaxMoved` bounds the admin's pieces per kind: 2 in, 1 out, 1
corrected, so that two orders can or cannot both be served. Every other variable
is finite by construction. Orders are symmetric where the
properties are invariants.

In `sign_in`, `MaxIncidents` bounds what goes wrong: lost calls, closed
apps and refused tokens, changes of the allow-list or of accounts, and the first
overlap of two kinds of calls. Two are enough to end a rotation unseen and then
meet it with a second event. Three rows hold a sign-in and two rotations, or two
sign-ins and a rotation; with one tick and a life of one tick, sessions expire. The two
phones are interchangeable, both being seeded.

In `checkout`, `MaxEdits` bounds the requests of admins, not their overlap: two are
enough for one to store between any two steps of the other or of the customer,
and for two to load the same row. The cart repeats a product in two lines. The lists
of rules are three bands that are fine but out of order, and one for each way to be refused or
to hide an overlap: two that overlap, an open end with a band after it, two with one start,
an inactive band under an active one, and a first that reaches into the last with an
inactive one between them. The second product is created during the run,
with either sku. Editors are symmetric.

In `services`, a quota of 2 in a window of 3 ticks, of 5 in all, lets hits go out of
the window and be granted again, with a wait of one tick in between. Two codes and a
life of one tick give a code that is superseded, one that expires and one of another
phone; one attempt (`MaxAttempts`) means that the first wrong guess is the last.
Three searches and an interval of two ticks give one that waits, one that queues and
one that hangs up. `MaxOutages` is 3: a broker that leaves during an attempt, between
two, and after the connection was stored, or an attempt that fails although the broker
is up (a timeout, a stream or a consumer it refuses), which counts as well. Two accounts and two PUTs of the desk overlap
in every way.

Every run sets `CHECK_DEADLOCK FALSE`: a shop with all orders closed is done, and
an app that has used up its rows, a clock at its bound or editors at theirs stop.

### Fairness

`OrdersFairness` gives weak fairness to the next step of every handler: a
goroutine that can run runs, and every HTTP client of order-service has a
timeout, so the step that returns from a call is enabled whatever the callee does.
In `Money`, billing-service works on what it received and JetStream
delivers what it holds until it is acknowledged. Customers and admins are never
forced to act; crashes and losses are never forced or bounded away.

`Fairness` of `Services` is about two parts. Searches: time passes (`GeoTick`), a
search whose timer has run out goes on (`GetTurn`) and one that has asked is answered
or times out (`Answered`: the client has a timeout of eight seconds); these are weak.
`TakeToken` is strong, per search: the token comes and goes while a search queues,
and the runtime serves the receivers of a channel in turn. Connection: the loop goes on
(`LoopNext`) and a broker that is down is started again (`BrokerStarts`), both weak; an
outage may come at any moment, and an attempt fail with the broker up, `MaxOutages`
times together. The bound is an assumption: the code retries for ever and
registers nothing with a broker that refuses for ever.

### What the violated runs show

Four statements of the repository do not hold of the code; `PROJECT.json` quotes
each. In short: (1) a reservation applied after its caller's timeout is never
released (`create_order.go:303`); (2) `order.completed` overtaking a late reservation
deducts twice (`order_completed.go:157`); (3) balances published out of order leave the
dashboard wrong until the customer's next payment (`record_payment.go:197`,
`debt_stats.go:115`); (4) a refresh answered after a logout signs the app in again,
with a session the logout did not revoke (`auth_session.dart:155`). Releasing on a
failed reserve, carrying a version in `billing.debt.updated`, and letting `_refresh`
drop its answer when the state is no longer the session it started from, would be the
places to start.

### Known deviations without a run

The models contain these behaviours; the properties are stated so as to allow for
them, and say how far they go.

* The UPDATE after a failed Reserve has no status condition (`create_order.go:303`): an
  order settled while it is being placed turns CANCELLED, though `docs/prd.md:202` has
  no such transition. `OrderLifecycle` names that one transition, `LifecycleSpec` shows
  there is no other.
* Nothing repeats a payment call that is lost, although the comment at
  `complete_order.go:188` says that billing may later retry from `order.completed`;
  billing-service subscribes to nothing. `FiguresCatchUp` is about the
  payments that arrive.
* A patch stored over a price it had not loaded leaves the price history without the
  price on sale as its last row, or with a row of a change that never was
  (`products.go:311`). `TrailLeftOnlyByStaleWrite` says that nothing else does.
* PUTs of fee toggle, store and desk, and PATCHes of accounts, that overlap lose one
  another's changes: the row read before is written back whole.
* Two deletes of admin phones at the same time may remove the last one
  (`admin_phones_api.go:145`: count and delete are two statements), and the seed adds a
  removed phone of the environment again at the next start (`admin_phones.go:150`).
  Both are in `AllowList`.
* `Close` of the connection may come before the loop stores a connection
  it has just made (`background.go`): `TakeConnection` finds nothing,
  and the connection stays stored until the process ends. `NoStrayConnection` counts it as
  stored.
* Limiter windows and the time of the last geocoding request are kept in memory: a
  restart forgets them, so that a quota or an interval holds between two starts
  only.

Four more statements of the documentation differ from the code and have no run:
`docs/architecture.md:72` says stock is taken when an order is completed, the code
takes it when the order is placed; `docs/architecture.md:242` describes a dead-letter
queue that no service has; a comment at `auth-service/admin_phones.go:147` on the
seed of admin phones is not true of a restart after a removal; `README.md:95` has a
Google session revoked by a logout only, but a rotation whose answer is lost also
leaves the app with a revoked token, and the next refresh signs it out.

## 4. What is proved

`Orders_proofs` proves, for every set of orders, desks and products, every
number of crashes and both values of `EarlyAccess` and `Unreliable`:

| theorem | says |
|---|---|
| `TypeCorrect` | `OrdersSpec => []OrdersTypeOK` |
| `CancellationIsExclusive` | `OrdersSpec => []CancelExcludesSettle` |
| `SettlementIsUnique` | `OrdersSpec => []SettledOnce` |
| `PlacementIsBacked` | `OrdersSpec => []PlacedMeansReserved` |
| `EventsAgree` | `OrdersSpec => []EventsTellTheTruth` |
| `ImplementsLifecycle` | `OrdersSpec => LifecycleSpec` |

The assumptions are `ShopAssumption` and `OrdersAssumption`, nothing else. The
properties are not inductive: they say nothing of an order that is still PENDING,
so the steps that settle or cancel it would have nothing to start from. `IInv`
adds what tables and handlers agree on before that (`StatusAgrees`), that two
desks past their UPDATE never hold the same order (`DesksAgree`), that an event on the
stream fixes where its handler is (`StreamAgrees`), and what a placement that went on
knows of its reservation (`CallsAgree`). There is one lemma per handler, with
a case per action and a step per conjunct; `NextKeepsInv` puts them together.
The decisive step is `SettleOrder`: its guard, the `AND status = 'PENDING'` of
the UPDATE, says that no payment type has been written, so no other desk is past
it. `StepRefines` maps each action to a step or a stutter of `OrderLifecycle`.

The theorems carry over to the compositions: `OrderStock_proofs` and `Money_proofs`
each have `RefinesOrders` (`Spec => OrdersSpec`) and `KeepsLifecycle`
(`Spec => LifecycleSpec`). The tables of the other services are not those of
order-service, and what they do to its calls are steps `OrdersNext` allows.

`OrderStock_proofs` proves, for every finite set of orders and products (`FiniteShop`)
and every number of desks, crashes and admin movements:

| theorem | under | says |
|---|---|---|
| `StockTypeCorrect` | | `[]TypeOK` |
| `LedgerIsComplete` | | `[]LedgerExplainsStock` |
| `DriftIsBounded` | | `[]StockDriftBounded` |
| `CostsAreCarried` | `~EarlyAccess` | `[]CompletedCarriesCosts` |
| `NothingOversold` | `~EarlyAccess` | `[]NoOversell` |
| `DeductedOnce` | `~EarlyAccess` | `[]NoDoubleDeduct` |
| `StockAgreesWithOrders` | `~EarlyAccess`, `~Unreliable` | `[]StockMatchesOrders` |

The hypotheses are those the runs have, and the code needs them: `stock_leak` and
`double_deduct` are the counterexamples without. `DeductedOnce` is the
other side of `double_deduct`: only an order touched before its placement has
ended is deducted twice, whatever else is lost or late; `StockAgreesWithOrders` is
that of `stock_leak`. None of the
properties is inductive, since stock and orders meet in the
calls between them. `StockInv` adds that each call is made once (`CallsBegin`) and that
the ledger rows of an order are those of its calls that were applied, and of its
completion event if that was consumed (`LedgerFollowsCalls`). With `~EarlyAccess`,
`PlacedFirst` says that an order is settled or cancelled after its placement only, so that the
completion event finds the reservation in the ledger. With `~Unreliable`,
`CallsAnswered` says that a rejected order was refused and that a release can be done.

`Money_proofs` proves, for every finite set of orders, customers and days
(`FiniteShop`, `FiniteAccounts`, `FiniteReport`), every total and every redelivery:

| theorem | under | says |
|---|---|---|
| `MoneyTypeCorrect` | | `[]TypeOK` |
| `LedgerExplainsDebts` | | `[]DebtLedgerAgrees` |
| `DebtsAreOfOrders` | `~EarlyAccess` | `[]DebtsMatchOrders` |
| `StatsAreOfOrders` | `~EarlyAccess` | `[]StatsMatchOrders` |
| `DebtTotalAgrees` | one desk, `MaxCrashes = 0`, `~Unreliable` | `[]DebtTotalSettles` |

`BillingInv` says that a payment under way or recorded is that of a settled order, with
its total and payment type (`BilledSettled`, `PaymentsAgree`), and that the balance of a
customer is the double sum of what they leave unpaid (`DebtsAddUp`): a recording adds one
payment to one of the inner sums and its remainder to the balance. `ReportInv` does the
same for the columns of the statistics: an event that counts changes one day
by one sale, and the others not at all (`StatsAgree`). The profit needs
`CostsAgree`, which rests on `CostsCarried` of `Orders_proofs` and so on `~EarlyAccess`.
`DebtInv` follows a balance from the table to the dashboard: it is announced while its
payment is under way (`AnnouncedIsCurrent`), or the last one of its customer on the stream
(`StreamIsCurrent`); what report-service has consumed is a prefix of the stream, and its
balances are the last ones of that prefix (`SeenIsPrefix`). That needs at most one
payment under way, which is what one desk that waits for its answer gives
(`SentAwaited`); a crash would free the desk while billing-service still answers, and
`debt_race` shows what two desks do.

Sums over finite sets (`SumFunctionOnSet` of the community modules) are recursive
functions. `Sums` proves what the proofs need of them (adding an element, changing
one value, type, sum of differences) by minimal counterexample: of the
subsets for which a claim fails, take one with no smaller one inside
(`SmallestSubset`). That is why the sets must be finite; the tables are.

`AppSession_proofs` proves, for every set of accounts, every life of a session and all
bounds:

| theorem | says |
|---|---|
| `AppTypeCorrect` | `AppSpec => []AppTypeOK` |
| `OneLiveSession` | `AppSpec => []OneLivePerLogin` |
| `LogoutForGood` | `AppSpec => DeadLoginsStayDead` |
| `RotationReadsAccount` | `AppSpec => RotationRereadsAccount` |
| `SignedInStays` | `AppSpec => StaySignedIn` |
| `SignOutIsServed` | `AppSpec => SignOutRevokes` |
| `LogoutFinalWithoutOverlap` | `LogoutIsFinal`, while nothing was lost and calls of different kinds never overlapped |

The argument has two layers. `Sessions_proofs` shows that `SessionsInv` is kept
whatever clients send (`OneLiveSessionAnyClient`, `LogoutForGoodAnyClient`):
`OneLivePerLogin` alone is not inductive, since a sign-in might start a login an older
row already has, which `LoginsInOrder` excludes. `NewRows` says where a new row comes
from, and both action properties follow from it. `AppStepsAreSessionSteps` then
shows that a step of the app is one of those steps or leaves auth-service alone;
it needs every token the app holds to be that of a row, which is what `AppTypeOK` says
and why it is proved along with it. The assumptions are `AllowListAssumption`,
`SessionsAssumption` and `AppAssumption`.

`StaySignedIn` and `SignOutRevokes` are about an app that was not disturbed: nothing lost,
calls of different kinds never overlapped. `HeldInv` says what such an app holds: the
session in memory is live unless the call under way has just ended it (`HeldIsLive`), a
refresh or logout is about that session and its answer is true
(`RefreshesHeld`, `LogsOutHeld`), and there is one call at a time
(`OneCall`). A served logout therefore hits the one live session of
its sign-in (`OneLivePerLogin`), and a refusal means that it has run out.
`LogoutFinalWithoutOverlap` says of the run `logout_race` that an overlap is what it takes.

`Checkout_proofs` proves, for any catalog, carts, rules, places and number of edits
(`CheckoutSpec`; assumptions `CatalogAssumption`, `FeesAssumption`, `SeedAssumption`,
`StoreAssumption`, `CheckoutAssumption`):

| theorem | says |
|---|---|
| `PricesAreRecorded` | `[]PricesOnRecord` |
| `TrailLeftByStaleWrites` | `TrailLeftOnlyByStaleWrite` |
| `BandsNeverOverlap` | `[]OneBandPerDistance` |
| `FeesAreWhole` | `[]FeeFromStoredRules` |
| `QuotesHold` | `[]PlacedAsQuoted` |
| `CheckoutTypeCorrect` | `[]CheckoutTypeOK` |

`CheckoutInv` is one conjunct per module and three for the customer. Catalog: a row a
request has loaded has its price on record too, else storing it back might
announce a price that is not. Fees: the rules stored, and those of every PUT under way, are
acceptable; `BandsDisjoint` then shows that comparing neighbours is enough,
since the lower of two bands that overlap also overlaps its neighbour
(`NeighbourAbove`, `LeastNumber` of `Sums`).
Customer: `ReadsStillTrue` says that while nothing is stored, what a request has read
so far is what it would read now, and so are quote and order. That the two handlers
compute one sum is `LinesAddUp`; beyond it the sum of a cart is an operator the proof
never opens. `CustomerTypeOK` opens it (`QuantityType`,
`SubtotalType`): the total of a quote is a number because the lines of a request are finitely many
and all on sale, and the fee one because a band that covers is found (`BandFeeType`).

`Services_proofs` proves, for any requests, keys, quotas, phones, searches, outages,
accounts and settings (`ServicesSpec`; assumptions of the six modules and
`ServicesAssumption`):

| theorem | says |
|---|---|
| `CodesKept` | `KeepsOneTimeCode`: `Otp` implements `OneTimeCode` |
| `QuotasAreKept` | `[]QuotasHold` |
| `TurnsAreSpaced` | `SlotsSpaced` |
| `NoConnectionLeft` | `[]NoStrayConnection` |
| `PasswordsStayPut` | `PasswordsKept` |
| `DeskInOrder` | `[]ThresholdsOrdered` |
| `ServicesTypeCorrect` | `[]ServicesTypeOK` |

`PartSteps` splits a step of the whole into steps of the parts; each part has an
invariant of its own. Limits: the hits kept are the last ones granted (`HitsRecent`), and
two hits as many places apart as the quota are a window apart, less the wait
(`HitsSpaced`); the hits of a window then lie within as many places as the quota has.
Codes: times read are not older than the wait (`TimesFresh`), a code that signed
in is consumed, and each wrong guess is an attempt (`Tallied`); one lemma per
action then maps the action to a step of `OneTimeCode`. Geocoder: a search that waits
has the token, alone, and its timer covers what is left of the interval (`OneWaits`).
Desk: a PUT under way has been checked against the row it merges with (`PutsChecked`).

With that, every invariant and every action property of the passing runs is a theorem.
Left to TLC are the four liveness properties (`RequestsEnd`, `FiguresCatchUp`,
`SearchesEnd`, `ConsumersStart`), because TLAPS has no rules for fairness here, and of course
the counterexamples. The runs remain what shows that the hypotheses of a
theorem can be met and that the interesting states are reached; the theorems say that
the bounds of the runs hide nothing.

## 5. What is not modelled

* Arithmetic of money as int64: amounts stay far below 2^63 and are exact in
  the models. Distances are numbers of some unit; haversine and its rounding are a
  table (`Distance`).
* `created_at` as RFC3339Nano text, which drops trailing zeros and so may sort two
  challenges of the same second the other way round: `Otp` orders them by time.
* The Photon provider and the text of addresses: one call without state. The phone
  backfill, customer statistics and the lookup of users write nothing another part
  reads.
* `ref_type` and `ref_id` an admin types into a movement by hand: an admin may
  thereby forge an OUT row of an order. Admin movements have the reference `Manual`.
* `cost_price`, `reorder_level`, names and SKUs of stock rows, except that a
  SKU may be taken.
* Two customers in one `money` instance: balances of different customers meet
  only in the total, a sum.
* Crashes of inventory-, billing- and report-service: their operations are one
  transaction each, so a crash is a call that is lost, a publication that is lost, or a
  redelivery, all of which are modelled.
* The polling of order lists and the alarm of the app: planned, below. Routes, roles,
  headers, audit rows and proxying of the gateway decide one request from that
  request alone. SMS providers, phone encryption, widgets, deployment: plain I/O or
  encoding without a protocol.

## 6. Plan

In this order; 1 to 6 are done.

1. `Orders`, `OrderLifecycle`, `Orders_proofs`: the core.
2. `Inventory`, `OrderStock`.
3. `Billing`, `Report`, `Money`.
4. `AllowList`, `Sessions`, `AppSession` and their proofs.
5. `Catalog`, `Fees`, `Store`, `Checkout` and their proofs.
6. `Limits`, `Otp`, `Geocoder`, `Connection`, `AdminAccounts`, `DeskSettings`,
   `Services` and their proofs.
7. `OrderDesk`: polling and the alarm of the app.

Proofs to come: smaller hypotheses, and a second abstract specification.
`DebtsMatchOrders` without `~EarlyAccess`, for the orders whose placement ended well.
`DebtTotalSettles` for any number of desks of which no two serve one customer: announcements
of different customers may overtake each other. An abstract register whose
writes may be lost, which `AdminAccounts` and `DeskSettings` implement.
