# LevelUP adsPRO in TLA+

A verification development kept beside the code of LevelUP adsPRO: models of
its components, TLC runs that check them on small instances, and proofs that
TLAPS checks for every instance. Paths below are relative to the repository.

1. The system. 2. The modules. 3. The runs, their bounds and fairness.
4. The proofs. 5. Where the code stands apart from its texts, and what the
properties except. 6. What is not modelled, and the plan.

## 1. The system

A TypeScript monorepo: a NestJS API over PostgreSQL (Prisma), a Next.js web
application, a Chrome extension that captures marketplace pages, and a BullMQ
worker. The API is one Node process: requests interleave at every `await`, and
almost no handler puts its reads and writes in one transaction. The extension
has a background script that the browser may stop at any time, and a content
script per page whose asynchronous functions interleave with navigation, with
changes of the document and with the user.

| Component | State it keeps | Operations | Interacts with | Modules |
|---|---|---|---|---|
| Subscription billing (`apps/api/.../billing/billing.service.ts`) | subscription, invoices, payment transactions, callback deliveries, entitlement snapshot | checkout, payment callback, payment status refresh | payment gateway; members and shops read its plan | `Billing`, `BillingStatus`, `Entitlement` |
| Billing cycle (`billing-cleanup.service.ts`) | the same rows, one timer | lifecycle, renewal and cleanup job | the requests, on the same rows | `Billing`, `Entitlement` |
| Authentication (`auth/`, `organizations/organizations.service.ts`) | users, sessions, reset tokens, memberships | signup, login, logout, reset, switch organization, guard | signup creates the subscription; reset deletes extension sessions | `AuthSessions`, `Credential` |
| Extension sessions (`extension-sessions/`) | tokens with expiry | create, validate, heartbeat | issued for a web session, used by the extension | `AuthSessions`, `Credential` |
| Members, shops, plans (`organizations-members.service.ts`, `shops/`, `internal-plans/`) | memberships, shops and their defaults, plan rows | invite, change role, remove; create, update; edit a plan | limits of the subscribed plan | `Quota` |
| Ingestion, raw data (`ingestion/`, `raw-data/`) | batch rows, payload rows, S3 objects, the memoised bucket check | create batch, remove batch, list with sales estimates | S3 and PostgreSQL, without a common transaction | `Ingestion`, `SalesHistory`, `SyncPayload` |
| Category fees (`marketplace-category-fees/`, `prisma/seed.js`) | fee rows | create, update, delete; seeding by every deployment | admins beside deployments | `Catalog`, `WebRows` |
| Worker (`apps/worker`) | queue, worker and event connections | start, degrade, shut down | Redis | `QueueRunner` |
| Extension background (`background.ts`, `storage.ts`) | one record in `chrome.storage`, a resolver per tab, an enrichment cache | login, logout, recover, heartbeat, sync, enrich | API, content script | `ExtensionState`, `SnapshotRequests`, `PageBridge`, `SyncPayload` |
| Extension content script (`content.ts`, `detection.ts`, `page-bridge.ts`) | the last snapshot, enrichments, locks and timers, the calculator, research per shop | detect, publish, enrich, retry, persist | background script, page | `PageSnapshots`, `AdsDashboard`, `RoasCalculator`, `RoasCategory`, `RoasFigures`, `ShopResearch`, `PageBridge`, `SyncPayload` |
| Web application (`apps/web`) | the session in `localStorage` and per tab, lists per page | log in and out, switch workspace, load, change | API, its other tabs | `WebSession`, `WebRows` |
| Popup, monitoring | none of their own | render | background script, API | not modelled |

What makes each of them correct, and what is hard about it:

- **Billing.** A priced plan is usable only if it was paid; a payment counts
  once; every entitlement ends; what was acknowledged to the gateway is not
  lost. Hard: handlers interleave at every statement, notifications repeat and
  are reordered, the background jobs decide on rows they read earlier, the
  process can die anywhere.
- **Authentication and extension sessions.** No session survives a password
  reset; a reset link is used once; what was deleted or has expired never works
  again. Hard: checks and writes are separated by a slow password hash, by the
  mail server and by other queries; heartbeats extend a session by its id.
- **Members, shops, plans.** Limits hold up to what is in flight; an
  organization keeps its owner; a change of some defaults of a shop keeps the
  others. Hard: count, then create; read, then write the whole column.
- **Ingestion.** What was answered stays stored until it is removed, and what is
  left behind has a cause. Hard: two stores, partial failures, removal beside
  creation, deaths of the process; captures that arrive out of order.
- **Fees.** A deployment keeps what admins edit. Hard: the seeding writes from
  what it read at its beginning and may die midway.
- **Worker.** A degraded start-up holds nothing. Hard: events of connections
  that are being closed, and a shutdown during start-up.
- **Extension background.** The record never mixes two logins, a logout is
  final, a request for a snapshot ends. Hard: read-modify-write of shared
  storage, one resolver per tab with timeouts.
- **Content script.** The overlay shows the page the tab is at, keeps what was
  learnt of its products and loses no refresh; an ad's inputs stay its own; a
  failed request is tried again or reported. Hard: every asynchronous answer
  may arrive on another page than the one it was asked on.
- **Web application.** A tab has one login and its workspace; a page at rest
  shows what a reload would show. Hard: answers cross, tabs share storage.

The hazards are listed in `PROJECT.json`, each at the line where it bites, with
the properties that cover it or the reason why none does.

## 2. The modules

A handler, request or asynchronous function is a process with a label: one
action is everything from the return of one awaited call to the end of the next
one, so that others run exactly where JavaScript lets them. Data nothing
decides on is dropped. Operators introduced by "Variant" (a faulty version of the
definition that follows) are used by no run: they are the changes of the code
that the properties are known to catch.

### Billing

**`BillingStatus`** holds the pure decisions: the mappings from a gateway
transaction status to an invoice and a subscription status, where a paid period
starts, and the filters of the three background jobs.

**`Billing`** is the state machine of one organization. Its variables are rows
and facts of the code:

| Variable | In the code |
|---|---|
| `sub` | the `Subscription` row: plan, status, `currentPeriodEnd`, `gracePeriodEnd`, `autoRenew` |
| `inv` | `BillingInvoice` rows: status, plan, `billing_cycle` of the metadata, `dueAt`, `createdAt`; `UNUSED` before and `DELETED` after a row exists |
| `tx` | `BillingPaymentTransaction.transactionStatus` per invoice |
| `snap` | `OrganizationEntitlementSnapshot`: plan and status |
| `processed` | deliveries stored with `processedSuccessfully` |
| `order`, `linked`, `notes` | the gateway: status of each order, orders whose payment link was given out, notifications to deliver |
| `applied` | history: the statuses whose effect reached the subscription |
| `pc`, `loc` | where each handler waits and what it remembers |
| `clock`, `crashes` | model days, and the number of deaths of the process |

A handler is a process. Its program counter stops at every awaited database or
gateway call, and one action is everything from the return of one such call to
the end of the next one, so that other handlers run exactly where Node lets them:

| Code | Actions, in order |
|---|---|
| `checkout` | `CheckoutStart`, `CheckoutReserve`, `CheckoutInvoice`, then `CreateCharge`, `ChargePending`, `ChargeStore` or `ChargeFailed`; a free plan goes on with `ActivateRead` |
| `handlePaymentCallback` | `CallbackStart`, `CallbackRecord`, the transition, `RefreshSnapshot`, `CallbackAck` |
| `refreshPaymentStatus` | `RefreshLookup`, `RefreshStore`, the transition, `RefreshSnapshot` |
| `applyTransactionStatusTransition` | `ApplyRead`, `ApplyTx`, `ApplyInvoice`, then `ActivateRead`, `ActivateWrite` (settlement) or `ApplySubscription` |
| `reconcileSubscriptionLifecycle` | `LifecycleScan`, `LifecycleWrite`, `RefreshSnapshot` |
| `processRenewalBilling` | `RenewalScan`, `RenewalCheck`, `RenewalCreate`, then the charge actions of checkout |
| `cleanupUnsuccessfulTransactions` | `CleanupScan`, `CleanupDelete` (one database transaction) |
| a statement on a row that cleanup deleted | `Abort` |
| environment | `GatewayStep`, `Tick`, `Crash` |

Simplifications, all of them in the data:

- One organization; its rows do not meet those of another. Requests that fail
  their owner, plan or readiness checks change nothing and are not modelled.
- `cancelAtPeriodEnd` is only ever written `false` by the code, so the
  cancellation branch of the lifecycle job cannot be taken and is left out.
- Signup creates the subscription, so `ensureSubscriptionWithPlan` only finds it.
  Whether it finds it is the same for every checkout.
- Columns nothing decides on (`startsAt`, `endsAt`, provider, raw payloads,
  `redirectUrl`) are dropped; the gateway's test event, which touches no invoice,
  and the contents of the delivery row too.
- Amounts and currencies do not matter to any decision except "priced or free":
  that is `Paid`.
- An order is settled or refused only when the customer was given its payment
  link, which a checkout returns and a refresh stores. An order whose charge
  answer was lost can still expire or be cancelled by the gateway.
- A statement of the database fails only where a row it needs is gone; a
  database outage is a crash.
- No request and no cycle sees more than one tick of the clock (`late`):
  a tick is a day, a request a matter of seconds.

**`Entitlement`** is what an organization is promised, without rows of invoices,
deliveries or processes: the subscription, the snapshot, the plans bought and the
statuses heard of any order. `Billing` implements it (`SubscriptionIsEntitlement`;
`bought` is the plans with a settled order, `heard` what the gateway reported):

| Abstract step | What it promises | Actions of `Billing` |
|---|---|---|
| `Hear` | facts only accumulate, and change nothing by themselves | `CreateCharge`, `GatewayStep` |
| `Choose` | a priced plan awaits its payment, a free one is active; the period stays | `CheckoutReserve` |
| `Start` | a priced plan was bought; only priced plans renew; no grace is left | `ActivateWrite` |
| `Suspend` | a report caused the status; grace, and only grace, has a last day | `ApplySubscription` |
| `Lapse`, `Expire` | there was a period to end, or an order expired | `LifecycleWrite` |
| `Grant` | the snapshot says what somebody may have | `RefreshSnapshot` |

Every other action is a stutter of it. It does not say when a period is over: the
job decides that on a record it read earlier (the run `grace_early`).

### The rest of the API

**`Quota`**: the members and shops of one organization under the limits of its
plan, beside edits of the plans and changes of the subscription. A request stops
at every query: `ensureSubscription` (which may subscribe to the default plan),
the count, the search for the user or the shop, the write. `createMember` writes
in a transaction at PostgreSQL's READ COMMITTED level. `updateForOrganization`
reads a shop's metadata and writes the whole column back.

**`AuthSessions`**: one person's account, memberships, web sessions, extension
sessions and reset links. A transaction whose first statement updates the user's
row is one step, since it is serialised with the others that do; the one that
requests a reset link is two. It implements **`Credential`**: a bearer is issued
once, can be revoked, and is never usable again.

**`Ingestion`**: `createBatch` (row, bucket check, put, payload row, status) and
`removeForOrganization` (object, rows) over the database and S3, whose calls fail
and lose answers. `bucket` is the promise of the bucket check, which all
requests share and which keeps a failure until the process dies.

**`SalesHistory`**: the estimates `listLatestForOrganization` computes for a product page from
its earlier captures, over every order of arrival. The listing is written as what it
selects: the captures that fewer than `Take` others precede, and of a product's known
counts old enough the one that none precedes.

**`Catalog`**: fee rows that admins change query by query while a deployment
seeds them row by row.

**`QueueRunner`**: start-up and shutdown of the worker's three connections.

**`SyncPayload`**: from the facts of a page to its type, the payload of it and
the checks that the API makes of that payload.

### The extension

**`ExtensionState`**: handlers of the background script as tasks over one record.
`patchExtensionState` is two steps (read, write back whole); every request to the
API is one. **`SnapshotRequests`**: the pending entry, timer and promise of
requests for a tab's snapshot. `waitForTabComplete` is two steps, the status
(`WaitForTab`) and the listener (`Listen`), and a tab that completes between them is not
heard of: that wait ends in its timeout. **`PageBridge`**: requests for products and shops,
answered by a script in the page or by the background script, each fetching with
several workers.

**`PageSnapshots`**: publication, enrichment and refresh of what was read of a
public page, with route and document watchers, locks and deferred refreshes.
**`ShopResearch`**: the same for a shop's research. **`AdsDashboard`**: metrics of
the seller's pages of ads, with bounded retries and a watch that ends.
**`RoasCalculator`**: the inputs of one ad, saved per ad in storage that all tabs
share. **`RoasCategory`**: which fee category the calculator has, suggested,
picked, restored or looked up again. **`RoasFigures`**: the calculator's
arithmetic, computed in three places. The units, sales, spend and ROAS that Shopee
reports of an ad are inputs of their own, each there or not: nothing makes the sales the
price times the units.

### The web application

**`WebSession`**: session, profile and workspace of each tab, `localStorage`, and
the API's answers to refreshes, switches and logins. **`WebRows`**: the lists of
the pages team, shops, market research, fees, plans and invoices; they differ in
whether an answer is patched in or the list is loaded anew. The parallel
requests of one load are one. A removed member stays in the table and is restored under
the same row when invited again; a row removed elsewhere is gone for good.

### Instances and proofs

`MCBilling`, `MCBillingSafety`, `MCQuota`, `MCApi`, `MCPages` and `MCClients`
instantiate these for TLC. The theorems are in `BillingProofs` (types, access),
`BillingSafetyProofs` (acknowledgements, terms, charged rows, renewals, entitlement), `QuotaProofs`,
`AuthSessionsProofs`, `PageSnapshotsProofs`, and, over the instances of the three
suites, in `ApiProofs`, `PagesProofs` and `ClientsProofs`.

**Parts.** Components that share no state are checked in one run by a module
that has all of them: the variable `part`, chosen in the initial state, says which
one moves, and the others rest (their variables keep a constant value, `Resting`,
or their initial one). The reachable states are the disjoint union of those of
the instances, so a property of a part is checked as in a run of its own.
Components that do share state are in one module: members, shops and
plans in `Quota`, web and extension sessions in `AuthSessions`.

What TLC and the proofs vary are constants of the suites: the sets of tasks, rows,
tabs, ads, sessions and batches, the seeded fees, the prices, most of the limits. The
definitions give values only to what the code fixes (windows of days, tiers) or to
what bounds a whole part (`Under` bounds the kinds of request of the three instances of
`Quota`, `Asks` the requests of a page of the web application).

## 3. The runs

| Run | Instance | States | Properties |
|---|---|---|---|
| `safety` | four instances of `Billing` (below) | 2.6 M | `TypeOK`, `InvoiceBackedByGateway`, `EveryTermEnds`, `OneLiveRenewal`, `ChargedInvoiceKeepsRow`, `AckedDeliveryWasApplied`, `SubscriptionIsEntitlement` (refinement) |
| `plans` | `Billing`, 2 requests, 2 invoices of different plans, 1 death | 2.8 M | `ActivePlanWasBought`, `SubscriptionIsEntitlement` |
| `liveness` | `Billing`, 1 request, 4 days, 1 death, `FairSpec` | 0.3 M | `LapsedPeriodIsNoticed`, `GraceRunsOut`, `EveryRequestEnds` |
| `Api_components` | nine parts of the API and the worker | 2.1 M | see below |
| `Extension_pages` | nine parts of the content script | 3.0 M | see below |
| `Clients` | background script, payloads, web session, web lists | 2.5 M | see below |

**`safety`** chooses between `Callbacks` (two requests of any kind over one
invoice: what an invoice says of its payment was reported by the gateway),
`Lifecycle` (one request and all jobs over four days: every term ends, and what ends
one was caused), `Renewals` (three rows over two days, charges that are
never answered, reports that arrive late: one live renewal per due date, and a charged
invoice keeps its row) and `Crashes` (a death between any
two steps, each notification twice: what was acknowledged was applied). The
refinement of `Entitlement` is checked of all four, and in `plans` of two requests
that race over two plans.

**`Api_components`**

| Part | Instance | Properties |
|---|---|---|
| members | 2 requests, owner and 2 people | `ExcessIsInFlight` (there are fewer members above the highest limit any check has read than requests in flight together), `OwnerStays` |
| shops | 2 requests, 3 shops, 2 changes of plans | `ExcessIsInFlight`, `NothingAddedWithoutRoom` (a shop is only added by a request that saw room for it) |
| defaults | 2 requests, 3 shops | `DefaultsKeepTheRest` (a change with no other of that shop in flight keeps what it does not name) |
| tokens | 2 requests, 3 links, 3 resets (more than the requests), 1 session | `NoSessionOutlivesReset`, `ResetLinksAreInFlight` |
| sessions | 2 requests, a web and an extension session, 2 workspaces, 1 reset | `NoSessionOutlivesReset`, `LapsedStaysOut`, `SessionsAreCredentials` (refinement of `Credential`) |
| batches | 2 requests, 2 batches, 1 death | `AnsweredIsStored`, `LeftoversHaveCause` |
| history | sequences of 4 captures on 3 days | `WindowsFollowCaptures` |
| queue | start-up and shutdown | `DegradedHoldsNothing` |
| catalog | 3 keys, 2 rows, 1 admin request, 2 deployments | `DeploysKeepEdits` |

`ApiTypeOK` is the type invariant of the parts.

**`Extension_pages`**

| Part | Instance | Properties |
|---|---|---|
| browse, modal | 2 tasks, 2 visits, 1 change of the document; without and with the calculator and pages without overlay | `NoRefreshIsLost`, `EnrichmentStays` |
| calculator | 1 tab, 2 ads, 2 tasks | `CalculatorIsOwn` |
| category | 2 types of stores, 3 fees, one load at a time | `CalculatorIsOwn` (its fee is one of its type of store) |
| ads | 2 dashboards, 1 ad, 1 metric, 2 retries | `MetricsAreOfTheAddress`, `RetriedAndObservedInTime` |
| shop | 2 shops, 2 tasks | `ResearchArrives` |
| bridge | 2 requests, 3 products, 1 and 2 workers | `AnswersAreComplete` |
| snapshots | 3 requests, 2 tabs | `OpenIsTimed` |
| figures | 55 296 inputs: what the seller enters, and the units, sales, spend and ROAS the page reports or not | `FiguresAgree` |

**`Clients`**

| Part | Instance | Properties |
|---|---|---|
| background | 2 tasks, 2 logins, 1 tick | `OneLogin`, `LogoutIsFinal` |
| payloads | every page, 2 shops, 2 versions | `PayloadsAreTaken` |
| web | 2 tabs, 2 logins, 2 workspaces, 2 requests | `TabAgrees`, `LogoutIsFinal` |
| rows, invoices | 2 rows, 2 requests, 3 (2) requests of the user or changes by others | `PageIsCurrent` |

Six runs end in a counterexample, each against a sentence of the repository that
`PROJECT.json` quotes with the lines of code.

| Run | Property | What the code does |
|---|---|---|
| `Billing_webhook_twice` | `RenewalExtendsOnce` | a second attempt of a delivered settlement extends a renewed period again |
| `Billing_refresh_twice` | `SettlementAppliedOnce` | refreshing a paid invoice later moves the paid period |
| `Billing_snapshot_stale` | `SnapshotFollowsSubscription` | snapshot writes in the opposite order of the subscription writes leave a stale entitlement |
| `Billing_grace_early` | `GraceAfterTheEnd` | the lifecycle job overwrites a fresh activation with a grace period |
| `Billing_paid_deleted` | `SettledOrderHasInvoice` | cleanup deletes an unpaid checkout invoice that is paid afterwards |
| `shop_limit` | `ShopLimitEnforced` | two registrations that both counted before either created its row leave more shops than the plan allows |

**Bounds.** In `Billing` the plans are `free` and `pro`; period, grace period,
renewal lead and retention are one day. `Invoice` bounds the rows ever created,
`MaxTime` the ticks (one less than the days), `Attempt` the deliveries of a
notification, `MaxCrashes` the deaths. `Horizon` stops callbacks and refreshes
from being applied once the period end is beyond it: without it a settlement
applied again and again moves the period end for ever. `Requests`, `Outcomes` and
`ChargeOutcomes` select what an instance lets happen. Two handlers are enough for
every pairwise race, because handlers share only the rows; the background cycle
is always a further process. Two rows are enough for the races of two plans,
since a handler works on one row. Four days are enough for a period to end, its
grace period to end and a row to reach its retention age. When no row id is left,
`RenewalCheck` skips the renewal, as `CheckoutStart` does by its guard.

Elsewhere the same argument holds: two processes meet in every pairwise race over
the rows they share; two logins, ads, shops, dashboards or visits are enough for
an answer to arrive at the wrong one; one death falls between any two steps; a
limit of 1 or 2 with up to three shops or members is reached and exceeded.
`SnapshotRequests` has three requests, because a superseded one, its successor
and a third in another tab meet. `SalesHistory` has four captures for a page that
takes three, so that the listing is cut off. `PageSnapshots` and `RoasCategory`
have no third task; what a third one could add there is left to the proofs, which
bound nothing.

**Symmetry.** Requests, rows, tabs and the like are interchangeable wherever a
`SYMMETRY` names them: no module orders them or singles one out. The run that
checks liveness declares none.

**Stopping.** The background cycle of billing never stops, so deadlock checking
stays on in every run. Modules whose processes can all come to rest at their bounds, and
the suites `MCPages` and `MCClients`, have a step (`Quiet`, `Stopped`) in which
nothing changes; what must not be left waiting at rest is then a property
(`OpenIsTimed`, `ResearchArrives`, `RetriedAndObservedInTime`).

**Fairness.** `FairSpec` of `Billing` asks for weak fairness of the steps of a
running handler and of the background cycle. Node resumes a handler whose awaited
call has returned, and `scheduleCleanup` sets its timer again in a `finally`
block. Nothing obliges a request to arrive, a customer to pay, the gateway to
notify, time to pass or the process to die. The other modules claim no liveness:
what they promise to happen is stated of the states in which nothing is under way
(`ResearchArrives`, `RetriedAndObservedInTime`, `TabAgrees`, `PageIsCurrent`,
`AnswersAreComplete`), which needs no fairness and says more: it holds at every
such state, not at some later one.

## 4. The proofs

The theorems hold for every value of the constants that satisfies the
assumptions named in the module they are about: any number of requests, rows,
people, plans, tasks, visits, crashes and days. Each proof has one inductive
invariant, one lemma per action or group of actions that says the action keeps
it, and one lemma for `Next` that puts them together.

**`BillingProofs`**: `TypeCorrect` proves `TypeOK`. `TypeOK` is not inductive:
that `CallbackAck` stores a well-formed delivery depends on what the handler has
carried since `CallbackStart`. `LocalsTyped` says what the label of a handler
promises of its locals (it has an invoice id, a transaction status, an attempt),
and `TypeInv`, the conjunction, is inductive.

`AccessWasBought` proves `ActivePlanWasBought`, and
`InvoicesAreBacked` proves `InvoiceBackedByGateway`. A handler writes `ACTIVE` from
what it carries, long after it read the row that justifies it, so the invariant
`AccessInv` has to speak of the locals of every handler:

- `GatewayOK`: an order has its notifications and belongs to a row that exists or
  existed.
- `ReservedOK`: a row id is reserved by one process until its row is created, so
  nobody carries a status or a plan for a row that is still to be written.
- `CarriedOK`: at each label, what the handler carries is backed by the gateway:
  the status was reported, the plan is that of the row, the plan about to be
  activated was bought, the record about to go into the snapshot was granted.

Between two steps of a handler the others move. `Grows` is what no step takes
back (a notification, an order, the plan of a row, which stays when the row is
deleted), and `CarriedStable` shows that it keeps every `Carried`. `QuietMove`,
`RowMove` and `StatusMove` then reduce an action to what the moving process
carries on.

**`BillingSafetyProofs`**: `AckedIsApplied` proves `AckedDeliveryWasApplied`, and
`RenewalIsPriced` proves `AutoRenewIsPriced`. `AckInv` adds that only a callback
carries an attempt, and that past its write to the subscription the status it
carries is in `applied`: `RefreshSnapshot`, which the lifecycle job and the
refresh share with the callback, goes on to `CallbackAck` only for a callback.

`TermsEnd` proves `EveryTermEnds`, `DowngradesAreCaused`
proves `DowngradeHasCause` and `ChargedRowsStay` proves `ChargedInvoiceKeepsRow`.
`DowngradeHasCause` and `AutoRenewIsPriced` are in no run of their own: the refinement
of `Entitlement`, which two runs check, says the same of every step.
`TermInv` says what a handler carries that is about to write the subscription: a
settlement or downgrade an instant that is no null, the lifecycle job the end of the
period it saw, unless it saw a grace period. Once there is a period end or an order
expired (`Ended`), that stays, so what the job wrote on a record it read earlier is
still justified. `KeptInv` is about time: no process sees two ticks, so the row it
charges was created today or, if the process is late, yesterday, and what cleanup
has chosen is older than the retention, which is at least a day.

`RenewalsAreSingle` proves `OneLiveRenewal` of every instance, whatever the gateway
answers, reports or loses. A renewal that has ended (`FAILED`, `EXPIRED`, `VOID`, `REFUNDED`) may be
live again: a report of its order, or an answer to its charge that arrives after one,
overwrites the status. Such rows are recorded in `revived`, and the property does not
count them; TLC shows that without this exception it fails, since the job has
billed the date again by then. `RenewInv`: between the job's check and its create no
renewal of the date is live. That stays so because no step but the job's own create
brings to life a renewal that is not among the revived (`NoneRevives`).

`BillingImplementsEntitlement` proves `SubscriptionIsEntitlement`: the initial state is
one of `Entitlement`, and under `AccessInv`, `TermInv` and `JustInv` every step is one
of its steps or a stutter. `AccessInv` gives `Start` its purchase and `Suspend` its
report, both long before the write; `TermInv` gives `Lapse` and `Expire` the period
that was there to end, although the row may have changed since the job read it. `JustInv`
is for the snapshot: the record that a process is about to copy into it is `Justified`
(bought, caused or ended) by what the gateway has reported by now. It stays so while
the process waits, because notes, orders and the plans of rows only grow (`Grows`) and no
step erases a period's end.

**`QuotaProofs`** (`OwnerAssumption`, `PlanAssumption`, `LimitAssumption`,
`FiniteAssumption`): `ExcessIsBounded` proves `ExcessIsInFlight`,
`NoRoomNothingAdded` proves `NothingAddedWithoutRoom`, `LoneChangesMerge` proves
`DefaultsKeepTheRest` and `OwnerIsKept` proves `OwnerStays`. `TypeInv` adds to
`TypeOK` what a label promises of a request's locals. `BoundInv` relates the rows
to the requests: the members (shops) there are and the requests that are past the
check, which count as if their row were there already, are together fewer than all
requests above the highest limit read. A create moves one request from the second
summand to the first; whoever passes the check has seen fewer rows than the limit,
and those past it are at most all requests. `RoomInv` says that a shop request
between its check and its create had room, since shops are never removed.

**`AuthSessionsProofs`**: `BearersAreCredentials` proves that `AuthSessions`
implements `Credential`, when there are web sessions and no web session is an
extension session. A row is created once (`Unseen`), and every step that makes a row
unusable writes a status from which no step brings it back, so a step maps to
`Issue`, `Revoke` or a stutter. `RowInv` is needed because a signup must find no
session: before the account exists there is nothing but signups. `ResetsEndSessions`
proves its `NoSessionOutlivesReset`, `LapsedSessionsStayOut` its `LapsedStaysOut`
(`LapsedInv`: whoever holds a lapsed session is about to expire it). Two theorems
bound the reset links. `MadeInv`: there is an injection of the open links into the
requests, each to the one that made it, and a request about to make another link
deletes the one it made. `UsesInv`: the uses of a link and the requests about to use
it are together no more than the requests.

**`PageSnapshotsProofs`**: `EnrichmentIsKept` proves `EnrichmentStays` and
`RefreshesAreKept` proves `NoRefreshIsLost`. `SnapInv`: every snapshot that a task,
the timer or the overlay holds was read from a document there has been and
carries enrichments the cache has; hence a snapshot read again is never poorer.
`RefreshInv`: a refresh is deferred only while the overlay is locked, a locked
overlay is hovered over, open or orphaned, and what is stale has a timer, is
deferred or was lost for one of the causes that the property names.

**The suites.** `ApiProofs`, `PagesProofs` and `ClientsProofs` prove the formulas the
runs check, for every part at once: a step of the suite is a step of the part that
moves or a stutter of the others, and an invariant of a part is `part = p => I`.

**`ApiProofs`** (`SessionAssumption`, `BatchAssumption`, `HistoryAssumption`,
`EntriesAssumption`). The four
theorems about sessions follow from those of `AuthSessionsProofs`, for both of its
instances; `ApiTypesAreKept` is the type invariant of the whole suite.

- `AnswersAreStored`, `LeftoversAreExplained` (`BatchInv`): a batch has at most one
  request that creates it, whose row nobody else has written a payload for; past the
  put its object is there unless a removal was asked for; and a removal finds no upload
  of its batch under way, or is excused (it met one, or S3 failed to delete).
- `WindowsFollowTheCaptures`: of the invariant it takes only that the captures are a
  finite sequence, so the newest of a set of captures exists (`LeastNatural`, by
  well-founded induction) and `First` is it. A known count old enough for a longer
  window is old enough for a shorter one, whose baseline is then as new or newer, and
  counts that grow make its estimate smaller; and if all captures fit one page, the
  listing has every capture within the lookback, so the baseline is the latest.
- `DegradedRunnersAreClosed` (`RunnerInv`): both clean-ups close the connections in one
  order, so the label of either says which are closed already.
- `SeedingKeepsWhatAdminsWrote` (`FeeInv`): while a deployment seeds, a row no admin
  touched is as the seeding read it, but for the surcharges, or the seeding made it
  for an earlier entry; and no entry is named twice.

**`PagesProofs`** (`NoneAssumption`, `PageAssumption`, `AdAssumption`,
`SlotAssumption`, `BoundsAssumption`, `AmountAssumption`, `FeesAssumption`):

- `WaitingIsTimed` (`SnapshotInv`): a request has a timer and a promise only once it has
  asked its tab, and then the tab's entry is its own unless somebody took it.
- `DashboardsShowTheirOwn`, `HalfShownIsTriedAgain` (`AdsAll`): what waits for storage is
  a page of ads, an active watch has its timer, and every metric that is read, waits or
  is kept carries the address it was read at.
- `ResearchIsShown` (`ResearchInv`): what the shown shop lacks is queued, or the latest
  enrichment is for it (`Coming`); a list that is loading has a task that loads it.
- `SearchesAreAnsweredInFull` (`BridgeInv`): in a pool, every item below the next index
  has its verdict or is with exactly one worker, and the others are with nobody. So
  the worker that finds nothing left to take ends the pool with all verdicts.
- `TheFiguresAgree`: arithmetic over all natural amounts, nonlinear in the rates; a
  lemma for each cap and rounding, then cases on which caps bind. Badge and profit are
  compared of reports whose figures tally (`Tallies`: spend times ROAS is the sales up to
  a hundredth of the ROAS), since the one reads the ROAS and the other the sales.
- `TheCalculatorIsOwn` (`CalculatorInv`, `CategoryInv`): the fields of a tab, the saved
  entries and what each task has read of them belong to their ad unless two crossed;
  one catalog request is in flight, a row about to be applied is of the store's type, and
  the last of those waiting to look a fee up again asks for that type, unless a load
  was overtaken (`staleRow`).

**`ClientsProofs`** (`NoneAssumption`, `BoundsAssumption`):

- `LoginsAreNotMixed` (`LoginsInv`): the record, and both records each task works with,
  have a session and shops of the login in them. `LogoutsAreFinal` (`OutInv`): after a
  logout that met no task, no task carries a patch that could bring a login back; in
  the web application a tab that is not loaded has no session to write.
- `PayloadsFitTheApi`: an answer is computed in one step from the page and the session;
  the proof is the case analysis of pages, payloads and refusals.
- `TabsAgree` (`WebInv`): a request is a login's and a loaded tab's; a clean refresh
  carries nothing but that login's workspace; and a tab whose last answer was the API's
  has the session, profile and workspace of one login or asks for them (`FreshFits`).
- `PagesAreCurrent` (`RowsInv`): where an answer is patched into the list
  (`PatchedInv`), no clean load crosses a change, no clean change another one of its
  row, and what a page lacks is exactly what changes already served will bring, row by
  row, the seats included. Where the list is loaded anew (`ReloadedInv`), the newest
  load has what is stored or a change was served after it, which loads again.
  `DetailInv` says the same of the invoice that is open. Soiled requests, whose
  answers crossed, are those the property names. That a removed row can come back is why
  an invitation and the removal of one row count as crossing.

Assumptions on constants: values of different kinds differ (`None` is no row, slot, tab,
shop or session); limits, amounts and bounds are natural numbers; an entry to seed is
named once; rows are finitely many, since seats are counted. Days, counts, windows and the names of fees are natural numbers, of which a nonempty
set has a least one: that is proved, by the library's well-founded induction. TLC evaluates all of them in the runs. The inductive
invariants were model-checked, each as an invariant of a run of its part, before they
were proved.

**Only model-checked**: the liveness properties `LapsedPeriodIsNoticed`, `GraceRunsOut`
and `EveryRequestEnds`, since liveness under fairness and `ENABLED` are beyond the
prover. Every other property of a passing run has its theorem. Induction over data (what
a recursive definition computes of every input) is beyond it, too, except for least
elements of sets of natural numbers; no module here declares a `RECURSIVE` operator, and
listings, pools and sums are defined by what they select.

## 5. Where the code stands apart

The six violation runs are disagreements between the code and a sentence of the
repository. Besides those, modelling met behaviour that no sentence forbids and
that the models have as it is. A property that would fail of it says so by an
exception (the histories `crossed`, `lagged`, `cut`, `fresh`, `staleRow`,
`loadFailed` and the like name when it applies), and holds otherwise.

Authentication: an extension session created, or a login completed, by a request
admitted before a password reset but committing after it survives the reset.

Billing: a charge whose answer is lost is `FAILED` here and open at the gateway, and the
job bills the date again; a report of the first order then revives its row, and both
can be paid (`revived` in `OneLiveRenewal`). The answer to a charge writes
`PENDING_PAYMENT` over a settlement that was processed before it, until the next report.

Quota: requests in flight together exceed the limit; a change of a shop's
defaults overwrites another one it did not see.

Ingestion: one failed bucket check makes every later request fail until the
process restarts; a death leaves batches `ACCEPTED` without a payload.

Seeding: the plan upsert overwrites what admins edited of seeded plans in every
deployment (`apps/api/prisma/seed.js:717`, `infra/vps/deploy.sh:51`), which is why plans
are not in `Catalog`; a seeding that dies midway through a bucket leaves the
rest of it unseeded; the unique index does not bind rows without a secondary
category.

Payloads: `shopee_ads_product_detail` is not among the page types the API takes,
so a sync of an ad's details is always refused; an owned sync is refused after
another shop than the session's was selected; after an update of the extension
every sync is refused until the session is renewed.

Content script: once the bridge script has failed to load, later requests wait
for ever without a timer; a shop with fewer than 20 products is fetched again
after each publication; a superseded enrichment of a shop leaves `isLoading` set;
`loadMore` normalises prices again; detail pages of ads share one stability key
by type; the retry count is not reset between pages of ads;
`lockOverlayInteraction` cancels a due refresh without deferring it;
`isRoasCalculatorOpen` stays set when the overlay is removed.

Figures: the badge of the table rates Shopee's ROAS by a break-even point of the entered
price, and the profit takes the reported sales. With sales below the entered price
(vouchers, a price since raised) an ad can be rated `CUKUP` or better and show a loss:
price 100 000, cost 70 000, no category fee, two units sold for 130 000 on a spend of
20 000. With sales above it an ad below the break-even point can show a profit. Figures
the page abbreviates (12,3RB) need not tally, and then nothing relates the two either.

Calculator: `maybeAutoSuggestRoasCategory` applies its match without looking at
the ad again, and a save stores what the calculator has when storage answers;
tabs overwrite each other's saved entries; another shop's defaults change the
store type under an open picker; with two loads of the catalog in flight, an
older change of type may have the last word; a restored category is lost on a
change of the store type; the break-even ROAS leaves out the tax on ads, which
the net profit has.

Web: logging out asks the API nothing; the 401 of an old login clears the session
of a new one, and another tab may write its session back after a logout; a switch
of the workspace keeps the token, so the pages do not reload; the team's usage is
patched by one whatever happened meanwhile; a member removed and invited again is gone
from the team's list when the removal's answer is patched after the invitation's, until
the next load (an exception of `PageIsCurrent`); closing forms and busy marks are
those of whichever request ends first.

## 6. What is not modelled, and the plan

- **Popup**: renders the state the background script answers with.
- **Internal monitoring**, the dashboard page, listings and overviews: they read.
- **Rendering and scraping**: most of `content.ts` builds markup and most of
  `detection.ts` reads the marketplace's. They are functions of pages that the
  repository does not describe; what they yield (a keyword, a title, a metric,
  found or not) is an input of `SyncPayload`, `PageSnapshots` and `AdsDashboard`.
- **Forms, texts, formats** of the web application and the landing page.
- **Configuration, containers, observability** hold no behaviour; the schema's
  tables and enums are the row types of the modules.
- In billing: the calendar (a month is a number of days), the gateway's recovery
  (that cleanup starves while it is down, and that a renewal stays blocked by the
  `DRAFT` a death left, is in the model but stated nowhere as a requirement).

Plan, in order of weight:

1. `Quota` composed with `Billing`'s checkout, which moves the subscription to a
   plan before it is paid; here a change of the subscription is any plan.
2. `Entitlement` as the source of `Quota`'s plan limits, so that a limit is that of a
   plan the organization may have.

