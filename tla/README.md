# Nanovia OS in TLA+

A formal model of the parts of Nanovia OS whose correctness depends on concurrency,
failure and order: the credit ledger, the Stripe webhook intake, subscriptions and
checkouts, accounts, conversations, scraping, the clients' sessions, and the scripts that
configure and deploy all of it. The specifications are translated from the code under `src/`
(mostly `src/backend/api/`, abbreviated `api/` below), checked with TLC on small
instances and, where marked, proved with TLAPS for every value of their constants.
`PROJECT.json` maps each definition to the lines it stands for and lists the hazards of
the code with the properties that guard against them.

## The system

Nanovia OS is a FastAPI service (asyncio, SQLAlchemy sessions on PostgreSQL, Redis) with
a Next.js and a mobile client, a scraping worker and an orchestrator service. Users buy a
plan through Stripe; AI modules are metered against the plan; beyond the limit a message
costs one credit of a prepaid balance.

How the parts interact:

- One HTTP request is one coroutine with one database session (`api/database.py get_db`):
  whatever the handler has not committed is committed after it returns and rolled back if
  it raises. Several server processes run such requests at once; they share only
  PostgreSQL (READ COMMITTED, row locks, unique indexes) and Redis.
- Sessions are opened with `expire_on_commit=False` and `autoflush=False`: an object read
  at the start of a request keeps its values across commits and across the seconds a
  language model takes to answer. Most hazards below are such values, used when they are
  stale.
- Stripe calls the webhook endpoint, at least once per event and in no particular order.
  Administrators replay events, resync subscriptions and correct balances by hand.

### Inventory

| Component | State | Operations | Hard behaviour | What makes it correct |
|---|---|---|---|---|
| Credit account and ledger (`services/credit_service.py`, `core/monetization/_workspace.py`, `credits_service.py`) | `credit_ledger` rows, `users.credits`, `credit_balances` | `add_credits`, `deduct_credits`, `adjust_credits`, `consume_credits`, projection in `record_usage` | key checked before the lock; sessions with stale users; two row locks in opposite orders; rollback | chain of balances, each key posted once, projections follow the ledger, requests end, behaves as one indivisible account |
| Stripe webhook intake (`webhook_handler_service.py`, `routers/billing.py`, `billing_service.py`, `routers/admin.py`) | `webhook_events.status`, audit rows, Stripe's delivery state | claim, process, update status, answer; reprocess | duplicate and concurrent deliveries, crash after the claim, failure recorded on a broken session, replay racing replay | paid once, "processed" means applied, a delivery works alone, what is acknowledged is stored, deliveries end |
| Usage metering (`services/usage_service.py`) | Redis counter per user and month, alert flags, `usage_records`, `usage_events` | `check_and_charge_usage`, `record_usage` | counter read before and incremented after the model call, incremented before the commit; Redis down | the quota is passed only by requests that overlap or without Redis; one alert a month; a stored text is counted |
| Subscriptions, modules and entitlements (`billing_service.py`, `subscription_state_machine.py`, `entitlements_service.py`) | `subscriptions`, `users.plan`, `user_modules`, `users.stripe_customer_id` | sync of a subscription or module event, resync, override, grant, entitlement reads | events out of order, two subscriptions of one customer, insert races, writes skipped because the loaded value was equal | what is granted was paid for; a sync alone repairs what races left; whoever pays for a module is known, and its row mirrors the subscription it names |
| AI modules and conversations (`routers/modules.py`, `orchestrate.py`, `content_cloner.py`, `ghost_agency.py`) | `conversations.messages`, campaign counters | chat, generate, create and delete | read-modify-write across the model call; a row deleted meanwhile | no committed turn lost, counts that agree with the messages |
| Scraping jobs (`scraping/service.py`, `worker.py`, `store.py`) | Redis queue, job hash, dedupe entry, in-flight lock, circuit, in-process fallbacks | enqueue, dequeue, process, timeout, scrape, poll | crash between writes, BRPOP without acknowledgement, check-then-act on queue depth and dedupe, breaker updates | a pending job is carried by someone and ends, a finished one stays so; one fetch per URL; the breaker counts what failed |
| Scraping fetch (`scraping/fetcher.py`, `stealth/proxy_pool.py`, `security.py`, `risk.py`) | the browser and its contexts, dead proxies, rotation | fetch, redirect, launch, kill when idle, health check | launch and close without a lock; launches cancelled half-way; proxies that die and revive between choices; redirects inside the browser | one browser but for cancelled launches, proxies in turn, only checked addresses asked for over HTTP or read in the browser |
| Accounts, tokens, sessions (`routers/auth.py`, `users.py`, `mobile.py`) | password hash, reset and verification tokens, TOTP, `device_sessions`, stateless JWTs | register, login, two-factor, refresh, logout, reset, verify, revoke | handlers that commit a row loaded before another one's commit; single token slot; stateless tokens | the chosen password works, a link works once, a second factor was proved, a deleted account issues nothing |
| Team and custom modules (`routers/team.py`, `custom_modules.py`) | members, modules | invite, remove, create, delete | count and look-up before the insert | seats within the plan, rows unique, unless requests overlapped |
| API process (`main.py`, `core/scheduler.py`) | Redis rate counters, shadow bans, drain state | middleware, scheduler, shutdown | INCR and EXPIRE apart, fail-open | a window lets in no more than its limit; a counter expires |
| Clients (`shared/api/client.ts`, `frontend/`) | tokens, shared refresh promise | request, refresh | concurrent 401s, logout beside a refresh, a refresh without a token | expiry of access tokens never costs the login; every call ends |
| Orchestrator service (`infra/docker/orchestrator_main.py`) | Redis history | route | interleaved appends | pairs stay together |
| Configuration (`config.py`, `secret_manager.py`, `scripts/validate_runtime_env.py`) | the environment file, the settings of a process | check, boot, reload | two checks of one file that differ; reload field by field | what is accepted boots; production stays restricted |
| Deployment and migrations (`.github/workflows/deploy.yml`, `alembic_bootstrap.py`, `ensure_alembic_state.py`) | checkout, containers, `alembic_version`, tables | deploy, stamp, upgrade, roll back | a job that stops between two of its steps | the database claims nothing it lacks; a rollback restores what ran |
| Stripe set-up (`stripe/setup_stripe.py`) | products, prices, endpoint at Stripe, `stripe_ids.json` | search, reuse, create, write | death between two creations, a search that lags, a second run | nothing is made twice |
| Mail, notifications, branding, generators | none across steps | | | not modelled: single statements, stateless calls |

`PROJECT.json` "components" gives the status of each and "hazards" the lines where it
can go wrong.

## Modules

| Module | What it is |
|---|---|
| `CreditAccount` | Abstract specification: one balance per user, indivisible postings, a key is spent once. |
| `CreditLedger` | `credit_service.py` as its callers run it, cut at every await; implements `CreditAccount`. |
| `CreditLedgerProofs` | Theorems about `CreditLedger`, checked by TLAPS. |
| `StripeWebhook` | Delivery, claim, processing and replay of Stripe events over `CreditAccount`. |
| `SubscriptionSync` | Stripe's subscriptions and the rows that follow them: deliveries, replays, resync, plan override, effective plan. |
| `SubscriptionProofs` | Theorems about `SubscriptionSync`, checked by TLAPS. |
| `Checkout` | The Stripe customer of a first checkout, the subscriptions to one module, and the row that gives access. |
| `Accounts` | One account's row under login, password, mail, second-factor, deletion and status requests. |
| `AccountRows` | Rows inserted after a look-up: team members, devices, custom modules. |
| `Conversations` | Chats, the orchestrator behind them, the monthly gate and its counter. |
| `Campaigns` | Generated texts with the count of their campaign. |
| `AgentRouting` | The API's preview of the agent and the orchestrator's own choice. |
| `Gateway` | Rate-limit counters, shadow bans, requests in flight. |
| `RuntimeConfig` | The environment file, its check, the boot and the reload. |
| `Migrations` | The revisions, the tables and columns they create, and the bootstrap's reading of a database. |
| `Deployment` | The deploy job, the stamp, the migration and the rollback. |
| `StripeCatalog` | The re-runnable set-up script against Stripe's search. |
| `ScrapeJobs` | Queue, job states and deduplication, in Redis or in local memory. |
| `ScrapeOnce` | One scrape: in-flight key, cache, retries, circuit breaker. |
| `BrowserPool`, `ProxyFetch` | The shared browser; proxies, address checks and redirects of a fetch. |
| `ClientSession`, `WebSession` | Tokens and refreshes of the mobile and of the web application. |
| `StripeWebhookProofs`, `ScrapeProofs`, `JobProofs` | Theorems about `StripeWebhook`, `ScrapeOnce` and `ScrapeJobs`. |
| `AccountProofs`, `PlatformProofs` | Theorems about `Accounts` and `AccountRows`; about the other modules of run `platform` and the run's own instance. |
| `ServicesProofs` | Theorems about the modules of run `services` and the run's own instance. |
| `MCCreditLedger`, `MCStripeWebhook`, `MCSubscriptionSync` | Instances for TLC. |
| `MCScraping`, `MCPlatform`, `MCServices`, `MCDeployment` | Instances of several modules; see Runs. |

`StripeWebhook` extends the abstract account, not the ledger: the refinement shows that a
commit of `add_credits` is one `Credit` step, so the webhook model may use that step.
`Checkout` takes an event as applied in one step and any order: `StripeWebhook` has its
delivery. The modules that follow share tables with others only through columns that they
do not disturb, so each keeps its own state.

Properties say what holds and name the exception the code really has, in a history
variable that only a hazard of the code can set: that two requests had loaded one row
(`raced`, `crossed`, `mixed`, `sided`), that Redis failed (`faults`, `outages`, `blind`),
that a process died (`lost`, `strayed`), that a launch was cancelled (`orphans`). Without the exception the property would be false
of this code; with it, TLC shows that nothing else breaks it.

### CreditLedger

A request slot `r` moves through `pc[r]`; `op[r]` is the operation it serves and `seen[r]`
the `credits` of the `User` object in its session. The committed rows are `ledger`,
`credits` (`users.credits`), `wsBalance` (`credit_balances.balance`) and `recorded`
(`usage_events` keys). `rowLock` is who holds the users row `FOR UPDATE`, `balLock` who
holds an uncommitted update of the `credit_balances` row; what that transaction has
written there is always its `seen`, so no separate variable holds uncommitted values.

| Action | Code |
|---|---|
| `Begin` | request arrives; the dependency loads the user; `check_and_charge_usage` up to the limit: a "serve" request is within it, a "charge" request over it |
| `Gate` | the ledger balance read that decides whether a deduction is tried |
| `CheckKey` | the idempotency check before the lock |
| `Lock` | `SELECT ... FOR UPDATE` on the user |
| `Realign` | `_realign_credit_projections`, with its flush |
| `Deny` | insufficient balance: 402 and rollback behind the gate, a returned refusal and a commit of the realigned projections in `consume_credits` |
| `Stage`, `Commit` | ledger row and projections flushed, then committed |
| `RejectDuplicate` | the unique index refuses the key; rollback and raise |
| `RecordProjection`, `RecordUsage` | `record_usage` after the model call: `ensure_owner_workspace` from the old user object, then the usage rows, whose foreign key waits for the users row |
| `Abort`, `BreakDeadlock` | exception, disconnect or crash; PostgreSQL's deadlock detector |

The flush of `credit_balances` emits an UPDATE, and takes its lock, only when the value
changes (`FlushBalance`), as SQLAlchemy's unit of work does. The shared lock a chat with a
new conversation takes on the users row before the model call is left out: it is
compatible with other such locks and only makes credit mutations wait.

### StripeWebhook

`status[e]` is the `webhook_events` row, `session[r]` what is left of the request's
database session: *usable*, *aborted* (PostgreSQL refuses every statement, but the final
COMMIT goes through as a rollback) or *dead* (a failed flush or a lost connection: the
final commit raises too). `Exit` is the end of the request: `get_db` commits before the
response is sent (FastAPI 0.116, pinned in `requirements.txt`), so a dead session turns the
handler's 200 into a 500 and Stripe delivers again. `Fault`-using actions are the error
paths; `Crash` is death of the process or of the request at any point.

Modelled events are credit-pack checkouts of known users and types that are ignored.
A COMMIT whose outcome is unknown to the client is not modelled.

### SubscriptionSync

One Stripe customer: `stripe[s]` is what Stripe knows of subscription `s`, `sent` the events
so far with their snapshots, `claim` their `webhook_events.status`. `rows`, `newest` (the
row created last) and `plan` (`users.plan`) are the database. A request has a task `job[r]`
and what its session `loaded[r]`; `alone` is a history variable, the requests no other has
overlapped.

| Action | Code |
|---|---|
| `StripeChanges` | Stripe: a status or plan changes and an event is sent |
| `Deliver`, `Reprocess`, `Restart` | claim of a delivery; an administrator's replay: check, fetch, status back to "processing" |
| `Resync`, `Fetch`, `NothingToFetch` | `resync_user_subscription_from_stripe`: user loaded, then Stripe's list |
| `LoadUser`, `LoadRow` | the two SELECTs of `sync_subscription_from_stripe`; an unknown price ends the sync |
| `Write`, `RowTaken` | flush and commit: only attributes that differ from the loaded ones are written, a new row may meet the unique index |
| `Override`, `SavePlan` | `admin_override_plan`, `admin_override_workspace_plan` |
| `Finish`, `Fail` | final status of the event; an error on the way |

Flush and commit are one step: the session only writes then, always users before
subscriptions, so that transactions take effect one after the other at the grant of their
locks. Statuses are those the code tells apart (trialing is active; unpaid and
incomplete_expired are canceled, so that an unpaid subscription that recovers is left out).
Period ends are not modelled: resync may pick any of Stripe's subscriptions. Audit rows and mail
are left out, and module subscriptions are in `Checkout`.

### Checkout

`linked` is `users.stripe_customer_id`, `created` the customers Stripe knows, `sub[s]` a
checkout session of the module and the subscription it starts: its customer, its status, and
the numbers of the events between which it lives (`from`, `until`). `moduleRow` is the
`user_modules` row and the subscription it names. `BeginCheckout`, `CreateCustomer`,
`CommitCustomer` and `OpenSession` are the steps of `create_module_checkout_session`, with the id
committed before the session opens. A checkout is refused to nobody who has the module
already, so that `Pay` may start a subscription beside another. `SubscriptionEvent` writes the one
row for all of them (`RowOf`), and `Resync` applies the latest one. `CheckoutCompleted` links a
customer and grants nothing: the handler's activation (`billing_service.py:483`, called at 599)
asks for `type` "module" in the session's own metadata, and a module's checkout writes it into
its subscription's only (`billing.py:341`). `Grant`, `RevokeModule` and `DeleteAccount` are what
others do to the same columns.

`PayerIsLinked` excepts overlapping first checkouts and deleted accounts. `AccessFollows` speaks
of the time when all events have arrived in order and no administrator stepped in (`known`,
`touched`): the row then has the status of the subscription it names, it is shown only if some
subscription is active, and whoever has an active one is shown it, unless another one overlapped
it (`Overlap`). That exception is the code's: the end of either of two subscriptions takes
the module away while the other is paid for.

### Accounts and AccountRows

In `Accounts` a request loads the row (`Load`), decides on its copy, and `Commit` writes the
columns that differ from the loaded ones, as the ORM does; `missed` is what others committed in
between, and `raced` the columns a commit wrote, or failed to notice, over such a change. Each
handler of `auth.py` and `users.py` that touches the row is an action; `UpdateStatus` is the
administrator's block of the workspace. Tokens are stateless: `held` keeps those that have not
expired. In `AccountRows` an insert follows a look-up that found nothing (`CountSeats`,
`FindInvited`, `FindDevice`, `FindSlug`): only `custom_modules` has a unique index.

### Conversations, Campaigns, AgentRouting

A chat passes the monthly gate (`Gate`, `ReadFlag`, `SendAlert`, `Decide`), loads its
conversation, calls the model or the orchestrator, writes the whole list of turns back
(`Save`), counts the message in Redis (`Count`) and commits. `upstream` is the orchestrator's
own handler, which goes on when the API has given up after 60 seconds. The nightly purge
goes by the time of creation and not of the last use (`scheduler.py:18`), so that it, like its
owner, may delete a conversation in use: both are `DeleteConversation`. `Campaigns` cuts `generate_outreach` at the flush, which holds the campaign's row
until the commit, and at the counter's increment; a content clone takes the same path without
a campaign. The relationship from a campaign to its messages is never loaded, so the
foreign key's cascade deletes them. `AgentRouting` scores agents by the keywords found, not by
texts: any number up to `MaxHits` of any agent may be found.

### Gateway, RuntimeConfig, Deployment, StripeCatalog

`Gateway` is the rate limiter with INCR and EXPIRE as two steps and the hits and bans of each
process; time is abstracted to the events `WindowEnds`, `HitAges` and `BanEnds`. In
`RuntimeConfig` a value of the file is the kind the checks tell apart (`Kinds`); `Accepted` is
the deploy-time check, `SettingsOK` the one of the API, `ReloadRuntimeSettings` the reload of
the fields that may be. `Deployment` follows one job of `deploy.yml` over checkout, containers
and database; the concurrency group lets one run at a time. `Exit` is the end of a job that
its trap does not see (`exit 1`, or a failure inside the function `compose`), `TrapError` and
`Rollback` the end of one that it does. The database is the rows of `alembic_version` and the
tables and columns it really has; `Migrations` says what each of the five revisions creates.
`ensure_alembic_state.py` runs as two transactions: `Reconcile` adds the columns of `users`
that are missing, `Stamp` then reads a revision off the database. `MCDeployment` is a branch
whose commits have these revisions. In `StripeCatalog` the script dies at any call
(`SetupDies`), and a product is created before the search shows it.

### Scraping

Every call of `store.py` goes to Redis or, if that fails, to the memory of its process: both
modules index their state by these places, and a failed call is charged to `faults` or
`outages`. `ScrapeJobs` cuts `enqueue_scrape` and the worker at every such call;
`Crash` loses a process with its memory, `TimeOut` is the worker's deadline, which may pass
after the result was written. The worker's own circuit breaker is left out because it never
acts: it looks for a field `url` that no job has (`worker.py:69`, `service.py:260`).
`ScrapeOnce` cuts `scrape_once` between the reads and writes of the circuit and around the
fetch. `BrowserPool` cuts launch, context, page, and the idle killer at their awaits.
`CancelStart`, `CancelLaunch` and `CancelContext` are a timeout at one of them: Playwright goes
on, and what it starts is a driver, browser or context that the pool does not know, until its
driver is stopped (`orphans`, `strays`). `WorkerCloses` is the worker's close after a job, which
may find a driver without a browser. `ProxyFetch` chooses a proxy, asks, follows redirects and
re-checks proxies; `scoring` is the setting that adds the risk score to the checks, off by
default (`config.py:216`). `Browse`, `PageMoves` and `ReadPage` are the fetch in the browser, which
follows redirects by itself: only the address it ends at is checked, before the page is
read, so `AskedIsSafe` claims nothing of what the browser asks for on its way. The list
of healthy proxies is the set of their places in the whole list, which the code filters in
order (`Rank`). An address is what its checks tell apart; the risk is summed in hundredths. In binary floating point some
sums fall just short of a threshold of 0.8 or 0.9; at the default of 0.75 they agree.

### ClientSession and WebSession

A token is *none*, *good* or *dead*. `ClientSession` is `request` and `refreshTokens` of
`shared/api/client.ts` with the mobile application's store: one refresh serves every call that
meets a 401. A refresh that finds no stored token returns before the `try` that clears the
shared promise, so that the promise is *stuck* and answers every later 401 with null; the
calls then drop a login made since. In `WebSession` each call refreshes for itself with the
cookie. `kept` and `lasting` say that only access tokens have expired since the login: a
revoked refresh token, a failing server or a logout under way is an exception the code has.

## Runs

| Run | Question | Instance |
|---|---|---|
| `credits` | Do concurrent requests keep ledger and projections consistent, charge what they allow, end, and implement the account? | 2 requests, 2 users, 6 operations (purchase, charge, consume, negative adjustment without key, adjustment under another user's key, serve), `MaxEntries` 2: 65,240 states |
| `credits_projection` | Is `credit_balances` in line with the ledger when no request is open? No. | the same |
| `webhook` | Deliveries, replays and faults in any order: paid once, "processed" true, deliveries alone, acknowledged is stored? | 2 deliveries, 2 administrators, 2 events of one checkout, 2 faults: 125,462 states up to symmetry |
| `webhook_delivery` | Does every delivered event end with a 200? | 2 deliveries, 1 administrator, 1 checkout and 1 ignored event, 1 fault, fairness: 16,569 states |
| `webhook_replay` | Does "processing" mean that a request processes the event? No. | 2 deliveries, 1 administrator, 1 fault |
| `subscription` | Deliveries, replays, resyncs and overrides in any order: is what is granted paid for, what is reported stored, does a sole subscriber keep the plan, does a sync alone repair races? | 2 requests, 2 subscriptions, 2 plans, an unknown price, 2 Stripe changes: 2,283,103 states up to symmetry |
| `subscription_race` | Does `users.plan` match the row when no request is open? No. | 2 requests, 1 subscription, 2 Stripe changes |
| `subscription_second` | Does a customer who pays keep a paid plan? No. | 1 request at a time, 2 subscriptions, 3 Stripe changes |
| `scraping` | Do queued scrapes get lost, reopened or duplicated under crashes, deadlines, expiry and a failing Redis; do direct scrapes of a page run one at a time, and does the breaker count? | jobs: 2 requests, 1 worker, 1 URL, 2 jobs, `MaxDepth` 1, 1 failed call; once: 2 scrapers in 2 processes, 2 attempts, threshold 2, 3 failed fetches, 1 failed call; fairness |
| `platform` | Do passwords, links, factors, seats, unique rows, rate windows, payers, accepted files and deploys keep their promises when requests overlap and steps fail? | 2 requests of each kind, 2 passwords, 2 secrets, 3 links; 2 rows; 2 processes, limit 2; 2 customers, 2 subscriptions, 3 events; 3 fields off a good file; 5 commits over the 5 revisions: 552,564 states up to symmetry |
| `stamping` | Does the bootstrap leave a managed database's revision alone? No. | `Deployment` by itself |
| `services` | Do clients keep their login and end their calls, conversations, campaigns and quotas keep their counts, browser, proxies and the Stripe set-up stay single, and are only checked addresses asked for or read? | 2 calls or chats, 2 conversations, limit 1; 3 pages in 2 places, 2 drivers, 2 browsers; 3 proxies, 1 redirect; 1 set-up started 3 times, 6 objects; 2 texts, 2 campaigns; fairness: 358,492 states |

Bounds. Two requests suffice for every lock in `CreditLedger`: each lock has one holder and
its waiters do not interact, and TLAPS shows the safety properties for any number. Keyed
operations are bounded by their keys, unkeyed ones by `MaxEntries`. In `StripeWebhook` two
of each actor give every race between a pair; two faults break one request twice or two
requests once; `MaxDeliveries` 2 exceeds the number of faults that can spoil a delivery in
the liveness run, so that the bound never ends Stripe's retries early. Slots, and the two
events of one checkout, are symmetric in the safety run; the liveness run uses no symmetry.

`SubscriptionSync` bounds only Stripe's changes (`MaxEvents`): deliveries, replays, resyncs and
overrides are unlimited. Two changes and two requests give each overlap of a pair of syncs,
with a third sync alone after it.

The runs `scraping`, `platform` and `services` instantiate several modules that share no
variable. Their interleavings would show nothing and cost much, so the variable `part` fixes
in the initial state whose actions a behaviour takes; each invariant then holds of all of
them. Two requests give every overlap the properties speak of, since each of them sees
others only through one row, key or lock. The rest is bounded so that each limit can be passed
by one: one more job than the depth, one more page than the pool, as many failures as two
retried scrapes need to open the breaker, a third start of the set-up after a first that died.
The pool of proxies runs with risk scoring on only, which decides about addresses and not about
proxies; the other fetches run with and without. Three links are a used, a pending and a new one. Three edits reach any pair of wrong fields and
one that repairs. Five commits are one at the bootstrap's revision, three at the one after it,
so that a deploy can be rolled back twice, and one with two heads.

Fairness. `CreditLedger`: strong fairness of each request's steps, because PostgreSQL grants
row locks to waiters in turn, so a step that is enabled again and again is taken; weak
fairness of the deadlock detector. Nothing is assumed of `Begin` and `Abort`.
`StripeWebhook`: weak fairness of each request's steps and strong fairness of Stripe's
redelivery of an event that has had no 200 (Stripe retries for days). Faults and
replays have none.
`ScrapeJobs`: weak fairness of a request's and of the worker's steps; none of crashes,
deadlines, expiry or clients. `ClientSession` and `WebSession`: weak fairness of the steps of a
call and of the refresh, because `fetch` settles every request and the event loop runs every
continuation; `CallsEnd` excepts an application that is restarted for ever. The other modules
state no liveness and assume no fairness.

The violations are reported as findings. `credits_projection`: a request loads the user,
a purchase commits during the model call, and `record_usage` then writes the old balance
into `credit_balances`; the next credit operation of the account repairs it.
`webhook_replay`: after a crash between the claim and the end, the row says "processing",
Stripe's redelivery is answered as a duplicate, and the documented replay answers 409.
`subscription_race`: a sync of "canceled" loads the user before the sync of "active" commits
and the row after it; it sees free as unchanged, does not write it, and the row is canceled
while `users.plan` stays paid. `subscription_second`: the end of a customer's old subscription,
processed after the start of the new one, sets `users.plan` to free.
`stamping`: a database at the workspace revision counts as unmanaged and is stamped with the
module revision, after which the upgrade meets tables that exist.

## Proofs

`CreditLedgerProofs` proves, for every set of users, requests, keys and operations that
satisfies `LedgerAssumption`:

- `TypeCorrect`, `LedgerIsChain`, `KeysPostedOnce`, `CreditsAlwaysFollowLedger`,
  `WorkspaceBalanceAlwaysReal`, `AllowedIsAlwaysPaid`: the safety properties of run `credits`;
- `CreditServiceIsAccount`: `Spec => ImplementsAccount`, the refinement.

None of the properties is inductive. The proof strengthens them in two layers.
`ControlInv` speaks of control and locks only: a request between `Lock` and its commit
holds the users row of its operation, only requests past a flush hold a `credit_balances`
row, a free slot holds nothing. `DataInv` builds on it: between `Realign` and the commit
`seen` is the ledger balance of the account (or the balance after the staged operation),
because nobody else can append to that ledger; a staged key is unused and staged by one
request only; what a session may flush into `credit_balances` is always a balance the
ledger has recorded. `Commit` is then the only step that changes the abstract state and
maps to `Credit`, `Debit` or `Adjust`; every other step stutters.

`LedgerAssumption` says that amounts of purchases and deductions are positive (the code
refuses others or passes constants), that only administrators' adjustments come without a
key, and that the usage gate's keys, which name user, type and request, are used by no
other operation.

`SubscriptionProofs` proves, for any subscriptions, plans, requests and bound on events,
`SubscriptionTypeCorrect`, `GrantedAlwaysPaid`, `ProcessedAlwaysStored`,
`SyncAloneAlwaysMirrors` and `SoleSubscriberAlwaysKeepsPlan`. The invariant adds to the properties where tasks come from
(`JobInv`: every snapshot on its way to the rows was sent by Stripe for that subscription and
has a known plan; `StripeInv`: so was Stripe's current state), that rows once seen stay
(`LoadedInv`, `StoredInv`), and that what a request without company has loaded is current
(`AloneInv`): the last makes the ORM's partial write a full one. The last theorem takes a
second layer (`PlanInv`): a subscription that has not ended has no event that says so
(`SentInv`); while none of a customer's events says it (`NothingEnded`), no row is canceled, a
plan that a session has loaded as not free still is not, and an event that grants a plan and is
written leaves one (`PaidInv`), although the ORM writes only what differs from the copy. It assumes only that
snapshots, plans and the marker for "no row" are different things (`KindAssumption`).

`StripeWebhookProofs` proves, for any events, deliveries, administrators and faults, every
property of run `webhook`: `TypeCorrect`, `ProcessedIsApplied`, `DeliveriesRunAlone`,
`AckedAreStored`, `OnlyAdminReopens`, `AlwaysCreditedOnce`. Its invariant adds what a request at each control point
knows: past the posting of the credits the key is spent, past the audit row it is audited
(`PhaseInv`); a delivery at work has its row at "processing" and one that will answer 200 has a
row (`StoredInv`); and while a delivery works, no replay of its event is under way, because a
replay starts only from a final status (`AloneInv`). For `CreditedOnce` a balance is compared
with a sum over the audit rows: the lemmas derive from the well-founded order of the naturals
that a property of finite sets may be shown by size (`SubsetInduction`) and that one more
element adds its amount to the sum (`SumOfMore`); the invariant is then that every balance is the
sum of the keys spent (`PaidInv`). It rests on `WebhookAssumption`: what a
checkout is, and that deliveries and administrators are different requests.

`ScrapeProofs` proves `OnceTypeCorrect`, `FetchedByOne` and `CircuitIsHonest` for any number of
scrapers, processes, pages and faults. `OneFetchPerUrl` needs that a scraper that fetches holds
its key unless it expired under it (`KeyInv`). `CircuitCountsFailures` needs two facts: while
updates do not overlap, the count an update has read is the exact one (`SerialInv`); and a count
that is stored or has been read leaves room for every failure not yet written (`FailedInv`,
over the cardinality of the scrapers between their failure and its write). It rests on
`ScrapeOnceAssumption`: finitely many scrapers, each in one process, and Redis is no process.

`JobProofs` proves `JobsTypeCorrect`, `PendingAlwaysCarried`, `FinishedForGood`,
`QueueAlwaysBounded` and `NoDuplicateAlone` for any number of requests, workers, URLs and jobs,
and any queue limit and number of Redis failures. The
argument is that a job has one holder at a time: the request that enqueues it, one place in one
queue, or the worker that has it (`HoldInv`, `QueueInv`); its identifier is new until its state
is stored (`MadeInv`). So a queued job, or one a worker has just taken, cannot be finished
(`UnfinishedInv`), and only its holder changes its state. Most steps are one client going on with
its job (`GoesOn`) and are treated together (`GoesOnKeeps`). The bound of the queue counts the jobs
nobody overlapped with, together with the requests between their reading of the depth and their
push (`DepthInv`): an unmarked request is the only one there (`AloneInv`). For duplicates, an
entry names the newest job of its URL or that job is excused (`EntryInv`): its request was
overlapped or is about to push under an overlap, its entry expired, or it is finished; a request alone, and a worker about to delete
the entry, find it as they read it (`ReaderInv`, `ClearerInv`). It rests on
`ScrapeJobsAssumption`: requests and workers differ, and Redis is no process.

`AccountProofs` proves `AccountsTypeCorrect`, `PasswordStands` (that is `ChosenPasswordStands` and
`ResetLinkSingleUse`), `SecondFactorProved` and `DeletedStaysOut` of `AccountsSpec`, in which all
handlers run at once; run `platform` checks groups of them. The invariant says what a loaded
copy is worth: a column is as loaded, or the request has missed a commit of it (`LoadedInv`);
what each handler changes of its copy (`Copied`); that a link is drawn by one request and known
to nobody before its commit (`DrawnInv`), and once used is not in the row (`UsesInv`); and that
only a deletion takes the hash away (`DeletedInv`). It rests on `AccountsAssumption`: tokens and
secrets are random, so none is a password, and no password matches a deleted hash.

The same module proves `RowsKept` of `AccountRows`: a row that a request has looked for and not
found is still missing, or another was inserted since (`RowsInv`), with the seats counted over
the cardinality of the members.

`PlatformProofs` proves the other modules of run `platform` for any bounds, each from an
inductive invariant of its own:

- `CheckoutKept`: the user's customer, what requests carry and what sessions were opened with are
  customers Stripe knows (`KnownCustomers`), one if no first checkouts overlapped
  (`OneCustomer`); the row names a subscription that was paid for (`PaidFor`); events carry the
  subscription as it was when they were sent, and each is the last word on it or is followed by
  another (`EventsInOrder`); so that after the last one, in order, the row is up to date with
  the subscription it names, and no other began after that one had ended (`RowUpToDate`).
- `GatewayKept`: a number of a counter is drawn once and lies within the count (`NumbersInv`);
  what passed is at most the numbers within the limit that were drawn and that nobody can use
  any more (`SpentInv`); a process counts the requests inside it (`InsideInv`).
- `ConfigurationKept`: an accepted file is one the check accepts for its target; the rest is
  the lemma that what it accepts the API's own check accepts too.
- `DeploymentKept`: what a job has reached says what the checkout, the containers and the schema
  are (`JobInv`). It rests on `DeploymentAssumption`, that every commit has the bootstrap's
  head in its history, and on lemmas about `Migrations`; one of them is a theorem,
  `ReconciledReadsAsHead`: after the bootstrap's first transaction every unmanaged database
  with a `users` table is taken for one at the head, whatever else it has.
- `InstanceRefines`: a behaviour of run `platform` is one of every module, so the run's own
  properties are theorems too (`InstancePasswordsKept` and the others).

`ServicesProofs` proves the safety properties of run `services`, `ServicesTypeCorrect`,
`UserAlwaysKeeps` and `ResourcesAlwaysKept`, for any bounds, from an invariant of each module:

- `WebSession`, `ClientSession`: which requests can be under way while a login is kept, and which
  after a logout (`WebInv`; `GoalInv`, `KeptInv`, `EndedInv`). Nothing under way can drop a kept
  token, and nothing after a logout has a token to store.
- `Conversations`: a chat that has loaded a conversation holds every committed turn of it but
  those of chats that crossed another one (`HeldInv`); while chats pass the gate one at a time,
  each has read the counter as it is, and the counter covers every chat that was not charged
  (`QuotaInv`); the orchestrator pushes a reply right after its own line unless two handlers
  were tangled (`HistoryInv`). The counting needs
  finitely many chats (`ConversationsAssumption`).
- `Campaigns`: the counter of a campaign is the number of its committed texts, and never more,
  unless two requests had loaded it at once (`SeenInv`); who has written a text uncommitted holds
  the campaign's row (`HolderInv`); Redis counts every text that may be stored, unless it failed
  (`CountInv`).
- `AgentRouting`: the candidates are ordered by score and then by name, so that exactly one is
  first (`BestExists`, `SelectedIsBest`), in the preview as in the answer.
- `BrowserPool`: without overlap one page launches, and only when there is no browser, so that
  nothing launched is out of the pool's hands but what a cancelled launch left (`LaunchInv`); a
  context is its page's own, or the page has left it (`ViewRows`).
- `StripeCatalog`: what a run has gathered is one price for each kind of each item it has passed
  (`RunInv`). Stripe's stock only grows (`Growth`), so this stays while others work; and what one
  orderly run has found or made the next one finds (`Tidy`, `AloneInv`). The order of the script
  names each item once (`StripeCatalogAssumption`).
- `ProxyFetch`: the proxies given out since the list of healthy ones last changed are those of
  consecutive places in the ring, and the index is the next place (`TurnsInv`, with lemmas on
  remainders). Each fetch asks for, or reads a page at, an address that passed the checks of its
  path (`FetchAt`). Where scoring is on, that no risky address is asked for first holds up to a
  threshold of 0.80, the theorem's hypothesis; the settings have 0.75 (`config.py:215`).

A behaviour of the instance takes the steps of one module and leaves the others' variables
alone (`InstanceSteps`). `ScrapingTypeCorrect` says the same of run `scraping`.

So every safety property of a passing run is a theorem. Model-checked only: the liveness
properties `RequestsFinish`, `DeliveriesEnd`, `JobsEnd` and `CallsEnd`, because the prover
knows neither fairness nor ENABLED; and the violations, which a counterexample shows.

## Disagreements met while modelling

Besides the findings, the models contain, as exceptions or as actions, behaviour that a reader
of the code might not expect:

- `modules.py:78`: the fallback posts `messages` to the orchestrator's `/chat`, which requires
  `prompt`; it can only fail.
- `fetcher.py:348`: a second `_fetch_playwright` shadows the first, whose detection of bot
  pages never runs. A page that fails to open leaves its context behind.
- `fetcher.py:360`: `page.goto` follows redirects by itself; the address is checked when the browser
  has asked for it. The risk score guards no fetch unless `SCRAPING_RISK_SCORING_ENABLED` is
  set, and never a redirect's target.
- `fetcher.py:63`: a timeout during the launch leaves a driver or a browser that the pool does not
  know and does not close.
- `user_module.py:72` says "One active subscription per user per module (enforced at app layer
  too)"; the row is one, but the module's checkout (`billing.py:308`) opens a second session beside
  an active subscription, and both are charged.
- `billing_service.py:589`: the activation of a module at the end of its checkout never runs, for
  want of metadata on the session; the module comes with the subscription's own event.
- `proxy_pool.py`, `health_check_all`: an outage of the page it asks for buries every proxy, and
  fetches then go out directly.
- `private_orchestrator_service.py`: the allowlist binds the preview only; the orchestrator
  routes without it.
- `deploy.yml:111`: the commit to roll back to is that of the checkout, not of the running
  containers; a rollback leaves the schema as it is, and the checkout at the
  commit that failed, to which the next failing deploy then goes back. The branch in `MCDeployment` that has two
  Alembic heads makes `alembic upgrade head` fail.
- `main.py:503`: a process that dies between INCR and EXPIRE leaves a counter that never expires.
- `users.py:160`: the data of a deleted account is said to be purged by a job; none exists.

## Not modelled

- The order of ledger rows by `created_at`, a clock reading of the application server: with
  clocks that differ between servers the latest row need not be the last one.
- The first workspace row of an account inserted by two requests at once, which the unique
  index separates; the same for two registrations of one address.
- A COMMIT whose outcome is unknown to the client; the audit row of a refused login, which the
  rollback of its request takes with it.
- The rate limit per domain and the daily quota per client of the scraper: one INCR each.
- Period ends and reminders of plans; invoice events; the add-on checkout (`billing.py:414`),
  whose payment no handler turns into anything.
- Pages, prompts, generated content, header profiles, mail, notifications, branding, metrics,
  backups and server hardening: no state over several steps, or outside the program.
- Registration and the second step of a login in the clients, which set the same tokens as
  a login.

## Plan

What would come next: a composition of `Conversations` with `CreditLedger`, so that the monthly
gate and the balance are read by one request; a refinement of `ScrapeJobs` by an abstract
job table.
