# ZTAPI: a TLA+ verification project

ZTAPI is an API gateway for model suppliers with its own billing, a fork of New
API (`MODIFICATIONS.md` lists what is its own). A customer's request is priced
from a published quotation, quota is reserved from the wallet and from the API
key, the request is relayed to at most two upstream channels, and the exact
usage is charged. Customers top up their wallets, among other ways, by paying
USDT on the TRON chain.

This directory models the parts of the server that move money, checks them with
TLC and proves the main results with TLAPS. Every path below is relative to
`src/server/` unless it says otherwise.

1. [The system](#1-the-system)
2. [Modules and the code they stand for](#2-modules-and-the-code-they-stand-for)
3. [What the runs check](#3-what-the-runs-check)
4. [Disagreements with the code's own claims](#4-disagreements-with-the-codes-own-claims)
5. [What is proved](#5-what-is-proved)
6. [What is only model-checked, and what is not modelled](#6-what-is-only-model-checked-and-what-is-not-modelled)
7. [Plan](#7-plan)
8. [Running it](#8-running-it)

## 1. The system

The server is one Go binary. Several processes of it may share one database:
HTTP handlers run in all of them, background workers in the master. The
database is the only shared state that counts; Redis holds caches of users and
tokens. Nearly every operation on money is one database transaction, so the
interesting interleavings lie *between* transactions: a handler that remembers
a row, a worker that finds it, an operator who decides it, a process that dies.

| Component | State | Operations | What is hard | What makes it correct |
|---|---|---|---|---|
| **Durable request settlement** (`model/ztapi_request_settlement.go`, `ztapi_request_attempt.go`, `ztapi_pending_resolution.go`, `service/ztapi_durable_billing.go`, `ztapi_text_settlement.go`) | settlement rows, attempts, finalization intents; the handler's in-memory session | begin, begin attempt, record response, mark safety, save intent, finalize, pend, release, release rejected, resolve | handler against retry worker, sweep and operator; crashes; commits without acknowledgement; sums at the column's limit | money is neither lost nor created; what the supplier may bill is never returned automatically; an intent is charged in the end; final rows stay final |
| **Balance ledger** (`model/balance_ledger.go`) | immutable ledger rows, wallets | adjust, reserve, settle | overflow, debt suspension against administrators | idempotency keys; wallet = sum of its ledger |
| **USDT top-up orders** (`model/usdt_topup_order.go`, `usdt_topup_settlement.go`) | orders, top-up rows | create, cancel, advance expiry, settle | the amount alone identifies the payer; stale times; late and double payments; an operator completing the same top-up | a payment reaches its own order, once |
| **USDT watcher** (`service/usdt_topup_watcher.go`, `model/usdt_topup_watcher.go`, `service/trongrid_client.go`) | cycle state, lease, backoff | poll | two deployments, slow cycles, failing upstream, lost answers | does to orders only what they allow; every order closes |
| **Watched addresses** (`model/usdt_watched_address.go`) | address table, marker option | create, enable, disable, keep the previous | check-then-write without a lock; restarts | the cap is exceeded by races only; what an operator disables stays disabled |
| **Top-ups of other providers** (`model/topup.go`, `controller/topup*.go`) | top-up rows, the table of order locks | callbacks of five providers, completion and rejection by hand | repeated callbacks, callbacks on two nodes, an administrator who takes no lock, an acknowledgement sent before the work is done | a payment credits once; what was paid is credited or closed |
| **Billing sessions** (`service/billing_session.go`, `funding_source.go`) | in-memory session, wallet, key | pre-consume, reserve, settle, refund, rollback | a rollback that half succeeds; double refund | a reported outcome is what the wallet paid |
| **Refund queue** (`model/billing_refund.go`, `service/billing_refund_task.go`) | pending refunds | ensure, process, retry, dead-letter | applied but cache not dropped; attempts exhausted | each refund applied once; none stays open |
| **Subscriptions** (`model/subscription.go`) | plans' quota, orders, user group | order, buy, pre-consume, settle, refund, reset, expire | whole rows written from stale reads; a group counted without a lock | quota used is the sum of what was charged, but for the overwritten; an order delivers once |
| **Attempt billing and review** (`model/ztapi_attempt_billing_storage.go`) | reviews, proofs, charges | submit, approve, apply, complete, reconcile | five proofs about two attempts in any order; one failing row stalls the pass | nobody is charged twice or for a free attempt; reviews close |
| **Supplier refunds** (`model/ztapi_supplier_refund*.go`) | refund requests, refunded units | submit, approve, process, retry | proofs that split one charge; cache sync against a concurrent refund | what is returned depends on the units and not on how they were split |
| **Settlement log outbox** (`model/ztapi_settlement_log.go`) | outbox rows, receipts, logs in another database | enqueue, deliver, acknowledge | crash between two databases, two deliverers | one log for each settlement |
| **Finance alerts** (`model/ztapi_finance_alert.go`) | alerts, leases | scan, claim, send, finish | two nodes, a source that changes under a claim, a lost receipt | an alert is sent twice only after a fault |
| **Media tasks** (`model/ztapi_media_task.go`, `service/ztapi_media_task.go`, `task_polling.go`, `task_billing.go`) | durable tasks, their holds, polling rows | submit, bind, recover, poll, time out, settle | four records and no transaction over all; polls in several processes; answers applied late | the records agree; an outcome shown to the customer stays; billed once |
| **Channel health** (`model/ztapi_health*.go`, `service/ztapi_health_worker.go`) | cases, gates, route states, budget, incidents | queue, claim, dispatch, complete, trip, unpublish, recover | leases, late probe results, a crash after the probe was paid | one paid probe a case; a route opens on two failed probes of its generation |
| **Health alert outbox** (`model/ztapi_health_outbox.go`, `ztapi_customer_alert.go`) | jobs, leases | enqueue, claim, deliver, acknowledge, retry | jobs merged by a window, kinds that starve each other | each failure counted in one job; what can be delivered is |
| Quotation and publication (`model/ztapi_publication_gate.go`, `ztapi_model_config.go`, `ztapi_repricing.go`) | quotations, evidence, prices | allow, publish, reprice | a price that changes between check and use | no sale without a price |
| Release control (`deploy/scripts/ztapi-release-control.sh`, in the repository's root) | receipts, restore markers, active execution | finalize, rollback | the watchdog's rollback against a late finalize; a rollback that dies halfway and is started again | one outcome for a release; nothing restored twice |
| Users, tokens, caches; redemption codes and check-in; channels and routing; relay adaptors; web; backup tools | | | | |

How they interact. A handler (`controller/relay.go`) opens a durable billing
session, which debits wallet and key through the ledger and inserts a
settlement row. Each upstream attempt is recorded before it is sent. The usage
of the answer is saved as a finalization intent and then applied; what cannot be
applied now is parked as `pending`. A ticker (`service/billing_refund_task.go`)
retries saved intents and sweeps dispatched holds whose recorded statuses prove
that the supplier ran nothing. A finance operator resolves the rest.
The USDT watcher has its own loop; all it shares with the other parts are
wallets and the ledger, and the general top-up table, through which operators
may complete or reject a top-up by hand.

Requests outside the managed catalogue use the older, in-memory session
(`BillingSession`), which debits the key and the wallet or a subscription and
hands every credit to the refund queue. A video request holds its reservation
across processes: the handler submits the job and the polling loop
(`service/task_polling.go`) ends the hold. One maintenance tick of the master
(`runZTAPICommercialMaintenance`) runs, in order, the reconcile pass over
reviews, the retry of intents and of attempt bills, the sweep of rejected holds,
the supplier refunds, the log outbox and the finance alerts; the health workers
run beside it.
Callbacks of payment providers run under `LockOrder`, a mutex of one process.

## 2. Modules and the code they stand for

| Module | Stands for |
|---|---|
| `LedgerArithmetic` | the checked sums of the ledger and the rule that suspends an account in debt and restores it (`balanceLedgerUserUpdates`). `MaxQuota` is 2^31 - 1 in the code. |
| `RequestSettlement` | handlers, retry worker, sweep, operator and administrators on the settlement rows of requests that share one wallet and one API key. |
| `HoldLifecycle` | the abstract promise: a request is held once, and its hold ends once, in a charge or in the return of everything. No rows, attempts, workers or failures. |
| `USDTOrders` | the transactions on orders, top-up rows and wallets, with a chain of transfers and a clock. Settlement may run at any time. |
| `USDTWatcher` | extends `USDTOrders` with the processes that poll: the steps of `pollOnce`, the lease, failures and crashes. |
| `WatchedAddresses` | the table of addresses that are polled besides the deployment's own. |
| `BillingRefund`, `BillingSession` | the refund queue with its compensator, and (extending it) the sessions that fill it, each call of a session cut where it commits. |
| `SubscriptionQuota`, `SubscriptionOrders` | the quota of a user's subscriptions under concurrent requests; the orders, purchases, expiry and the user group. |
| `OrderMutex`, `OrderLock` | what `LockOrder` promises, one mutex for each trade number; and the table of counted mutexes that implements it. |
| `TopUpWebhooks` | callbacks of epay, Stripe, Creem, Waffo and Pancake, and the administrator who decides an order by hand. |
| `AttemptBilling` | reviews, proofs and charges of a request's two attempts, in whatever order staff, relay and workers come. |
| `SupplierRefund` | the refund transaction with its cumulative rounding, the cache sync after it, the retry loop. |
| `SettlementLog` | the outbox of usage logs between two databases. |
| `FinanceAlerts` | scan, claim, delivery and outcome of finance alerts on several nodes. |
| `MediaTask`, `TaskPolling` | one durable video request from submission to its final charge; the older billing of video and Suno tasks. |
| `HealthVerification`, `HealthOutbox` | paid verification of failing routes, trip, unpublishing and recovery; the outbox of alerts. |
| `MCRequestSettlement`, `MCUSDTOrders`, `MCUSDTWatcher` | symmetry, functions for constants, and the properties of the runs whose claims fail. |
| `MCPayments`, `MCSupplier`, `MCHealth`, `MCHealthFair`, `MCProgress` | several components in one run, see section 3. |
| `FiniteSums` | lemmas about sums over finite sets, which the proofs about money and queues use. |
| `...Proofs` | theorems, see section 5. |

**RequestSettlement.** One action is one transaction, or one that fails,
commits silently or is cut off by a crash (`Call` lists these outcomes, from
`mutateZTAPISettlementWithHooks`). `session[o].pc` is the handler's position in
`Relay`; the session remembers a *copy* of the row's status (`s.row`), which may
be out of date, and the decisions of `Refund` use that copy as the code does.
`mayBill` is ground truth no code sees: attempts after which the supplier may
have run a model. It is what the supplier did (`MaybeRun`), not what the sweep asks:
an attempt leaves it when its answer is a refusal and *not* a content-safety block,
since a block may follow a run of the model whatever its status
(`model/ztapi_request_attempt.go:19-20`, `service/ztapi_durable_billing.go:171`). `Handler` covers the request and both of its cleanup calls,
`Worker` the ticker, `Operator` the resolution, `Admin` adjustment, status and
deletion of the user.

**USDTOrders.** An order asks for a whole number of USDT plus 1 to 99 cents, and
nothing but amount, address and block time ties a transfer to it. Every
transaction reads its time before it has its locks: `t \in ReadTimes` lies up to
`MaxLag` in the past. `Pay` lets a customer pay an order's amount at any time
after it exists, repeatedly, and several transfers may share a transaction.
`Applied`, `Replayed`, `Unmatched` and `Refused` are the answers of
`SettleUSDTTopUp`. `CompleteAdminTopUp` is `ProcessAdminTopUp`, which does not
ask which provider a top-up belongs to and leaves the order alone.

**USDTWatcher.** A cycle is `StartCycle` (expiry), `ListOrders`, `AcquireLease`,
`QueryChain` or `QueryFails`, then one `SettleNext` for each transfer, and
`FinishCycle`. `SettleNext` carries the loop's error handling: mismatch and
ambiguity are passed over, any other error ends the cycle. Backoff, jitter and
the 403 delay are one choice from `Delays`. The poll timer, the recovery
interval and `Wake` may all start a cycle, so a cycle may start at any time.

**WatchedAddresses.** Operators' transactions count the enabled rows and then
write, without a lock; a request is admitted in one step and applied in a later
one, at most `MaxOperators` of them at a time. `replaced` is a history variable: addresses a deployment replaced and no
operator has disabled since.

**BillingSession and BillingRefund.** `PreConsume`, `Settle`, `Refund` and
`Reserve` of the code are several transactions each; a session's `pc` stands
between them, and a failed call leaves exactly the fields the Go code leaves.
`keyNet` is ground truth: what a request really took from the key. A refund row
is processed by the request and by the worker, perhaps both at once, in three
steps (`tx`, `sync`, `complete`) that fail separately.

**SubscriptionQuota, SubscriptionOrders, TopUpWebhooks.** The code asks for row
locks in two ways. `clause.Locking` (`ProcessAdminTopUp` and the `ztapi_*` modules)
takes them. `Set("gorm:query_option", "FOR UPDATE")` (`model/topup.go`,
`model/subscription.go`) does not: GORM 2, which `go.mod` requires (v1.25.2), ignores
that option. The production deployment is MySQL 8.4 (`deploy/docker/docker-compose.prod.yml`
in the repository's root) at its default, REPEATABLE READ, so a transaction of these files
reads a snapshot, computes in Go, and saves whole rows over whatever they have become. Each is
therefore a reading step, which keeps what it saw (`snap`, `tx`, `task`), and a committing step.
No constant gives them a lock. The handlers of epay and of Stripe's failed payments run no
transaction at all, and are two steps in the same way. What does exclude others is
modelled: `LockOrder` among the callbacks of one process, a unique key at the commit
(`TradeNoFree`: the top-up row of a subscription order), the row lock of
`ProcessAdminTopUp`, which makes its transaction one step.
Other databases differ and are described here only: on SQLite, which has one writer, the
transaction nested in `RefundSubscriptionPreConsume` waits for the one around it, so that a
refund fails (as the fault of `RefundRead` does); on PostgreSQL (READ COMMITTED) the existence check of
the top-up row sees another node's commit, and two nodes could deliver one order twice.

**OrderLock.** `Mutexes` are the `sync.Mutex` objects; an entry that is deleted
and made again gets a fresh one. Handlers wait for `createLock`, for the entry,
and leave in the order of `UnlockOrder`. Its refinement mapping is `phase`.

**AttemptBilling, SupplierRefund, SettlementLog.** Every transaction takes the
request's row first, so one transaction is one action; what runs between
transactions (the follow-up of an approval, the four unlocked steps after a
refund, the second database) is its own action and may be the one a crash cuts.

**FinanceAlerts, HealthVerification, HealthOutbox.** Clocks are flags: due or
not, lease alive or not. A worker's memory (`worker`, `workers`, `node`) is kept
apart from the rows, so it may act after its lease was taken over.

**MediaTask.** `hold`, `media`, `pollRows` and `providerJob` are the four records of a
video.
A poll fetches an answer (`FetchTask`), checks it against the durable task
(`PrepareTerminal`), applies it in one transaction to hold and task
(`ApplyTerminal`), and only then writes the polling row by compare-and-set
(`UpdateRow`); each step may come after another process's. `HoldAccepts` is what
`finalizeZTAPIRequestSettlementWithOptions`, `refreshZTAPIMediaPendingObservation`
and `pendZTAPIRequestSettlementWithLineageAndHook` accept, `TaskAccepts` what
`applyZTAPIMediaTaskTerminalTx` does.

**TaskPolling.** The submission has already charged; a poller that wins the
compare-and-set refunds or reprices, the funding first and the key afterwards.

## 3. What the runs check

| Run | Properties | Bounds, and why they suffice |
|---|---|---|
| `settlement_faults` | `TypeOK`, `HoldAccounting`, `MaybeBilledNeverAutoReleased`, `IntentNeverStranded`, `MoneyConserved`, `SafetyMarkHolds`, `HoldRefinement` | 2 requests on one wallet and key, 2 channels (the code's limit of attempts is 2), statuses 200, 408 and 429 (answer, ambiguous timeout, proven refusal), amounts 1 and 2 against balances of 2 and a column of 3, so reservations compete, keys run dry and sums overflow; 2 faults, so a fault may hit the handling of a fault. No administrator: part `admin` of `payments` has one. |
| `usdt_orders` | `PaymentReachesItsOrder`, `CreditedOnce`, `WalletIsLedger`, `Final` | 2 customers, 2 orders that want the *same* amount with a *single* suffix, so that it must be reused as soon as it is free; 2 transfers in 1 or 2 transactions; expiry after 1 second, cooldown 2, clock to 4, so a suffix is reserved, expires, cools down and is given again; two milliseconds of a second, so block times fall on both sides of a boundary; times read up to 1 second early; a wallet column in which the second credit does not fit. |
| `usdt_standby` | `LeaseExclusive`, `OrdersClose`, `WatcherImplementsOrders` | 2 fair watchers with one address and lease; a lease of 2 seconds and a clock to 3, so the standby is turned away first and takes over later; clocks agree (`MaxLag = 0`); 1 fault. Two deployments with leases of their own are covered by the theorem `WatchersRefineOrders`. |
| `payments` | eleven parts, below | |
| `supplier` | nine parts, below | |
| `health` | `ProbesPaidOnce`, `OpenRoutesProven`, `OlderGenerationsGiveWay`, `OutboxSafe` | four parts, below. |
| `health_fair` | `CasesEnd`, `EveryJobProcessed` | one route that may be disabled, with two generations of its model; alerts whose chat refuses them for ever next to a model that trips. |
| `progress` | `EveryRefundLeavesTheQueue`, `IntentEventuallySettled`, `PaidIsCredited`, `ReviewsReconciled` | one fault each; two requests or orders where one could hold the other up. The reviews run beside the sweep. |
| `settlement_safety_mark_lost`, `usdt_blocked`, `billing_reserve_rollback`, `quota_lost_update` | one each | violated; section 4. |

**Runs of several components.** `MCPayments`, `MCSupplier`, `MCHealth`,
`MCHealthFair` and `MCProgress` put components next to each other that share no variable. The
variable `part`, chosen in `Init`, is the component that moves; the others keep
their initial state. Two components without a common variable cannot influence
one another, so their interleavings would multiply the states and show nothing
that each alone does not. The reachable states are the *sum* of the parts', and
a property names the part it is about (`part = "lock" => ...`), or is an action
property of variables that only its part changes. One component in two
deployments (one or two nodes, with and without an administrator) is two parts. Setting `Parts`
to one name in a `.cfg` checks that part alone, as `quota_lost_update` does.

`MCHealth`, `MCSupplier` and `MCPayments` extend the components whose properties they
check, so that the definition TLC evaluates is the one the theorems of section 5 name:
`MCHealth` extends `HealthVerification` and `HealthOutbox`; `MCSupplier` extends
`AttemptBilling`, `FinanceAlerts`, `SettlementLog`, `SupplierRefund`, `MediaTask` and
`TaskPolling`; `MCPayments` extends `BillingSession`, `SubscriptionQuota`,
`SubscriptionOrders`, `TopUpWebhooks`, `OrderLock` and `WatchedAddresses`. A second
deployment of such a component is an instance, and its properties are conjuncts of
`InstancesHold` (in `payments`: `stream`, `planRenewed`, `ordersAlone`, `topUpsAlone` and `admin`)
and `SongsRefundedOncePerCrash`. `retried` and `songs` are instances that differ in the
bounds only, and share the variables of `video` and `clips`; `SplitStep`, `RaceStep`,
`ClipStep` and `SongStep` keep parts that share constants to their scenarios by refusing
steps.
The three parts of `HealthVerification` in `MCHealth` therefore have the same
constants, which all together would be out of reach; `Within` keeps each part to
one dimension by refusing steps, so that every behaviour of a part is a behaviour
of the component. Its two nodes are interchangeable and only invariants are checked,
so their symmetry is sound.

| Part | Module | Bounds, and what they make happen |
|---|---|---|
| `wallet` | `BillingSession` | 2 requests on a wallet of 3 and a key of 4 with estimates of 2, so they collide and a settlement of 3 needs more; callers that retry; 1 fault. |
| `stream` | `BillingSession` | 1 request whose session is extended; 2 faults; callers that do not retry, as in the code. |
| `plan` | `SubscriptionQuota` | 2 requests that take 2 units each, on subscriptions of 4 and 2: the first pays for both and then refuses a larger settlement; the second pays when the first has ended or is used up. 3 tries, as in the code, and 1 fault: enough to repeat a refund. |
| `planRenewed` | `SubscriptionQuota` | 1 subscription and 1 period that begins while the 2 requests run. |
| `orders` | `SubscriptionOrders` | 1 order, two callbacks on two nodes; 2 purchases from a wallet that pays for one; a plan that changes the group and one that may be bought once. |
| `ordersAlone` | `SubscriptionOrders` | the same on one node, an empty wallet, and a clock, so that subscriptions end and the group is left. |
| `topUps` | `TopUpWebhooks` | creem and stripe on one node, an administrator, 2 faults and 2 repetitions. |
| `topUpsAlone` | `TopUpWebhooks` | epay and waffo on one node without an administrator, 1 fault, 2 repetitions. |
| `lock` | `OrderLock` | 3 handlers, 2 trade numbers, 3 mutexes, so an entry is deleted and made again while another handler holds the old one. |
| `addresses` | `WatchedAddresses` | 4 addresses, of which 2 are ever deployed, for one place, and 2 requests in flight, so that the cap is passed by races, and by no more than they can; a restart that keeps the previous address. |
| `admin` | `RequestSettlement` | 2 requests that may exceed their reservations, 2 edits. |
| `attempts` | `AttemptBilling` | 1 request, 2 attempts, 5 competing proofs, one quoting the bill line of another; attempts with and without an upstream id. |
| `split`, `race` | `SupplierRefund` | 4 proofs of a charge whose rounding matters; 2 workers on 2 proofs, a retry. |
| `logs` | `SettlementLog` | 2 operations, 2 maintainers besides the handlers, 1 fault, log retention, a deleted channel. |
| `alerts` | `FinanceAlerts` | 1 source that changes twice, 2 reasons, 2 nodes, 1 fault. |
| `video`, `retried` | `MediaTask` | 2 pollers, 1 fault; or 1 poller, 2 faults and a second upstream attempt. A video costs 1; that one may cost nothing is covered by the theorem of section 5 only. |
| `clips`, `songs` | `TaskPolling` | a video under 2 pollers, or a song under 1; 2 faults. |
| `routes` | `HealthVerification` in `MCHealth` | 2 routes, one opening while the other serves; 4 cases, one attempt and one busy node at a time, no fault. |
| `generations` | | 1 route, 2 generations of its model with cases and a job left from the first; 1 fault. |
| `nodes` | | 2 nodes on one route, 3 cases, 2 faults, and probes that cost more than was reserved, so that the budget of 8 does not pay for all. |
| `outbox` | `HealthOutbox` in `MCHealth` | 2 workers, 1 customer who fails twice, an operator's test, 1 fault. |
| `probes`, `outbox` | both, in `MCHealthFair` | as in its row above; 1 worker, 1 fault. |

`CHECK_DEADLOCK FALSE` everywhere but in the USDT runs: when all requests are done
and the bounds are used up, the system rests.

Bounds in guards: `MaxFaults` and, where a module is extended beside others,
`MaxRefundFaults`, `MaxQuotaFaults`, `MaxMediaFaults`, `MaxPollFaults`, `MaxLogFaults`,
`MaxDeployFaults` (failures, silent commits, lost answers, crashes),
`MaxEdits`, `MaxChanges` (administrative changes), `MaxTime`, `LastCreate` (clock,
last new order), `MaxCases`, `MaxGeneration`, `MaxFailures`, `MaxTrips`,
`MaxUpdates`, `MaxRepeats`, `MaxReserves`, `MaxResets`, `MaxEnded`, `MaxSubs`,
`MaxOperators`. The sets of
requests, orders, proofs and tasks bound how often anything can begin.

**Fairness.** It is assumed of loops that a process runs as long as it lives, and
of nothing else: handlers, customers, staff, providers' decisions and the sweep
may stop for ever.

* `RetryFinalization(o)`, `WorkerStep` of the refund queue, `Maintenance`,
  `RetryZTAPIAttemptBillings` and the reconcile pass: the ticker of
  `service/billing_refund_task.go` runs while a master process does, selects
  oldest first, and a row that fails goes to the end of its queue. `progress` shows
  `ReviewsReconciled` with the fairness of the pass alone, beside a sweep that may or may
  not run; a review that the sweep left open is the exception the property names.
* Time and each watcher's `Run` loop, which starts and continues cycles on a
  recovery timer whatever the last cycle returned. Not that TronGrid ever
  answers: `QueryFails` and `QueryChain` are alternatives of one fair action.
* A started top-up handler finishes or dies (weak), and a provider repeats a
  callback it saw no acknowledgement of (strong: a handler must be free).
* Health workers, the end of leases and of retry delays: `RunOnce` is called from
  a ticker on every node, and clocks advance. Not that a delivery succeeds:
  alerts in `AlwaysRefused` never do, and the others must still arrive.

## 4. Disagreements with the code's own claims

Four runs show a claim of a comment or a test that the code does not keep. Each
checks one property, and TLC's counterexample is the explanation. `PROJECT.json`
(`findings`) quotes the claims.

| Run | Property | What happens |
|---|---|---|
| `settlement_safety_mark_lost` | `SafetyOutcomeHolds` | a safety outcome whose mark cannot be written is parked unmarked, and the sweep may release it (`service/ztapi_durable_billing.go:173`; claim: `controller/relay.go:479-480`). Two properties say what does hold: `SafetyMarkHolds` (once marked, never released) and `MaybeBilledNeverAutoReleased` (without that fault, no request the supplier may have run). |
| `usdt_blocked` | `SettlesAllMatching` | an operator completes the top-up of an order whose payment is on its way; `SettleUSDTTopUp` then answers with a conflict in every cycle until the order expires, each time before later transfers are looked at (`service/usdt_topup_watcher.go:253`; claim: the test `TestUSDTWatcherSettlesAllMatchingPendingOrdersFromOneWalletQuery`). A customer whose order expires meanwhile is not credited automatically. |
| `billing_reserve_rollback` | `NeverOverRefunded` | a session's extension whose roll-back is queued but reported as failed is returned a second time by `Refund` (`service/billing_session.go:343`; claim: `:91`). Only tests extend a session. |
| `quota_lost_update` | `UsedIsSum` | two pre-consumptions save whole rows from one read; a charge is lost, without any fault (`model/subscription.go:1122`; claim: `:1296`). `QuotaAccounted` says that this and a repeated refund (below) are the only ways the account is lost. |

The modules state further properties that the code does not keep, next to those
it keeps. TLC found a counterexample of each while they were modelled; to see one
again, name the property in a configuration with the constants given here.

| Property | Constants | What happens |
|---|---|---|
| `RequestSettlement!FinishedRequestHandedOver` | 1 request, 1 fault | the commit of an attempt is not acknowledged: the hold stays reserved and dispatched, where no worker looks (`service/ztapi_durable_billing.go:224`; claim: `:360-361`). Without that fault it holds (`InstancesHold` of `payments`; `NoHoldIsLeftBehind`, if the wallet has room). |
| `WatchedAddresses!EnabledCapped` | part `addresses` | requests that count the enabled addresses before the others write exceed the cap; the rows beyond it are shown as enabled and never polled (`model/usdt_watched_address.go:139`; claim: the test file, `:68-69`). `CapExceededByRacesOnly` is what does hold. |
| `WatchedAddresses!PreviousStillWatched` | 3 addresses | an address disabled by hand, deployed again and replaced stays disabled: "duplicate" is taken for "already watched" (`model/usdt_watched_address.go:218`). |
| `BillingSession!CleanupHandedOver`, `RollbackCompletes`, `DeadLetterUnpaid` | 1 request, 2 faults, `CallersRetry = FALSE` | an error of the key's credit ends `Refund` before the wallet's is queued (`service/billing_session.go:119`); a roll-back row that cannot be inserted is only logged (`:256`); a paid row whose cache never drops becomes a dead letter (`model/billing_refund.go:214`). |
| `SubscriptionQuota!RefundIdempotent` | part `plan` | the quota is returned in one transaction and marked in another, and a retry repeats both (`model/subscription.go:1206`; claim: `:1188`). |
| `SubscriptionQuota!ReportedChargeHolds` | 2 requests with one `RequestId` | the request id is the customer's header: a second request with a used id pays only a difference (`:1105`). |
| `SubscriptionOrders!GroupFollowsSubscriptions`, `ActiveUpgradeKept` | `MaxSubs = 2` | the group outlives the subscriptions (`:996`), or is taken from one that was bought during the expiry (`:974`). |
| `SubscriptionOrders!OrderFinal`, without `SingleOrderNode` | 2 nodes | an expiry that read the order as pending saves "expired" over another node's success; the subscription stays (`model/subscription.go:641`). |
| `TopUpWebhooks!CreditedOnce` | part `topUps` | a callback that has read the row as pending credits it after an administrator has completed it by hand (`model/topup.go:489`; claim: "conflict-safe", `:78-79`). `TopUpCreditedOnce` bounds it: each of the two credits once. |
| `TopUpWebhooks!SuccessMeansCredited` | epay, 1 fault | a crash between the two writes leaves a success without credit (`controller/topup.go:409`). |
| `TopUpWebhooks!DeliveredMeansDecided`, `CreditsWhatWasSold` | stripe; creem with an administrator | acknowledged but not done (`controller/topup_stripe.go:189`); the manual completion multiplies what creem credits plainly (`model/topup.go:197`). |
| `TopUpWebhooks!FailureMeansClosed` | waffo, 1 fault | a failure that cannot be saved is acknowledged, and the order stays pending (`controller/topup_waffo.go:383`; claim: `:380`). |
| `AttemptBilling!TerminalResolvesReviews` | part `reviews` of `progress` | the sweep releases a request and leaves its reviews open (`model/ztapi_request_settlement.go:1100`; claim: `model/ztapi_attempt_billing_storage.go:55`); the reconcile pass stops at such a row in every pass (`:167`), which is the exception `ReviewsReconciled` names. |
| `SettlementLog!ChargeVisibleOnReturn` | 2 operations, no fault | a handler delivers the oldest row of the outbox, not its own (`service/ztapi_durable_billing.go:307`). |
| `FinanceAlerts!PendingReported` | `SameInstant = TRUE` | a row parked for a second reason at the time of the first alert is never reported (`model/ztapi_finance_alert.go:78`). |
| `HealthVerification!FailureIsCounted` | 2 routes, `MaxChanges = 2` | a model that tripped and was found to have a route again cannot trip a second time in its generation: the incident's unique index rolls back the completion (`model/ztapi_health_verification.go:986`). |

Read in the code while modelling the media tasks:

* `relay/relay_task.go:344-345` says of an accepted video that a failed top-up
  "can then remain pending and still be recovered by task ID". The cleanup pends
  the hold as `upstream_billing_unconfirmed`, and a poll accepts a pending hold
  only as `media_charge_unknown`: in `MediaTask` that hold never settles, every
  poll of it fails, and an operator has to release it.
* The winner of a polling row's compare-and-set refunds after it, so a crash in
  between loses the refund; `TasksBilledOnce` says "at most once" for that reason.
* `updateSunoTasks` refunds first and saves the whole row afterwards: a crash in
  between refunds again, and so does a second process, without any bound. This is
  why part `songs` has one poller.
* `updateVideoTasks` and `updateSunoTasks` fail the tasks of a channel that cannot
  be loaded with `TaskBulkUpdateByID`, without a refund, although
  `model/task.go:436-439` forbids it in billing flows.
* Durable tasks that have timed out stay in `GetTimedOutUnfinishedTasks`, oldest
  first with a limit of 100, and may keep younger tasks from being swept.

## 5. What is proved

The theorems hold for every value of the constants that the named assumptions
allow: `MaxQuotaAssumption`, `SettlementAssumption`, `SupplierContract`, `USDTAssumption`,
`WatcherAssumption`, `OrderLockAssumption`, `HealthOutboxAssumption`,
`HealthVerificationAssumption`, `AttemptBillingAssumption`, `TopUpAssumption`,
`WatchedAssumption`, `FinanceAlertsAssumption`, `SettlementLogAssumption`,
`SupplierRefundAssumption`, `RefundAssumption`, `SessionAssumption`,
`SubscriptionAssumption`, `SubscriptionOrdersAssumption`, `MediaAssumption` and
`PollingAssumption`. They say that
suppliers that answer with a refusal and block no content have run nothing
(`SupplierContract`, the fact the sweep takes for granted), bounds are natural numbers, amounts are positive and fit their columns, suffixes are 1 to 99, a cooldown is no shorter than an
order's lifetime (`LoadUSDTTopUpConfig` refuses such a configuration), a probe's
reservation is positive, and that finitely many requests, subscriptions, callbacks,
customers and operations exist. Of the proofs of `AttemptBilling` they say only that each names a
request, one of its two attempts, a bill and an upstream id; of the charges of `SupplierRefund`
what `planZTAPISupplierRefund` demands of a dimension before it refunds: positive units, a
key that paid no more than the wallet, and a charge at most one unit above the floor of its
price.

| Module | Theorem | Property |
|---|---|---|
| `RequestSettlementProofs` | `TypeCorrect` | `TypeOK` |
| | `HoldsAccounted` | `HoldAccounting` |
| | `TokenConserved` | `TokenConservation` |
| | `TerminalFinal` | `TerminalRowsFinal` |
| | `HoldRefined` | `HoldRefinement` |
| | `SafetyMarkKept` | `SafetyMarkHolds` |
| | `MaybeBilledKept` | `MaybeBilledNeverAutoReleased` |
| | `IntentKeptReachable` | `IntentNeverStranded` |
| | `DebtIsSuspended` | `DebtSuspends` |
| | `AdminDisableKept` | `AdminDisableSticks` |
| | `MoneyIsConserved` | `MoneyConserved` |
| | `NoHoldIsLeftBehind` | `FinishedRequestHandedOver`, `FinishedRequestReleased`, under a hypothesis |
| `USDTProofs` | `OrdersTypeCorrect` | `OrdersTypeOK` |
| | `ReservationsNeverOverlap` | `ReservationsDisjoint` |
| | `PaymentNeverMisdirected` | `PaymentReachesItsOrder` |
| | `NobodyCreditedTwice` | `CreditedOnce` |
| | `TopUpsBacked` | `TopUpBacked` |
| | `DecisionsFinal` | `Final` |
| | `WalletsAreTheirLedgers` | `WalletIsLedger` |
| | `WatcherTypeCorrect` | `WatcherTypeOK` |
| | `WatchersRefineOrders` | `WatcherImplementsOrders` |
| | `LeaseKept` | `LeaseExclusive` |
| | `CapIsExceededByRacesOnly` | `CapExceededByRacesOnly` |
| | `DisabledIsFinal` | `DisabledStaysDisabled` |
| `HealthProofs` | `OutboxTypeCorrect` | `HealthOutboxTypeOK` |
| | `AcknowledgedOnce` | `AcknowledgedByHolder` |
| | `QueuedOnce` | `AlertsQueuedOnce` |
| | `OutboxIsSafe` | `OutboxSafe` |
| | `VerificationTypeCorrect` | `HealthVerificationTypeOK` |
| | `ProbesArePaidOnce` | `ProbesPaidOnce` |
| | `OpenRoutesAreProven` | `OpenRoutesProven` |
| | `OlderGenerationsDoGiveWay` | `OlderGenerationsGiveWay` |
| `AttemptBillingProofs` | `AttemptsArePaidExactly` | `AttemptsPaidExactly` |
| | `VerifiedReviewsAreFinal` | `ReviewsAreFinal` |
| `TopUpProofs` | `TopUpsAreCreditedOnce` | `TopUpCreditedOnce` |
| | `DecisionsAreFinal` | `DecisionFinal` |
| | `CallbacksExclude` | `OrdersExclusive` |
| | `OrderLockImplementsMutex` | `ImplementsMutex` |
| | `SubscriptionsArePaidOnce` | `SubscriptionsPaidOnce` |
| | `SubscriptionsAreDeliveredOnce` | `OrderDeliveredOnce` |
| | `SubscriptionOrdersStayFinal` | `OrderFinal` |
| `BillingProofs` | `BalancesStayAccounted` | `BalancesAreAccounted` |
| | `SessionsStayTyped` | `SessionTypeOK` |
| | `RefundRowsStayForward` | `RefundRowsMoveForward` |
| | `SubscriptionQuotaStaysAccounted` | `QuotaAccounted` |
| | `SubscriptionsStayWithinTotal` | `SubscriptionTypeOK` |
| `MaintenanceProofs` | `AlertsAreSentOnce` | `SentOnce` |
| | `WithdrawnIsResolved` | `CancelledIsResolved` |
| | `AlertTypeCorrect` | `FinanceAlertsTypeOK` |
| | `LogsAreWrittenOnce` | `LoggedOnce` |
| | `SettledIsQueued` | `CompletedIsQueued` |
| | `LogTypeCorrect` | `SettlementLogTypeOK` |
| | `RefundsAreExact` | `RefundsConserved` |
| | `CompletedAreDropped` | `CompletedIsDropped` |
| | `VideoRecordsAgree` | `VideoTaskOutcome` |
| | `TasksAreBilledOnce` | `TasksBilledOnce` |

Beside these: `OnlyTrippedAreUnpublished` (a model is unpublished only while its
incident is open), and the lemmas of `FiniteSums`.

*Settlement: rows and ledger.* `Moves(o)` summarises what any one transaction may
do to the money of request `o`: begin, settle, return or nothing, and that it
leaves the other requests alone. One lemma for each transaction shows that it is
such a move; a step of any actor is then one move or touches no money.
`HoldAccounting` is a sum and not inductive; `LedgerShape`, which says *which*
ledger rows exist in each status of a row, is, and implies it. The refinement of
`HoldLifecycle` follows from `Moves` and `LedgerShape`, step by step.

*Settlement: evidence.* `BilledShape` ties the ground truth to the rows: an attempt
that
may have been billed is one of the attempts recorded; a request with attempts is
marked as dispatched; and the recorded status of such an attempt does not prove a
refusal, unless it is the last one and its answer a content-safety block.
`BlockShape` follows that case while nothing fails: the handler knows of the block, and
until its cleanup has marked the attempts the row is not one the sweep looks at. So
without a fault each automatic path meets a status or a mark that stops it, and with one
the exception `MaybeBilledNeverAutoReleased` names is all there is. `SupplierContract` connects the
two sides: which answers follow no run is a fact about suppliers, which statuses the
sweep takes for a proof is the code's. `IntentShape` says where the
handler stands relative to its intent: none is saved before the handler reaches
that step, an open intent belongs to a row that is reserved or parked for a
retry, and a completed one to a settled row with that charge.

*Settlement: the account.* `Solvent` (an enabled account is not in debt, and one
marked as suspended for debt is) is kept by `balanceLedgerUserUpdates` for every
kind of movement; a disable that is no debt suspension (`Banned`) is lifted only by
an administrator.

*Settlement: conservation.* `MoneyConserved` sums over all requests. `MoneyMoves(o)`
says that what a transaction takes from wallet, key and used quota is what its own
row gains; the sum over the others does not change, and `SumOfChanged` of
`FiniteSums` does the rest. The parts a row contributes are bounded by `MoneyRow`
(the key paid no more than the wallet).

*Settlement: no hold is left behind.* A handler that is done, none of its transactions
having failed, has left no row reserved: a dispatched request is charged, released, parked
for the durable queue or owned by an intent, any other one is released. `InStep(o)` is what
the handler's memory has to agree on with its row while nothing fails: whether the request
was dispatched, and whether the row is still reserved; a request that was not dispatched
has no attempt and no intent, so no worker touches it. The cleanup of a proven rejection
returns the hold without a way out when the wallet refuses it, and the return is refused
when it would overflow the column. The theorem therefore has a hypothesis, `[]Room`: what
the wallet was given and has not spent fits the column. `HoldIsReturnable` derives from
the sums of `MoneyConserved` that then wallet and key both accept every return. Without the
hypothesis, or after a lost commit (section 4), the row can be left.

*Finite sums.* A sum over a set is a recursive function on its subsets, and
the library's induction theorems cannot be instantiated here. `FiniteSums` derives
induction over a *set* of naturals from the least element of its complement,
proves with it that the recursion has a solution and that the order of the terms
does not matter, and from that how a sum changes when one term does.

*Orders.* A step creates an order, settles one, or changes only statuses
(`StepShape`). `PaymentReachesItsOrder` is not inductive: its strengthening
`PaymentInv` adds that every order keeps the window it was promised and every
settled one a block time inside it (`WindowsKept`), that every payment has
exactly its order's amount (`PaymentsExact`), and that reservations are disjoint.
`AmountsDiffer` shows that equal amounts mean equal units and equal cents. If a
transfer made for order p settled order o, then o and p have the same units and
suffix, so one's reservation ended before the other's began; the block time
lies in o's window by the settlement and in p's reservation by assumption: a
contradiction by arithmetic, and the place where `Cooldown >= TTL` is needed.
`CreditInv` strengthens `CreditedOnce` and `TopUpBacked`: order, top-up row and
ledger agree (`OrderBooks`) and no transaction is the evidence of two orders.
`BookInv` adds that the ledger is finite: `Credit` writes two new entries and
`ProcessAdminTopUp` one, and each adds to its own customer's sum alone.

*Watchers.* What a watcher has listed is on the chain and confirmed, and stays
so (`QueueConfirmed`, `ChainKept`). With that, each step of a cycle, crash or
lost answer is a step of `OrdersSpec` or changes no order. For the lease,
`LeaseInv` says what the row means to a cycle: while the watcher holds it, it runs
from the time that cycle read; if another holds it, the cycle has outlived its own
lease (`Outlived`) and so has the row by one more. The proof covers clocks that
disagree: the two cycles are a lease apart, less `MaxLag`. With agreeing clocks,
as in `usdt_standby`, that is a whole lease.

*Watched addresses.* A request enables at most one row, and is admitted while the
enabled rows are fewer than the cap. `CapInv` therefore counts enabled rows and admitted
requests together: an admission needs `MaxEnabled` or fewer rows and finds fewer than
`MaxOperators` others in flight, a write turns a request into a row, and a deployment
that keeps its previous address asks for room itself. So the sum never exceeds
`MaxEnabled + MaxOperators`, whatever interleaves. For `DisabledIsFinal` every step extends the table by an address
that has no row or switches one row (`Extended`, `Switched`).

*The table of counted mutexes.* `UnlockOrder` looks its entry up again and without
`createLock`; what it finds must be the mutex that `LockOrder` took. So the
invariant `LockInv` says that the mutex a callback has in hand *is* the entry of its
trade number (`EntryInHand`), that two trade numbers never share one
(`EntriesDistinct`), and that a count is the number of callbacks between their
increment and their decrement (`CountExact`). `LastUserAlone` is the heart: a
callback that finds the count at zero is the only one with that entry in hand,
since anyone else would be counted or would hold `createLock`; so a deletion takes
no mutex away from anybody. Mutual exclusion and the refinement follow from
`OwnerInside`.

*The outbox of alerts.* `OutboxInv` says what a worker holds of a row (`ItemFits`):
it acknowledges only what the recipient accepted, and only with the token of the
lease it took, so a row that is done was accepted by whoever told it.
`QueueInv` is about the table alone: the failures its rows count for a customer sum
up to those that happened (counted once, which is not told once: a delivery whose answer is
lost is repeated, and what is added to a job that is done is not told), a customer has one job that may still be added to, and a
test has one job. Workers and clock leave what the producers wrote
(`Quiet`), so each half is proved apart. It also bounds the table by `MaxJobs`,
the number the fairness of `HealthOutbox` ranges over: no job is left out of it.

*Paid verification.* `HealthInv` relates cases, gates, budget, workers and the
model. Every step is summed up by `CaseMoves`: it leaves the cases alone, keeps,
cancels, dispatches or finishes one, or queues one after closing the stale ones.
Two nodes may both remember a case, but a dispatch changes its state, so at most
one of them may still send (`SendersAlone`); each dispatch books a reservation and
`Reservation * Cardinality(Paid)` stays within the budget (`ReservedCases`).
A route's count of failures is backed by *distinct* cases (`FailuresProven`): a
finished case is the last of its route, hence no earlier probe of the same route is
still to come and no later healthy one was overlooked. An older generation's
cases are closed in the transaction that queues the first of a newer one, and
its jobs find another generation in the model's row.

*Reviews and proofs of attempts.* `BillingInv` follows the evidence. A charge
exists only on a settled request: the final one on the attempt it was settled for,
an additional one on the first of two attempts, where it closed the review as
billed (`ChargesAreSettled`, `AdditionalIsVerified`); so a no-charge proof, which
needs a review still open, finds none. The attempt a saved intent will charge was
not shown free (`IntentNotFree`), and a review is claimed only by a proof for its
own attempt (`ReviewsNameTheirProof`). A bill on a charge is that of an approved
proof for this very attempt (`BillsAreProven`), and an approval looks for other
approved proofs of its bill in *every* request, so a bill pays once, also across
requests; part `attempts` of `supplier` has one request only, and a separate run
of `BillingInv` on two requests whose proofs share a bill has shown the same on a
small instance. The shared parts of the transactions, `EnsureZTAPI...` and
`SyncZTAPI...`, have lemmas of their own (`EnsuredReviews`, `SyncedReviews`,
`SyncedCharges`), which every action that calls them cites. The proof found one
mistake of the model that TLC cannot see: two guards of a `CASE` in `ApplyTarget`
could hold together, TLC takes the first and the language leaves the value open.
The guards are disjoint now, there and in every other `CASE` of the modules.

*Billing sessions and the refund queue.* `BillingInv` follows each credit from the
session that asks for it to its row in the queue and from the row to the ledger. A request
has one row for each purpose, and the row's amount is what the session remembers having taken
(`RowsFit`); a pending row has not been credited, an applied or completed one has, and a dead
letter may be either (`RowFits`),
and the session's memory agrees with key and ledger at every step of its calls
(`KeyStages`, `KeyCovers`, `WalletStages`). A settlement and a refund could return the same
money: a wallet row of the refund excludes both directions of a settlement, so at most one of
them does (`RowsFit`, `SettleFits`). With that the balance is a sum over the ledger and the
key's columns a sum over the requests, and a step changes one term (`SumOfChanged`). A session
that was extended is covered by the sums but not by "pays what it reports" (`KeyExact`,
`WalletExact` speak of the others): section 4 shows what it returns twice.

*The quota of subscriptions.* The code cuts a negative use off at zero and refuses one above
the total, so a refund could return less than it says and the sum would drift. `QuotaInv`
therefore says of every subscription that it shows at least what *its own* requests were
charged (`UsedFits`); then the cut is never reached and what is posted is the whole
difference. That holds while the account has not been lost (`Accountable`): no save has
replaced a use it had not read (`overwritten`), nothing was returned twice, no period has
ended (`NoneIsDue`). The theorem takes no lock and excludes none of the three; it says that
the first two are the only ways, and section 4 shows each. What a request is charged
needs less (`ChargeIs`): it follows the session from its admission to its settlement or
refund whatever the rows have become, and the record a refund works from is its own
(`OwnRecord`), which is where ids that no client repeats are needed. That no
subscription is used above its total needs none of them, since each writer checks the row it
is about to write.

*Top-ups.* No handler has a lock on its row. What serialises callbacks is `LockOrder`
on a single node (`SingleNode`), which the theorems about repeated credits therefore ask
for; an administrator is beside it. `TopUpInv` says that whoever fulfils or credits an order
under that lock is alone with it (`HandlersAlone`). Without an administrator the status
it has read is then still the row's (`ReadsAreFresh`). With one it need not be, and
`CreditIsDue` counts instead: a handler that is about to credit finds an order to which
nothing was credited but, perhaps, what the administrator gave; and he gives only to a row
that is pending when he holds it, to which no callback has credited yet (`CreditsFit`).
So each pays at most once, and both only by that race (section 4, `TopUpWebhooks!CreditedOnce`).
Two exceptions had to be stated, and each is a place where the code is less careful.
Waffo's notice of a failure runs without the order's lock, so two of them may
be at work at once; both save the same status. And epay's handler stands between its
two writes with a row that is a success and not yet credited. `DecisionFinal`
needs one fact more: without administrators a row is open as long as the provider
has not decided (`OpenIsUndecided`), so Waffo's and Pancake's handlers, which save a
row as failed whatever it has become, find an open one.

*Subscription orders.* Two nodes may both find an order pending and both build a
subscription, but each inserts the order's top-up row in the same transaction, and its
trade number is unique: the second is rolled back. So a subscription paid by an order exists
exactly when the row does, and at most one (`OrderDeliveredOnce`). The status is weaker: an
expiry that read the order as pending saves over the success of another node, and only
`LockOrder` on one node prevents it. A purchase from the wallet compares what it has read and
takes the price from what is there, so purchases that run at the same time overdraw it; the
invariant counts those that have read the wallet before the others paid, which
bounds the debt by one price for each handler but the first.

*Finance alerts.* `SentOnce` bounds deliveries by faults, so its strengthening says
who could still cause one. `Counted` says that a pending row, or one being sent whose
holder has not had it accepted, was delivered at most once per fault: a further
delivery then stays within the bound, and the row leaves that state or a fault pays for
its return. It rests on the lease: what a node holds is the live lease of its row, not
expired (`ClaimsAreLive`), so a row that may be claimed is held by nobody
(`EligibleIsFree`), and the put-off of a rolled-back claim, a statement of its own,
finds either the lease it saw or a row it leaves alone. That a lease outlasts the tick
that took it is in the model (`LeaseExpires`), from the deadlines of the code.

*The settlement log.* Two databases, so two transactions, and a pass may be cut off
between them or run beside another. `LogInv` says that receipts and log rows are one
to one (`ReceiptsNameLogs`): a delivery that finds no receipt finds no log either,
which is why inserting one keeps `LoggedOnce`. A pass about to acknowledge holds the
log on the receipt of its row (`PassFits`), whether it inserted it or found it; a
receipt once written stays and the outbox only grows (`TablesGrow`), so no step of
another pass falsifies that (`UntouchedPassesFit`).

*Supplier refunds.* Neither half of `RefundsConserved` is inductive alone. The
strengthening `ReversalFits` says that what was refunded for a dimension *is* a
function of the units reversed. The target grows with the units and ends at the charge
(`TargetGrows`, from facts about division), so every plan adds a natural number, never
more than is left, and the code's check for a total that falls refuses nothing.
`PlanSums` then adds up what a plan changes over the dimensions (`SumOfDifferences`).
For the caches, `CallFits` says how what a call read relates to the row: a call
reads after its refund was applied, and its drop of the caches, if it saw them pending,
comes after its reading. A clear counts only if the revision is the one that was read, and
the drop before it was of that revision or a later one, so a flag that is clear is a
promise about the current row (`DroppedBeforeCleared`). A call that read a clear flag may
complete its refund although its own drop failed, because the drop that cleared it came after
its commit.

*Durable videos.* Four records and no transaction over all of them. `MediaInv` follows what is
final: the provider's answer once it has finished, a hold once it is settled or released, the
outcome of the durable task once it is applied. A poll may apply an answer long after it was
fetched, but a final answer stays true, and a task that is bound to one job accepts no other
outcome than the first one (`TaskAccepts`); it commits with the hold, before any polling row
is written, so a row never shows an outcome that the hold does not have.

*Polled tasks.* A poller of a video refunds or reprices only if its compare-and-set moved the
row out of the status it had read, and a final row is not listed again: so whoever is about to
adjust a task is the only one, and the row is final (`TasksBilledOnce`). Nothing of this holds
for songs. What holds there, with one poller, is a count: the row is left unsaved after a
refund only by a fault, so there is at most one more refund than faults.

## 6. What is only model-checked, and what is not modelled

*By TLC only.* Liveness (the properties of `progress` and `health_fair`, and
`OrdersClose`): the prover has no reasoning about fairness here. Of
RequestSettlement `FinishedRequestHandedOver` and `FinishedRequestReleased` are proved
for wallets that have room for what they hold (`NoHoldIsLeftBehind`), since a return that
would overflow the column leaves the row reserved. Of the other parts of
`InstancesHold`, and of `SongsRefundedOncePerCrash`, the theorems of the components hold for
these deployments too, as their hypotheses say (`SubscriptionsAreDeliveredOnce` and
`TopUpsAreCreditedOnce` for callbacks on one node). The order of the retry rows of
`SupplierRefund` is computed by `SelectSeq`, which the prover cannot expand; its type
(`SupplierRefundTypeOK`) stays with TLC and no theorem depends on it.

*Stated and checked while modelling, in no listed run.* The type invariants of
the components of the combined runs; `TokenAccounting` as a property of its own (it is a part of `MoneyConserved`);
`NoStarvation`, `CachesDropped`, `EveryLogDelivered`,
`IntentsSettled`, `EveryCallbackRuns`, `DueSubscriptionsExpire`,
`ApprovedIsApplied` and the properties of section 4. Proved as well, and in no
run: `DebtSuspends`, `ReservationsDisjoint`, `TopUpBacked`, `OrdersTypeOK`,
`WatcherTypeOK`, `HealthOutboxTypeOK`, `HealthVerificationTypeOK`,
`OnlyTrippedUnpublished`, `ReviewsAreFinal`, `DecisionFinal`, `OrdersExclusive`,
`DisabledStaysDisabled`, `CancelledIsResolved`, `FinanceAlertsTypeOK`,
`CompletedIsQueued`, `SettlementLogTypeOK`, `SessionTypeOK`, `RefundRowsMoveForward`,
`SubscriptionTypeOK`, `SubscriptionOrdersTypeOK`, `OrderFinal`, `MediaTypeOK`,
`PollingTypeOK`.

*Left out of RequestSettlement.* The cache synchronisation after a commit, and
the supplier charges, log outbox and review rows that the same transactions
write: they do not feed back into the settlement of the row, and AttemptBilling,
SettlementLog and SupplierRefund model them from their own side.

*Left out of the USDT modules.* Page limits and formats of TronGrid (an answer
is complete or an error), the choice among free suffixes (any), the counters
shown to operators, `ExpireUSDTTopUpOrders`, which only tests call, and changes
of the watched list during a cycle (`Watched` is constant there).

*Left out elsewhere.* The order in which a session tries wallet and subscription;
prices and the units of media; the import of supplier bills
(`ztapi_supplier_reconciliation.go`), which matches lines and changes no money;
the admission of live traffic by the health gate and the choice of a second
channel; wording of alerts.

*Not modelled at all*: see `components` in `PROJECT.json`, with the reason for
each. Protocol translation is most of the repository's lines (`relay/channel`,
`relay/common`, `dto`); it, the web console, OAuth, i18n and backups move no money
or change state only through the parts above. The Redis read-through cache of
users needs a second store with its own time to live, and is the first item of
the plan.

## 7. Plan

1. The user and token caches: a read-through fill racing an invalidation, and the
   retry of dropped caches (`model/user_cache.go`).
2. Routing of one request: the health session's admission of a second channel and
   the outcome of the first attempt (`controller/relay.go`, `relay/common/ztapi_health_session.go`).
3. Publication and repricing (`model/ztapi_publication_gate.go`): a price that
   changes between the quotation and the reservation.
4. Release control: finalize, rollback and the watchdog, with a crash after any
   command. Refinement: a release is decided once.

## 8. Running it

    tlc -workers 2 -config usdt_orders.cfg MCUSDTOrders.tla
    tlapm USDTProofs.tla

`PROJECT.json` lists every run with its module and configuration, the source
lines each definition translates (`map`), and for every property a mutated
definition under which the property fails (`mutants`): the definitions named
`Mut_...` in the modules are these plausible bugs and are used nowhere else.
