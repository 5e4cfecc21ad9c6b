# Formal models of Sub2API

The repository is a gateway that resells AI model access: users recharge a
balance or buy subscriptions, spend them through API keys, and the operator
runs several replicas of one Go server (`src/backend`) on PostgreSQL and Redis.
This directory holds TLA+ modules of the parts where concurrency, failure or
money make mistakes expensive and where tests reach least: payment orders, their
delivery and refunds, purchase limits, idempotency keys and the operation lock,
the credit ledger, batch image jobs, live calls, concurrency slots and the
snapshots the scheduler reads. TLC checks the modules on small instances; TLAPS
proves their safety properties for every value of the constants.

    tlc -config OrdersProduct.cfg MCPaymentOrder.tla    # one run
    tlapm PaymentOrderProofs.tla                        # all proofs of a module

## 1. Inventory

Paths are under `src/backend/internal/` unless they begin with `src/`.

| Part | State | Operations | What makes it correct |
|---|---|---|---|
| Purchase limits (`service/payment_purchase_limits.go`) | one reservation row per order, one counter row per period and one in total, one event per rolling purchase | reserve, consume, release, reacquire, immediate purchase | counters equal the rows they summarise; limits never exceeded |
| Payment orders (`service/payment_order.go`, `payment_order_lifecycle.go`) | the order row | create, call the provider, record its answer, cancel, expire, verify, reconcile | a paid order is not lost to a concurrent cancellation; a due order closes and frees its slot |
| Fulfilment (`service/payment_fulfillment.go`) | the order row, its redeem code or audit, the rebate audit | notification, to paid, take the lease, redeem or assign, rebate, complete, fail, retry | delivered once, only when paid, eventually |
| Rejected payments (`service/payment_purchase_limit_refund.go`) | audit, refund attempt | claim, audit, attempt, recover | a payment whose slot is gone is never delivered |
| Refunds (`service/payment_refund.go`, `payment_refund_attempt_state.go`) | order row, attempts, holds on balance or subscription | request, begin, park, settle, return | one attempt at a time decides; the money goes back once |
| Expiry service (`service/payment_order_expiry_service.go`) | a ticker and a leader lock | reconcile, expire | comes back to every due order |
| Redeem codes, affiliate rebates (`service/redeem_service.go`, `affiliate_service.go`) | code rows, rebate accruals and outbox | create, redeem, claim, accrue | once per order |
| Idempotency keys (`service/idempotency.go`) | a row per key with a claim that expires | claim, reclaim, run, complete, fail, replay, sweep | one effect per key; an answer is that of the same request |
| Operation lock (`service/system_operation_lock_service.go`) | one row of the same table | acquire, take over, renew, release | a lock that is renewed in time is not lost |
| Credit ledger (`repository/usage_billing_repo.go`, `usage_billing_batch_image_hold_repo.go`, `service/bank_service.go`, `bank_auto_exchange.go`) | balance, frozen balance, debt, grants of temporary credit, loans, holds | charge, reserve, capture, release, advance, exchange, repay, settle | every unit accounted for; once per request; debt and loans agree |
| Batch image jobs (`service/batch_image_*.go`, `repository/batch_image_*.go`) | the job row, its hold, a queue and locks in Redis, the provider's run | submit, cancel, recover, poll, index, settle, retry | charged when delivered, given back otherwise, in the end one of both |
| Live calls (`service/openai_live.go`, `repository/gateway_cache.go`) | the record of the call, its lease, observers and proxies | create, claim, observe, take over, give back, finalise | accounted for once; never without someone in charge |
| Concurrency slots (`service/concurrency_service.go`, `repository/concurrency_cache.go`, `handler/gateway_helper.go`) | sets of slots and leases, a counter of waiters, an index | acquire, wait, release, exchange for a lease, clean up | never more than the limit, nothing leaks |
| Scheduler snapshots (`service/scheduler_snapshot_service.go`, `repository/scheduler_cache.go`, `scheduler_outbox_repo.go`) | accounts and groups in the database, the outbox, the watermark, snapshots in Redis with epochs, versions, a lock and a lease | edit, announce, poll, retire, reopen, rebuild, publish, fall back | nothing of a closed group is shown; the snapshot converges |
| Mall, check-in, administrators' credit | ledgers | single transactions | seen from the ledger as issuers, from the limits as competitors |
| Other outboxes (rebates, key cache) | rows with claims | enqueue, claim, deliver, retry | at least once |
| Token refresh, leader lock | locks in Redis or PostgreSQL, cached tokens | acquire, refresh, release | one refresh at a time |
| In-process workers (timing wheel, worker pool, quota flusher, WebSocket pool, stream circuit) | queues, counters | submit, drain, stop | bounded, drained at stop |
| Gateway, moderation, plugins, OIDC, frontend, migrations, generated code | - | - | not candidates: conversion, I/O, heuristics, generated |

How the parts interact. A payment order is inserted with the reservation of its
slot in one transaction; the provider's webhook, the user's "verify", the sweep
and the query before every cancellation all end in
`HandlePaymentNotification`, on any replica, at the same time. Delivery takes a
five-minute lease written into the row's own `updated_at` and runs as separate
transactions. What is delivered arrives in the ledger as balance or credit. A
request to the gateway reads a scheduler snapshot, takes slots of its user and of
the chosen account, and is charged when it ends. A batch image job
reserves credit first and captures or releases it at its end; a live call exchanges
its slots for leases, which its observers refresh. Endpoints that move money or
restart the server go through the table of idempotency records.

What is hard here: no handler holds a lock from its first read to its last
write; leases are rows or keys with a lifetime, and their holder may be slower
than that; two stores, and the provider, are changed one after the other, and any
call may fail, or take effect and lose its answer; workers repeat each other's work
after a crash. PROJECT.json lists these hazards line by line with the
properties that watch them.

## 2. Modules

| Module | Content |
|---|---|
| `PurchaseLimits` | the three tables of the limits and the transactions on them |
| `OrderPromise` | abstract: the phases of an order as its buyer sees them |
| `PaymentOrder` | extends `PurchaseLimits`: orders, handlers, provider, time, faults |
| `RefundPromise` | abstract: money goes back once or not at all |
| `PaymentRefund` | refunds: attempts, holds, the provider's answers, late handlers |
| `IdempotencyRecords` | the rows of the table and its SQL statements |
| `OncePerKey` | abstract: what a key promises |
| `Idempotency`, `OperationLock` | the coordinator on one key; the lock of the system operations |
| `IdempotencyTable` | both on one table, with one clock and one sweep |
| `HoldPromise` | abstract: held at most once, then charged or given up |
| `CreditLedger` | balance, grants, debt and holds of one user, one transaction per action |
| `LedgerLocks` | the order in which those transactions lock rows |
| `BatchImageJob` | one batch image job from submission to settlement |
| `LiveCall` | one live call and those who control it |
| `ConcurrencySlots` | slots, leases and waiters of one user or account |
| `SchedulerSnapshot` | one bucket of the scheduler and its outbox |
| `MC...` | model values, symmetry and bounds for TLC |
| `SumLemmas` | lemmas about sums over finite sets |
| `PaymentOrderProofs` | theorems of `PurchaseLimits` and `PaymentOrder` |
| `PaymentRefundProofs` | of `PaymentRefund` |
| `IdempotencyProofs` | of `Idempotency`, `OperationLock` and `IdempotencyTable` |
| `UsageProofs` | of `LiveCall`, `CreditLedger` and `LedgerLocks` |
| `BatchImageJobProofs`, `ConcurrencySlotsProofs`, `SchedulerSnapshotProofs` | of the module of that name |

### PurchaseLimits

`reservation`, `periodStart` and `occurredAt` are the columns of a purchase's
reservation and event rows; `periodCount` and `totalCount` are the counter rows.
A row that does not exist is a zero counter or the status `none`. Each action is
one transaction, which is sound because every one of them first locks the
counter row, the reservation row, or the rolling scope it decides on. What a lock
does not protect is the instant: handlers call `time.Now()` before they lock, so
an action takes its instant from `Stamps`, up to `MaxSkew` ticks before the
commit. A rolling reservation therefore counts only the events before its own
instant, and a purchase that overtook it is not among them: of two purchases less
than `MaxSkew` apart, each may have missed the other. `RollingLimitButOvertaken`
says that this is all that goes wrong: in every window, of the purchases that are
pairwise further apart, there are never more than the limit. Two handlers are assumed
not to read the same microsecond where rolling events are compared. `Period` stands for the calendar (days, weeks or months in the
configured zone); all that matters is that instants fall into consecutive
periods. A calendar product counts per period and in total; a rolling product
counts events in `[t - window, t)` and keeps the total counter (`UsesEvents`).

### PaymentOrder and OrderPromise

A worker is a running handler: `pc` is its next statement, `job` its order,
`snap` the trade number it read, `goal` the status a cancellation wants. A step
is one SQL statement, one transaction or one provider call; consecutive reads
with no effect in between are merged with the step they guard.

| Handler in the code | Steps in the model |
|---|---|
| `CreateOrder`, `invokeProvider` | `CreateCheck`, `CreateInsert` or `CreateRefused`, `InvokeProvider`, `RecordDetails` or `FailPending` |
| `HandlePaymentNotification`, `toPaid`, `alreadyProcessed` | `Webhook`, `RefuseAmount`, `ToPaid`, `TooLate`, `NotToPaid`, `AlreadyProcessed` |
| `rejectLateProductPayment`, `recoverRejectedProductRefund` | `RejectPayment`, `RejectAudit`, `RejectAttempt`, `Recover`, `AdminRecover` |
| `executeFulfillment`, `doBalance`, `doSub` | `Check`, `Acquire`, `Reload`, `Lookup`, `CreateCode`, `Redeem`, `AssignSubscription`, `Rebate`, `Complete`, `MarkFailed`, `RetryFulfillment` |
| `CancelOrder`, `AdminCancelOrder`, `ExpireTimedOutOrders`, `VerifyOrderByOutTradeNo`, `ReconcilePendingPaymentOrders` | `Cancel`, `Expire`, `Verify`, then `QueryProvider`, `PersistTradeNo` and the payment steps, or `CancelOrder` |
| refunds of delivered orders | `RequestRefund`, `BeginRefund`, `ParkRefund`, `SettleRefund`, `ReturnRefund`, each one transaction |

`updated_at` is only ever compared with itself and with "five minutes ago".
`aged[o]` says which side of five minutes it is on, and `holders[o]` which
workers read the current value as their lease; every update of the row, whatever
its purpose, resets both (`Touch`). The environment pays bills in full or with a
wrong amount, lets time pass, ends any handler between two steps (`Stop`) and
lets statements fail where the code goes on after the error (`DatabaseError`);
both count against `MaxFaults`.

Abstractions. Amounts are "right" or "wrong". A subscription's audit
`SUBSCRIPTION_ASSIGNED` plays the part of the redeem code. One product and one
user: rows of different users or products never meet. Limits are constants, so a
change of the product's limits between an order and its late payment is not
covered. Of a refund `PaymentOrder` has the statuses and the purchase slot.

`OrderPromise`: an order goes from none to open, then closed or paid; a closed one
may still be paid or be rejected; a paid one is delivered, a delivered one
returned and refunded, a rejected one refunded. `KeepsPromise` says that every
step of every handler is a step of this machine or leaves it alone.

### PaymentRefund and RefundPromise

`status` and `latest` are the order's status and its newest row of
`payment_refund_attempts`; `refunds` holds these rows with the columns that
decide something. `balance`, `expires` and `alive` are the user's entitlements,
`own` and `terms` what they would be without refunds, `gateway` the provider's
own record of each request. A worker is a running handler: `at` is its attempt,
`answer` what it heard.

| Code | Actions |
|---|---|
| `RequestRefund` | `RequestRefund` |
| `PrepareRefund`, `beginRefundAttempt` | `MayBegin`, `BeginRefund` with `NoHold`, `HoldBalance`, `HoldTerm`: one transaction |
| `createPurchaseLimitRejectedAttempt` | `BeginRejected` |
| `callRefundProvider`, `finishRefund` | `Call`, `WaitAnswer`, then `Park`, `Settle` or `Return` |
| `QueryAndFinalizeRefund`, `queryAndFinalizeRejectedProductRefund` | `Query`, `QueryAnswer`, then the same three |
| `recoverRejectedProductRefund` | `Interrupted`, then `Park` |
| provider, user, subscription renewal, faults | `Decide`, `Spend`, `Renew`, `Stop` |

An answer is given for the state the provider's record has when it is asked, and
is applied later, when the order may have moved on: that is where the races are.
Two providers answer a query with what the refund does not come to.
`Alipay.QueryRefund` says "failed" of every status but success (`alipay.go:389`),
also of a refund under way: `HastyOrders` are paid with it. `Stripe.QueryRefund`
without a refund id takes the newest refund of the payment (`stripe.go:269`), which
may be that of another attempt: `IntentOrders`, with `newest` as the provider's
record. Whether such an answer turns out to be true depends on what the provider does
later; when it is not true at the moment it is given, the order becomes a member of
`misled`, a history variable. The code cannot do better than the answer for these
orders, so the safety properties are about the others; the balance adds up for all
of them.

Abstractions. The answers failed and canceled, which the code treats alike, are
one. The days an order bought are one term, and no term ends by itself. The five
minutes that `recoverRejectedProductRefund` waits are any time at all. Left out:
the cap a provider puts on the sum of its refunds (`RefundedOnce` asks for more),
orders without a provider number, and refunds of older versions without an
attempt row.

`RefundPromise`: an order is kept, returning or refunded; money goes back only
while it is returning and only once, and it ends as refunded exactly when money
did go back. An order whose refund was called off is not refunded afterwards by
an answer that was late. An order may leave the promise by becoming `excused` (here:
misled), and stays so; it takes no other order with it.

### IdempotencyRecords, Idempotency, OncePerKey

Each SQL statement of `repository/idempotency_repo.go` is one operator on a row;
an attempt (`Idempotency`) is a request that reads the clock once and then runs
statement by statement: `Begin`, `CreateProcessing`, `GetExisting`, `TryReclaim`,
`GetLatest`, the operation (`Perform` or `CommitAtomic`), `MarkSucceeded` or
`MarkFailed`. An atomic attempt writes effect and record in one
transaction, another one in two, with a crash possible between them. All
processes read one clock. `OtherPayload` are the requests that send the same key
with another body.

`OncePerKey`: after an effect that made a promise no other attempt takes effect
before the promise has expired. Two exceptions are stated in it: a non-atomic
operation that reports an error promises nothing, and an attempt that met the
record at its very expiry may run (`MetAtExpiry`; see the observations).

### OperationLock, IdempotencyTable

The row of the lock of the administrator's operations, the renewal goroutine and
the takeover. The lock is a lease, so the model lets no time pass while an
operation is between two statements of acquire or release, or while a renewal is
due (`OnTime`): what goes wrong here goes wrong with every process on time.
Renewals may meet up to `MaxErrors` store errors in a row. `IdempotencyTable`
puts both modules on one table, where one sweep deletes what has expired.

### CreditLedger, HoldPromise, LedgerLocks

`ledger` holds the user row (balance, frozen, debt and its due day), the grants
(with their window), the loans and the setting of the automatic exchange;
`charge` and `hold` are the dedup rows of requests and of batch image jobs. One
action is one transaction that commits: all of them lock the rows they change and
roll back on every error. A charge lets the automatic exchange turn balance into
credit first, then takes temporary credit, and the balance last.

| Code | Actions |
|---|---|
| `usage_billing_repo.go` | `Charge`, with `AutoExchanged` and `Consume` |
| `usage_billing_batch_image_hold_repo.go` | `Reserve`, `Capture`, `Release`, by `SettleHold`, `Restored` and `Lapsed` |
| `bank_service.go`, `bank_debt.go` | `Advance`, `ExchangeCredit`, `RepayPermanent`, `RepayTemporary`, `RepayNothing`, `SettleDue` |
| `bank_auto_exchange.go` | `SetExchange`, `AutoExchangeIfNeeded` |
| `temporary_credit_*.go`, check-in, mall, administrator | `IssueGrant`, `PayIn` |

Abstractions. Amounts are whole units, so nothing is rounded; exchange and
repayment ratios are constants; a day is one instant; the exchanges that one
transaction makes by itself, each a grant with the same window, are one grant.
Left out: holds of versions before the temporary credit,
`ApplyTemporaryCreditDebtOffsetTx` (it has no callers), tiers of the exchange,
quotas of keys and accounts, dynamic rates and mall purchases.

`LedgerLocks` has only the locks: the plan of each kind of transaction, with
PostgreSQL's lock modes, and what the database does with a circle of waiting
transactions: charge, bank, reservation, settlement. `lockTemporaryCreditUser` says
that all of them lock the user row first. Two do not: a charge shares the user with
other charges before it asks for it alone, and a settlement of a hold locks grants
first. What is checked and proved is what the order does give with all four kinds at
work: a circle always contains a settlement or two charges (`CirclesOutOfOrder`), so
the database never ends a transaction where there are none (`FailuresOutOfOrder`,
proved). That such circles do arise is an observation below.

### BatchImageJob

`job` is the row (`named` is a stored provider job name), `hold` the status of
its hold, `run` the provider's job, `queue` and `lock` the Redis keys. `submit`,
`request`, `sweep` and `worker` say where the calls of `Submit`, of `Cancel`, the
recovery of jobs never submitted, and the workers are, each with the status it
read. A step is one statement, one script or one provider call.

| Code | Actions |
|---|---|
| `batch_image_public.go` | `CreateJob` and `SubmitStep` (reserve, upload, submit, name the run); `ReadJob` and `RequestStep` (cancel, release, enqueue) |
| `batch_image_billing_recovery.go` | `SweepStep`: `ListStale`, `FailStale`, `ReleaseStale`, `EnqueueStale` |
| `batch_image_worker.go`, `batch_image_processor.go` | `ReserveJob`, `LockJob`, `ChooseProcessor`, `ReadForProvider`, `Poll`, `IndexOutput`, `BeginSettling`, `ReleaseFinished`, `Ack` |
| `batch_image_settlement.go` | `ReadForSettlement`, `CaptureHold`, `MarkSettled`, `RecordUnsettled`, `ReleaseUnsettled`, `FailUnsettled` |
| `batch_image_queue.go` | `MoveDueDelayed`, `RecoverStaleActive`, `LockExpires` |

Left out: deleting inputs and outputs (`output_deleted`), downloads, the checks of
prices and counts, in-flight keys that expire, an output that is missing for good,
answers that are lost after the call took effect, and further keys of
submission. `trouble` records the faults after which the code itself gives up
(below); the properties name it where they except it. The module is run without
an MC module.

### LiveCall

`call` is the record in Redis with its controller (pending, observer, proxy,
closed, gone), `lease` the state of the lease on account, user and key, `observer`
and `proxy` where those goroutines are. The scripts of `gateway_cache.go` are
single steps; reads, dials and broken connections are steps too. Faults: a
command that fails ("store"), one that takes effect and loses its answer
("answer"), the death of a process ("death"). Frames, the choice of an account and
checks of identity are left out; a refused check is a call that is not created.

### ConcurrencySlots

`slots` and `live` are the two sorted sets, `oldSlots` and `oldLeases` their
members that are past their time, `waits` the counter of waiters, `indexed` the
entry of the index that the cleanup worker reads. `granted`, `open` and `queued`
are what the handlers believe. There are several replicas, and one that starts runs
the cleanup of slots of dead processes, which takes every slot without its own prefix
and the counter of waiters (`CleanSlots`, `CleanWaits`), whoever they belong to. The
lease of a call that goes on may lapse too, while its observer cannot dial
(`LeaseMissed`, `openai_live.go:660`), and the counter may fail and let a request
wait uncounted (`Count`, `concurrency_service.go:501`). Two history variables record
whom this concerns: `lost` the clients whose slot or lease was taken while they went
on, `missed` how many waiters the counter forgot or never had. The properties say that
nothing else, no interleaving of the scripts, failure, lost answer or death, takes a
count away or lets one in. Assumed: a request ends before its slot lapses
(`config.go:1060` asks for that). Left out: slots of API keys, which are only
counted, loads read for scheduling, the lease of WebSocket ingress and the message
queue of a user.

### SchedulerSnapshot

The database is a number that grows with every edit (`data`) and a group that is
open or closed (`flips`); `log` is the outbox with the dedup key of each row;
`epoch`, `retired`, `shown`, `versions`, `lock` and `lease` are the keys of
`scheduler_cache.go`, each Lua script one step. Writers change and announce, in
one transaction or in two statements; pollers are the outbox workers of the
replicas; rebuilders are the periodic full rebuild; readers are requests that
found no snapshot, load the accounts and publish them without a lock.

| Code | Actions |
|---|---|
| `SetRateLimited`, group updates, updates in a transaction, `syncSchedulerAccountSnapshot` | `EditAccount`, `FlipGroup`, `BeginEdit`, `CommitEdit`, `Announce`, `SyncLoad`, `SyncStore` |
| `pollOutbox`, `handleOutboxEvent`, cleanup | `Poll`, `NextEvent`, `StoreDetails`, `Consume` |
| `prepareGroupLifecycle` | `TakeLease`, `ReadGroup`, `RetireBucket`, `ReopenBucket`, `ReleaseLease` |
| `rebuildBucketWithTokenPolicyAndQueryCache`, `SetSnapshot` | `CaptureToken`, `LockBucket`, `LoadAccounts`, `AllocateVersion`, `ActivateSnapshot` |
| `rebuildFullSnapshot`, `ListSchedulableAccounts` | `StartRebuild`, `ListGroups`, `MissSnapshot` |

Assumed: a lifecycle ends before its lease (30 s against 60 s); statements that
commit by themselves become visible in the order of their ids, so only an open
transaction leaves a gap; the two reads that begin a poll are one step. The
accounts' own keys and the members are written with the version. Left out:
deletion of accounts, bulk events, `last_used`, run mode simple, several buckets that
share one load, and the rebuild for lag, which is a full rebuild at an earlier
moment.

## 3. Runs

| Run | Instance | Shows |
|---|---|---|
| `transactions` | ledger: 2 grants, 2 jobs, 1 request, income 4, 3 days; locks: 4 transactions of any kinds; limits: 4 orders, window 5, limit 2, 7 instants, skew 1 | every unit of balance, credit and debt accounted for, `HoldPromise`; circles have a settlement or two charges in them; no window over its limit but by overtaking |
| `orders_recharge` | 1 balance order, 2 workers, 1 fault, fair | `OrderPromise`; due orders close, paid ones are delivered |
| `orders_product` | 1 subscription order and 1 mall purchase for 1 slot, 2 periods, 2 workers, 2 faults | delivered once, never when rejected; slots follow statuses; refinement of `PurchaseLimits` |
| `refund_flow` | 1 subscription order (Alipay) and 1 rejected payment (Stripe), 2 attempts, 2 subscription rows, 1 renewal, 2 workers, 1 fault | holds follow their order, refunded once, `RefundPromise`, but for misled orders |
| `refund_decided` | 1 balance order (Stripe) of amount 2, 2 attempts, 2 workers, 1 fault, fair | the balance equals what it would be less the holds in force; decisions arrive |
| `idempotency` | 4 attempts (one with another body) and 2 operations, of which 3 begin (`FewRequests`), 3 ticks, 1 renewal error | `OncePerKey`, claims are honoured, a renewed lock holds |
| `batch_image` | 1 job, 1 further request, 2 workers, 2 retries, 2 faults, fair | the charge matches the job; the hold ends |
| `live_call` | 1 call, 2 proxies, 3 observers, 2 faults, fair | accounted for once and in the end; someone is in charge |
| `slots` | 2 requests and 1 live call at limit 1, queue 1, 2 replicas, 2 faults | limit and queue, but for what was lost and missed |
| `slots_cleared` | 1 request and 1 live call at 2 replicas, 3 faults, fair | nothing is left behind |
| `scheduler` | 1 writer, 1 poller, 1 rebuild, 1 edit, 2 changes of the group, 2 faults, fair | nothing from before a closure is shown; convergence |
| `scheduler_group` | 2 pollers, 1 rebuild, 1 reader, 2 changes of the group, 1 fault | the bucket follows the group |

Bounds. Every pair of statements of two handlers meets with two workers, and
every condition of the code reads one order (job, call, bucket), so two workers on
one of them exercise each race; a third adds takeovers of takeovers, which the
proofs cover. Two periods let a slot be released in one and retaken in the next;
one slot and one competitor make "no slot left" happen at each point of the
lifecycle. Two faults let a retry fail as well. Amount 2 makes partial and forced
refunds differ from full ones. Three attempts are one that claims the key, one that
takes over, and one that comes late to both. Two grants are one of the bank and
one of another window, and three days are before, within and after a window. Two
changes of the group close it and open it again while writers of the first
opening are still under way. Two replicas with requests at each let one of them start,
or die, while the other serves; a live call in the one slot lets two requests meet in
the queue. Ticks that are one apart and a window of five let three purchases of a window
be apart by more than the skew, and others overtake them. Larger instances that also passed: three faults
in `batch_image` (1.6 million states) and in `live_call` (1.4 million); four requests, so
that three meet in the queue, and one fault in `slots`; 9 instants in the limits of
`transactions`; a reader in
`scheduler` (5.7 million), and three changes of the group without faults in
`scheduler_group` (3.5 million). Symmetry permutes interchangeable workers,
attempts and jobs, and only in runs without liveness. Deadlock is checked
where the system never stops (`scheduler`, `scheduler_group`); elsewhere the
sets of orders, requests and jobs are finite, and an execution in which all of
them are settled ends.

`transactions` runs three modules at once. In each of them a step is a transaction or a
lock, they share no variable, and no step of one enables, disables or changes one of
another. So `MCTransactions` lets each of them run while the other two rest where they
begin: every reachable state of each is reached, without the product of the three.

Types are not checked by these runs where a theorem proves them (section 5).

### Observations

What the models showed of the code while they were written. The properties of the
runs above except these cases by name, or do not meet them; where an instance is given,
TLC finds the execution in it.

Payments.

* A rolling reservation reads its instant before it waits for the lock, and does
  not count the one that overtook it; a window may hold one purchase too many
  (`payment_purchase_limits.go:299`; `WithinRollingLimit` in the instance of
  `transactions`), although migration 188 announces "concurrency-safe" limits.
* `acquirePaymentFulfillmentLease` reads the lease back in a second statement;
  stalled between the two for five minutes it reads the lease of the worker
  that took over, and may fail or complete the order in its place. Delivery stays
  once-only even so.
* A process that dies after claiming a late payment and before its audit leaves
  the order in REFUNDING (`payment_purchase_limit_refund.go:123`); neither
  notifications nor the administrator's query move it (`RejectedIsRefunded`, with
  a fair specification, one product order, one mall purchase, one fault).
* A failed refund sets the subscription back to the end stored with its hold; a
  renewal bought in between is lost (`payment_refund_attempt_state.go:642`;
  `TermsAddUp`, one subscription order, three terms, no fault).
* A query that takes a refund under way for a failed one (`alipay.go:389`), or another
  refund of the payment for the one asked about (`stripe.go:269`), gives the hold back
  and admits a second attempt, or uses the hold up for a refund that failed
  (`HoldFollowsOrder` and `RefundedOnce` of all orders, without the exception of
  `misled`, in `RefundFlow`).
* An order whose bill was paid with a wrong amount never expires (`DueOrdersClose`
  excepts it). Verifying an expired order moves `updated_at`, so its grace begins
  again. Two creations can pass `checkPendingLimit` together. A subscription that
  its hold deleted cannot be restored while a newer row is alive
  (`RefundDecided` excepts it).
* A read error in `alreadyProcessed` or `confirmPayment` is answered with success,
  and the provider stops repeating a payment that was not processed.

Idempotency.

* `TryReclaimOwned` (`idempotency_repo.go`) compares no expiry: two attempts that
  read the same expired record can both take it over, the second after the first
  has come to its end. `OncePerKey` excepts it (`MetAtExpiry`).
* A lock that was taken over keeps the fingerprint of the operation before, which
  the renewal compares (`idempotency_repo.go:114`): the new holder cannot renew
  it, and a third operation runs beside it (`OneOperation`, three operations, no
  attempts, `MaxTime = 4`, `SystemOperationTTL = 8`).

Ledger.

* A charge takes a shared lock on the user for a foreign key and then wants the
  exclusive one, as every other charge of that user does
  (`usage_billing_repo.go:57`): two of them deadlock. Settling a hold locks grants
  before the user (`usage_billing_batch_image_hold_repo.go:792`, `:1013`, then
  `:904`) and deadlocks with charges and with the bank (`NoCircularWait` in the
  instance of `transactions`, or with two transactions only). The comment at
  `temporary_credit_tx_executor.go:116` says that all of them "lock the user row first,
  then grant rows". PostgreSQL ends one of those in the circle; it is not retried.
* Credit of an advance that a hold keeps when the grant expires is not counted as
  unused, and is lost when the hold is released.

Batch image jobs.

* A `Cancel` that read the job before `Submit` stored the provider's name cancels
  the submitted job and releases the hold without asking the provider
  (`batch_image_public.go:760`): a run nobody pays for, although the comment at
  `batch_image_billing_recovery.go:54` says such jobs are let be. The property is
  therefore only that the user cancelled (`UnpaidRunIsCancelled`).
* A worker whose lock lapsed and whose read of the output breaks off moves a
  settling job to failed, though another one charged it (the exception in
  `ChargeMatchesJob`).
* A job captured but not marked before its retries are used up is refused a
  release for ever and requeued for ever; so is a job that failed without a hold,
  once `Cancel` enqueues it.
* A death between the transition to failed or cancelled and the release, or a
  lost entry of the queue, strands the hold (the exception in `EveryHoldEnds`).
* `RecordBatchImageJobSubmitFailure` overwrites cancelled with failed.

Live calls.

* `finalizeLiveCall` gives up when the mark fails or its answer is lost, contrary
  to what `finalizeLiveCallAfterExpiry` counts on; the usage log is lost.
* A lost answer of a proxy's claim or of `SaveLiveCall` strands the call, as does
  the death of the process that observes it; no other process takes it over
  before its key expires.
* The observer dials on a record it read before, so a takeover that began and
  ended meanwhile leaves two observers connected (`OneObserver`, no faults). A
  release that fails is ignored, and the client cannot join again (`Rejoinable`,
  one "store" fault). One transient error of a refresh ends the call.

Concurrency slots.

* The cleanup of a starting process removes slots of every other process id, and the
  counter of waiters: while several replicas run, the requests of the others go on
  uncounted, and as many again are let in. The comment at `concurrency_cache.go:1240`
  says that the counter belongs to a dead process (`WaitersAreDead` in `slots`,
  without faults).
* A waiter whose counting failed is let in uncounted and taken down all the same
  (`concurrency_service.go:501`): `QueueHonoured` counts it in `missed`.
* An observer that cannot dial does not refresh the lease of its call
  (`openai_live.go:660`), and a refresh does not bring back one that lapsed: the call
  goes on uncounted (`LeaseMissed`).
* `refreshActiveIndex` removes the entry on a load that may be old
  (`IndexCoversLoad`, two requests); the entry comes back with the next request.
* A live call that exchanges its slot is counted twice for a moment, and its lease
  can be refused for want of the room it holds itself (`ExchangeSucceeds`, two
  calls at limit two).
* `wrapReleaseOnDone` gives the slot back when the context of the client ends,
  although the upstream request may go on; ordinary slots are never refreshed.

Scheduler. All of these are repaired by the periodic full rebuild (300 s by
default; 0 switches it off, `config.go:3727`), which is what `Converges` shows.

* A transaction that took its row id early and commits late finds the watermark
  past it: the event is deleted unread, contrary to the comment at
  `scheduler_outbox_repo.go:129` (`ReadBeforeDeleted`, two writers, one poller, one
  rebuild, no faults), and until then its key blocks equal events.
* An event of a transaction can be merged with a row that is handled before that
  transaction commits.
* Accounts' own keys written by a writer that is fenced afterwards are visible at
  once, although the comment at `scheduler_cache.go:417` says that what is written
  in between is published only by the second check.
* A rebuild that finds the bucket locked counts as done, while the holder may have
  loaded older accounts. Versions are allocated after the load, so a request's
  older load may replace a newer snapshot.

## 4. Fairness

`FairOrderSpec` assumes that a running handler takes its next step (request
contexts have deadlines, goroutines are scheduled), that `expires_at` and five
minutes pass, and, strongly, that for each order the expiry sweep comes back
(`PaymentOrderExpiryService` runs on a ticker for ever, on whichever replica
leads), that the provider repeats a notification of a paid bill, and that an
administrator asks again about a refund that hangs. The second is what
providers document and what the code relies on: a handler that cannot take a
fresh lease answers with a conflict, and the webhook answers a failure. Two
limits of that premise: providers give up after a day or so, and where the code
swallows a read error it acknowledges a payment it did not process. Strong
fairness is needed because a worker may be busy each time such an action is
enabled. Liveness asks for delivery, not for the status COMPLETED: a worker that
stalls for longer than its lease can be overtaken for ever.

`FairRefundSpec` assumes that handlers go on, that an administrator comes back to
an order whose refund is open (the code has no sweep for it), and that of the
queries of a decided refund some are answered with the decision. Nothing is
assumed of the provider's decision itself.

`BatchFairness`: what runs goes on; the loops that `worker_runtime.go` starts
(workers, due entries, stale entries, recovery) run for ever; locks have a
lifetime; the provider ends its jobs. Nobody has to call `Submit` or `Cancel`.

`FairLiveSpec`: handlers, proxies and observers go on, and `expires_at` passes; no
client has to come, and no connection has to break.

`FairSlotsSpec`: handlers go on (waiting is timed), lifetimes pass in Redis, the
cleanup worker's ticker ticks, and a process that died is started again. No lease of a
call that goes on has to be missed.

`SnapFairness`: what writers began goes on, both tickers tick for ever, and Redis
expires the lock and the lease. Readers are not fair: no request has to come.

## 5. Proofs

All theorems hold for every value of the constants under the modules' named
assumptions, without the bounds of section 3.

| Module | Invariant | What it proves of the runs' properties |
|---|---|---|
| `PaymentOrderProofs` | `LimitInv`, `RollingInv`, `OrderInv` | all of the limits and the orders, refinements of `PurchaseLimits` and `OrderPromise` |
| `PaymentRefundProofs` | `BalanceInv`, `RefundInv` | all, refinement of `RefundPromise` |
| `IdempotencyProofs` | `KeyInv`, `LockInv` | all of keys and the lock, refinement of `OncePerKey`, on one table too |
| `UsageProofs` | `LiveInv`, `LedgerInv`, `BooksInv`, `HolderInv` | all of live calls, of the ledger and of its locks, refinement of `HoldPromise` |
| `BatchImageJobProofs` | `BatchInv`, `ChargeInv` | all |
| `ConcurrencySlotsProofs` | `SlotInv` | all |
| `SchedulerSnapshotProofs` | `SnapInv` | all |

No theorem has a hypothesis of its own: whatever the constants say of skews, providers,
replicas, kinds of transactions and faults is covered.

### Payments

`LimitInv` says: types, counters equal to cardinalities, limits. The counters are
what the guards test and the cardinalities are what the limits speak of, so
neither part is inductive without the other. `RollingInv` bounds, in every window, the
sets of events that are pairwise further apart than `MaxSkew`, and adds that no event is
in the future. That is the ordering argument: a purchase counts the events before its
instant, none is later than the clock, and the clock is at most the skew ahead of the
instant. So an event that is not counted is too close to it to be in a set with it, and
the others of the set are all counted (`LimitRolling`). Without the restriction to such
sets the statement is false.

`OrderInvariance` is `OrderSpec => [](LimitInv /\ OrderInv)`. `OrderInv` states,
besides types, what each position in a handler implies for the order it works on
(a worker past `Acquire` has an order that was paid, one at `rebate` has one that
was credited), and what each status implies for payment, credit, rebate and slot.
These need each other: that a rejected order is never delivered rests on no worker
being in delivery before PAID, which rests on `ToPaid` being the only way in. One
lemma per action. `OrderPromised` maps each action to a step of `OrderPromise` or to
a stutter, `OrderLimits` to one of `PurchaseLimits`; whatever holds of the limits
follows for the orders (`OrderWithinLimits`, `OrderWithinRollingLimit`). That only what
was paid in full is delivered (`OrdersPaidForDelivery`) is another part of `OrderInv`.

`RefundInv`: the latest attempt of an order is its own, what the state of an attempt
implies (`AttemptFacts`), what the status of an order implies (`OrderFacts`), and
what a handler that has not applied its answer yet knows (`HandlerFacts`). The
last is the heart of it: a final answer stays true until it is applied, however
late. All of them are about orders outside `misled`: an answer that is not true when it is
given makes its order a member, so what a handler of another order holds was true then,
and what a provider decided stays. `RefundPromised` maps the step that misleads to the
one that excuses the order. The balance needs none of this: `BalanceInv` adds to `BalanceAddsUp` only types and that finitely many
attempts hold something, since an attempt that stops holding gives back what its
row says it took, whatever the provider answered.

### Idempotency keys and the operation lock

The centre of `KeyInv` is `Free`: no promise of the key lasts, or the exception of
`OncePerKey` applies. A record that anybody may take, or that an atomic attempt
works on, is free; any other lasts at least as long as the promise (`RowFacts`), and
a claim the row still answers to belongs to one attempt (`ClaimFacts`). From it
follow `KeyTypes`, `ReplayedToSame`, `ClaimsHonoured` and `KeyPromised`. `LockInv` gives
`LockTypes` and `RenewedLockIsHeld`: every renewal falls into the lease because of
`OnTime`. `TableKeepsBoth`: with the shared clock and sweep both parts still keep
their promises.

### Credit ledger and its locks

`LedgerInv` (`LedgerTypes`, `DebtAgrees`, `HoldsPromised`) adds to the types that at
most one loan is active, without which the debt of the user and the loans could
not agree.

`BooksInv` adds the sums. `Totals` are the three equations of the runs' properties,
solved for what a transaction moves: balance that no bank booking explains
(`Unbooked`), frozen balance beside the deposit (`Reserved`), credit that is with the
jobs (`WithJobs`). Each operator of the model, from `Moved` up to `AutoExchanged`, has one
lemma that says by how much it `Changes` these three; what stays within the bank
changes none of them (`Settles`). A transaction is a composition of operators, and its
proof is that of their lemmas. Three further parts make it inductive: unused credit is
on record only once it was settled (`Swept`), rows of jobs and requests that were not
used hold nothing (`Blank`), and what is held belongs to a grant whose window has begun
(`HeldInWindow`): a hold that is given back can miss only the end of the window, which is
the end it tests. From `BooksInv` follow `LedgerFrozen`, `LedgerCredit`, `LedgerBooked` and
`LedgerInWindow`, and two facts about guards the code has as a last defence and that
therefore no test reaches: the frozen balance always covers the deposit and every
hold (`LedgerFrozenCovers`), and no release raises a grant above its amount
(`LedgerRestoreFits`), so neither ever refuses a settlement. `LedgerPermanentLast` is
about single steps: when the balance pays, the credit that can be used is used up.

`SumLemmas` has what these proofs need of sums over sets: removing, adding and
changing one summand, sums of zeros and of equal summands. The library defines a sum
by recursion over subsets and the induction theorems cannot be instantiated here;
instead a sum is shown to be the number of its units, the pairs of a summand and a
number up to it, and that this number satisfies the recursion is shown on a smallest
subset on which it does not (the subset relation of a finite set is well-founded).

`LedgerLocks`: all transactions but settlements begin with the user row, and only charges
share it. Hence of two that run and are neither a settlement among them nor both charges,
one holds nothing yet (`HolderInv`) and blocks nobody. Whoever is in a circle blocks
another of the circle, so two members of it hold something: the circle has a settlement
or two charges in it (`LockCircles`), and where a transaction was ended by the database
there are some (`LockFailures`). Charges and settlements are part of what is quantified
over.

### Batch image jobs

`BatchInv` is about the row and what each process read of it; `ChargeInv` adds that as
long as no lock lapsed, a worker past `LockJob` holds the lock and is the only one.
`BatchTypes`, `RunsArePaid`, `FinishedStays`, `ChargesMatch`.

### Live calls

`LiveInv` replaces counting by exclusion (`OneAccounts`): a handler between the closing
script and the log is the only one, and nothing is logged yet; it got there only by
closing a record that was open, which afterwards is closed for good
(`AccountsAfterEnd`). `NotYetSaved` covers the time before the record exists, and
`Owners` says that a record under a proxy names that proxy and that a proxy's
handler starts observing only when its proxy ended, so that taking a call over and giving
it back moves the duty instead of dropping it (`SomeoneInCharge`, which excepts the
faults in `trouble`).

### Concurrency slots

`SlotInv`: where a request is says what it was told (`Told`), no request is served by a
process that is down (`Served`), whoever goes on is counted unless its count was taken
(`HeldIsCounted`), those who count are within the limit (`Room`), and the waiters within
the counter and those it missed (`Queue`). `Room` is about the union of slots and leases
(`Counted`), since a call that exchanges its slot is a member of both: this is why the
lease may be given at a sum of one more than the limit. A starting process moves all
that are granted into `lost`, and a lease that lapses its call, so both only shrink
`Counted`; no process has to be alone, and no failure is excluded. With
`HeldIsCounted`, `Room` gives `SlotWithinLimit`. A request that is taken down
though it was not counted lowers the counter by one at most, and leaves the queue with
that: this is why one unit of `missed` for each such request is enough
(`SlotQueueHonoured`).

### Scheduler snapshots

`ShownFresh`: a writer whose token is not behind the epoch loaded its accounts after the
bucket was last retired; the epoch moves when a bucket is retired, so whatever was
loaded before is fenced off (`SnapshotFreshSinceRetired`). `GroupSettles` is about
what will still look at the group: as long as the bucket disagrees with the group, a
writer has yet to announce its change, an announcement was lost, or a row of the log is
ahead of the watermark and each poller that already listed it still owes it a look.
That the dedup key of a row blocks an equal event is safe because the row is then
still ahead of every poller (`Rows`). `SnapshotGroupFollows` is what remains
when nothing is owed.

### Only model-checked

The liveness properties `DueOrdersClose`, `PaidIsDelivered`, `RefundDecided`,
`EveryHoldEnds`, `EveryCallAccounted`, `NothingLeft` and `Converges`: liveness under
fairness is out of the proof system's reach.

## 6. Not modelled, and the plan

Done: purchase limits, orders, delivery, refunds, idempotency and the operation
lock, the ledger and its locks, batch image jobs, live calls, concurrency slots,
scheduler snapshots; five abstract promises (orders, refunds, keys, holds, limits)
with their refinements.

All invariants, action properties and refinements that the runs check are theorems; the
liveness properties are not.

Next, in this order:

1. The outboxes of rebates and of the key cache: claims, retries, at least once.
2. The lease of WebSocket ingress (refreshed every 20 s, lifetime 60 s), the
   message queue of a user, deleting the outputs of batch image jobs.
3. Notifications with an acknowledgement, so that the provider's fairness is
   stated per notification.
4. Token refresh under a distributed lock, and the leader lock with its fallback.

The in-process workers are candidates after that. Left out for good: provider
protocols and signatures, conversion between API formats, heuristics of
account choice, moderation, plugins, user interface, deployment, migrations and
generated code; they make up nearly all of the repository's lines and hold no
shared state that a step of another could disturb.
