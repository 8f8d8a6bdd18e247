# Sub2API: a TLA+ verification project

Sub2API is a gateway that resells access to upstream AI accounts. Users top up a
balance or buy a subscription through a payment provider, call the gateway with
an API key, and are charged for what they use. The Go backend (`backend/`) keeps
its durable state in PostgreSQL, shares short-lived state between instances in
Redis, and runs as several instances at once. Every operation is a sequence of
separate statements, calls and transactions, and another instance, a webhook, a
sweeper or a crash may come between any two of them. That is what this project
models.

All paths are relative to `src/`. "Service" means `backend/internal/service`,
"repository" `backend/internal/repository`.

## 1. Inventory

| Part | State it keeps | Operations | What makes it correct |
|---|---|---|---|
| Payment orders (`payment_order.go`, `payment_fulfillment.go`, `payment_order_lifecycle.go`, `payment_order_expiry_service.go`, `payment_webhook_handler.go`) | the `payment_orders` row, the redeem code `PAY-<order>`, audit rows, the fulfilment lease (`status = RECHARGING` and `updated_at`) | create, webhook, verify, reconcile and expire sweeps, cancel, admin retry | one credit and one rebate per payment, nothing without a payment, no 2xx to the provider before the order is settled, no payment lost |
| Payment refunds (`payment_refund.go`) | the order's status and `refund_amount`, the balance, audit rows | request, prepare + execute, query + finalize | one attempt at a time, nothing taken twice, no debt caused by a refund, missing money is on record |
| Idempotency coordinator (`idempotency.go`, `idempotency_repo.go`, clean-up service) | one row per (scope, key) with status, fingerprint, `locked_until`, `expires_at`, stored body | execute, replay, reclaim, renew, clean up | one side effect per key while the record lives; a replay only to the payload that produced it |
| System operation lock (`system_operation_lock_service.go`) | one such row | acquire, renew, release | update, rollback and restart exclude each other |
| Usage billing ledger (`usage_billing_repo.go`, `usage_billing.go`) | dedup rows and their archive, balance, frozen balance, quotas | apply, reserve, capture, release, archive | each request moves money once; a hold is captured or released, once, and only out of the job's own money |
| Batch image jobs (`batch_image_*.go`) | job rows, a Redis queue (ready, delayed and active lists, in-flight keys, job locks), the hold | submit, cancel, delete, poll, index, settle, sweep, recover | a queued job is never lost, one worker at a time, and its hold does not outlive it |
| Admission and charging of a request (`gateway_handler.go`, `gateway_helper.go`, `billing_inflight_reservation.go`, `billing_cache_service.go`, `gateway_usage_billing.go`, `usage_record_worker_pool.go`) | a user's slots and wait count, reservations and cached balance in Redis; a reference count in the process | acquire, wait, check, reserve, forward, bill, correct the cache, release | never more than the limit, charged once, no admission against money that is already spent, nothing left behind |
| OAuth refresh (`oauth_refresh_api.go`, `token_refresh_service.go`, token providers and cache) | account rows, a mutex per account and instance, a Redis lock, cached access tokens | refresh, re-authorise, look up, invalidate, disable | one refresh of a token at a time, a new authorisation stands, only a refused account is disabled; none of this for refreshes by hand |
| Scheduler snapshot (`scheduler_snapshot_service.go`, `scheduler_outbox_repo.go`, `scheduler_cache.go`) | the outbox table, a watermark, Redis buckets with versions, epochs, locks and leases | announce, poll, rebuild, publish, retire, reopen | the bucket converges to the database; a retired bucket stays empty |
| Leader lock, user message queue, auth cache invalidation, quota flusher (`leader_lock.go`, `user_msg_queue_service.go`, `auth_cache_invalidation_outbox.go`, `user_platform_quota_flusher.go`) | Redis and advisory locks, an outbox, dirty counters | elect, queue, invalidate, flush | one leader per job; a user's messages one at a time; a revoked key is dropped |
| Everything else | see `PROJECT.json`, "components" | | |

The parts meet in the database: a payment order credits the balance that usage
billing spends and that a refund takes back; batch image jobs freeze part of the
same balance through the same ledger; orders and refunds share the order row and
the audit table; the token refresh and the scheduler read and write the same
account rows; user operations with an `Idempotency-Key` run inside the
coordinator; the system lock is another user of the coordinator's table. Calls
between them are synchronous. The asynchronous actors are the provider
(webhooks, settlement of pending refunds), users and admins with retries of their
own, the sweepers and clean-up services, queue and cache workers, outbox pollers,
lease renewal goroutines, expiring Redis keys, and crashes.

What is hard here, and hard to test:

- **Statements interleave.** A status is read, a provider is called, and a
  conditional UPDATE follows. The guard of the UPDATE is the only protection.
- **Leases by timestamp.** An execution that stalls past its lease goes on. Only
  a comparison with `updated_at`, or nothing, stops it.
- **Idempotency by record.** A credit is safe to repeat because a redeem code or
  a unique audit row commits with it. A lookup that swallows its error, or a row
  that a unique index refuses, silently changes the decision.
- **Ambiguous answers.** A provider call may take effect and its answer be lost.
- **At-least-once delivery.** Webhooks come late, several times, and never again
  once they were answered with 2xx. Queue entries are handed out again when their
  worker is only slow.
- **Locks with a TTL.** A Redis lock may be lost under its holder, and several of
  them are deleted without looking whose they are.
- **Copies.** Balances, tokens and account sets are cached in Redis by whoever
  read them, at any time after the read.

`PROJECT.json` lists the hazards one by one, each at its line, with the properties
that cover it.

## 2. Modules

| Module | Models | Source |
|---|---|---|
| `PaymentLedger` | abstract: pay, grant once, decide the rebate once, settle | none: it is the promise |
| `PaymentOrder` | one order and every entry point that changes it | order, fulfilment, lifecycle, expiry, webhook handler |
| `PaymentOrderProofs` | its inductive invariant, theorems and proofs | |
| `PaymentRefund` | the refund of one balance order | refund service, `DeductAvailableBalance` |
| `PaymentRefundProofs` | its inductive invariant, theorems and proofs | |
| `IdempotencyStore` | one row of `idempotency_records` and the repository's statements | repository |
| `IdempotencyCoordinator` | `Execute` for one (scope, key), extends the store | coordinator, clean-up |
| `IdempotencyCoordinatorProofs` | its inductive invariant, theorems and proofs | |
| `SystemOperationLock` | acquire, renew, release on its row, extends the store | lock service |
| `SystemOperationLockProofs` | its inductive invariant, theorems and proofs | |
| `UsageBilling` | the ledger of one user: claims, archive, charges and holds, each one transaction | usage billing repository |
| `BatchImageJobs` | the job row and its guarded updates | batch image repository |
| `BatchImageQueue` | the Redis queue and the job locks, one action per script, extends the jobs | batch image queue |
| `BatchImage` | submit, cancel, sweep, workers and settlement over ledger, jobs and queue | public service, worker, processor, settlement, recovery |
| `BatchImageProofs` | its inductive invariant, theorems and proofs | |
| `BalanceCache` | the cached balance, extends the ledger | billing cache |
| `UserSlots` | slots and wait count of one user | concurrency cache |
| `GatewayRequest` | requests through slot, check, reservation and billing task, extends both | gateway handler, in-flight reservation, usage billing |
| `GatewayRequestProofs` | its inductive invariant, theorems and proofs | |
| `OAuthRefresh` | the refresh of one account's token | refresh API and service |
| `TokenProvider` | requests with their token cache, and re-authorisation, extends the refresh | token providers, admin handler |
| `TokenProviderProofs` | its inductive invariant, theorems and proofs | |
| `SchedulerOutbox` | changes of a group and its accounts, and the outbox table | outbox, account and group repositories |
| `SchedulerCache` | one bucket in Redis, one action per script | scheduler cache |
| `SchedulerSnapshot` | pollers, full rebuilds and publishing requests, extends both | scheduler snapshot service |
| `SchedulerSnapshotProofs` | its inductive invariant, theorems and proofs | |
| `MC*` | model values and sets for TLC | |

`PROJECT.json` ("map") gives the source lines of every definition.

### Conventions

- An actor (request, sweeper run, admin) has a `pc`; each step of it is one
  database statement, one database transaction, or one provider call. Local
  variables that are read later are fields of the actor's record.
- A statement that fails has no effect. A commit whose answer is lost is not a
  case of its own; what follows it is a crash of the caller after the commit,
  which is modelled at every step.
- `Crash` covers a process that dies, a cancelled context, and errors that the
  caller just returns: in each the actor stops and the database stays as it is.
- `excuse`, `taken`, `seen`, `effects`, `moved`, `lapsed`, `raced`, `swept`,
  `lockLost`, `outdated`, `manual.spent`, `manual.undone`, `missed` and `floor` are
  history: no guard reads them, only the properties (and `excuse` its own first-value
  test; `seen.lost` bounds the audit rows that are lost; `ApplyUsageBilling` reads from
  `moved` whether its own transaction applied).
- In the modules over Redis, `Fault` counts what goes wrong: a statement that
  fails, an answer that is lost, a process that dies, a key that expires under a
  live holder. `MaxFaults` bounds it. An answer that is lost is a case of its own
  where the code treats it differently from a crash.
- Definitions with "Mutant of" in their comment are plausible bugs in the code.
  They are not used by the specifications; they are substituted for the original
  to show that a property can fail.

### PaymentOrder

`order` is the row: type, status, whether a payment was recorded (`paidAt`),
whether the upstream trade number is known, and `fresh`, which says that
`updated_at` is less than five minutes old. The lease duration
(`paymentFulfillmentLeaseDuration`) and the expiry grace (`paymentGraceMinutes`)
are both five minutes, so one Boolean serves both. `holders` is the set of
executions whose lease version equals `updated_at`: the ent schema renews
`updated_at` on every UPDATE, so every UPDATE empties it (`Save`), and a read-back
adds the reader (`ReloadLease`). `code` and `audits` are the idempotency records.
`gw` is the provider (external): the payment page is open, it is paid, the payment
passes `confirmPayment`'s checks (`valid`), and a notification was answered 2xx.
`blocked` says that an administrator has disabled what the order needs: its provider
instance, or the group of its subscription (`Configure`).

The actions follow the call graph: an entry point (`Call`), then
`checkPaidWithOptions` / `cancelCore` (`QueryOrder`, `PersistTradeNo`,
`CancelWrite`), `HandlePaymentNotification` (`ConfirmPayment`, `ToPaid`,
`AlreadyProcessed`, `SwallowedRead`), the lease (`ExecuteFulfillment` to
`ReloadLease`), `doBalance` and `doSub`, the rebate, `MarkCompleted` and
`MarkFailed`. `AckUnverified` is the handler's 2xx when `GetWebhookProviders` finds
nobody to verify the notification, after a failed read or with a disabled instance;
`Webhook` begins with a verified one. `Age` lets five minutes pass, `TimeOut` lets
`expires_at` pass.

`excuse` records why an acknowledged notification first left the order unsettled:
`late` (expired beyond the grace period) or `swallowed` (an error of a read, or of the
search for the provider, was answered with 2xx). `AckMeansSettled` and
`PaidOrderCompletes` hold up to these two.

### PaymentRefund

One admin request carries its `RefundPlan` (amount, what to take, the status to go
back to). The balance moves under it (`Spend` is usage billing, external). The
provider (external) accepts, holds, refuses, or accepts and loses the answer, and
settles what it holds later. `pending` is the detail of the REFUND_PENDING audit
row. An audit row may be lost and a failed lookup answers "no row", `MaxLost` times in
all, as `writeAuditLog`, `hasAuditLog` and `latestRefundPendingDetail` do. `seen` notes
that, a query's "failed" that was written over another status than REFUND_PENDING
(`late`), and a pending refund that was finalized. The properties name the excuses they
need: `SingleFlight` ends with `late`; `AttemptsTakeOnce` and `MissingMoneyIsAudited`,
which are about attempts, with any of the three; `RefundNeverOverdraws` has none.

### IdempotencyStore, IdempotencyCoordinator, SystemOperationLock

The row carries times on a bounded clock. `now` in a request is the `time.Now()`
that the code takes once at the start and uses in all later statements, so a
request that stalls works with old times; that is kept. `detached` says that the
operation runs with an `ExecutionTimeout`, which is what starts lease renewal.
`timely` says that claims end and renewals are tried within `Period` (the shorter
of lease and lifetime; the code's interval is a third of it). It is chosen at the
start: behaviours with and without it are explored, and a property that needs it
names it. The lock's fingerprint is the operation's id, so `Ops == Fingerprints`.

### UsageBilling, BatchImageJobs, BatchImageQueue, BatchImage

The ledger keeps one user's `balance` and `frozen` pool, the claims in `dedup` and
`archive`, and counts in `moved` how often each billing request moved money.
`OtherHolds` is money that other jobs of the user have frozen: capture and release
only compare with the pool, so it is what a job could wrongly take. Each of apply,
reserve, capture and release is one transaction and one action. A fingerprint that
differs matters only for the captured amount, so only that is kept.

A job goes through the statuses of `CanTransitionBatchImageJob`, and each guarded
UPDATE has its own predicate. The queue has a list with repetitions (`ready`), the
delayed and active sets, the in-flight keys and the job locks; a lock has an owner.
`Submit`, `Cancel`, the sweep and the workers are processes with one step per
statement, script or provider call. The provider's job ends as it likes.
One ticker renews a worker's entry in the active set and its lock, and its errors are
only logged. `HeartbeatsFail` makes a worker `silent`: it works on, its entry may be
made ready again (`RecoverActive`), and its lock may end (`LockLapses`), in any order
and at any time after. `lapsed` names the jobs whose lock ended under a live worker.
`OneWorkerPerJob` and `SettledOneWay` hold for the others, and for a silent worker that
has lost only its entry; the run `batch_overtaken` shows what happens when it has lost
its lock too. `updated_at` gets old only after the submission has ended: `Submit` renews
it while it waits for the provider.

### BalanceCache, UserSlots, GatewayRequest

One user, in balance mode, with in-flight reservation enabled. A request takes its
slot (or waits, counted), checks the balance, reads it again and reserves, is
forwarded, hands its usage to a billing task that takes a reference to the
reservation, and ends; the task charges the ledger, corrects the cached balance and
drops its reference, before or after the handler drops its own. `estimate` is what a
reservation counts, chosen at the start from `Estimates`. Nothing relates it to the
charge, since the code guesses and caps it, and an estimate of zero is a request that
cannot be priced: it is forwarded without a reservation or refused, as configured. The
balance that a request reads and the one it uses are separate steps. Tasks of the cache writers run
in any order. `ReservationExpires`, `SlotExpires` and `WaitCountExpires` are the
TTLs. `RestartInstance` kills an instance, and the process that starts in its place
removes all slots and wait counts that are not its own.

### OAuthRefresh, TokenProvider

A token is a pair of a grant and the number of its refresh; the provider (external)
accepts the latest of each grant that is not revoked. `RefreshIfNeeded` is eight
steps between taking the instance's mutex and releasing it. `platform` is chosen at
the start: "grok" compares before it writes, refuses inactive accounts on the
request path and bounds its requests' time; "claude" stands for the others.
`_token_version` is the time of the write, kept as a counter; a re-authorisation
merges the version it read before. `LockExpires` may take the lock from a holder
only when that holder's time is not bounded below the TTL.

`Manual` is the refresh by an administrator's hand (`refreshSingleAccount`, also behind
the batch refresh; the Grok handler has a copy). It reads the account, asks the
provider, reads the row again for its other columns and writes it whole, with no mutex,
no lock, no second look at the token and no comparison. Hand refreshes come one after
the other, and each counts as a fault, so that `MaxFaults` bounds both.
`manual.spent` is set once one has used a token up, `manual.undone` once
one has written an older token over a newer one. The properties say what they promise
with such refreshes: `OneRefreshAtATime` is about services and requests only,
`DisabledMeansRefused` ends with `spent` and `NeverOlderThanGiven` with `undone`, and
`AuthorisationStands` excepts the hand's own write, which may bring an earlier grant
back.

### SchedulerOutbox, SchedulerCache, SchedulerSnapshot

A change is a counter per subject ("account" stands for the set of the group's
accounts); a snapshot is the count that was loaded. A row's id is drawn at insertion
and the row is visible from the commit. Versions are only compared, so the module
keeps the order of the writers above the active version. `crew` is the pair of
workers that runs, chosen at the start. `missed` records what the code leaves to the
periodic rebuild: a change that has no row (`ChangeUnannounced`: `BindGroups` with no
groups returns before it enqueues, and accounts become schedulable or not by the
clock), a row that commits after a higher id was drawn, an announcement that failed or
was merged into a row already read, an event that found the bucket locked, and a
snapshot overtaken by one loaded earlier. `QuietMeansFresh` promises nothing after any
of these, `SnapshotConverges` says that the rebuild heals them.

Both, and `RetiredIsGone`, are about the bucket's members. The accounts' own data is
kept under keys without a version (`writeAccountIDs`), which a writer overwrites before
it is compared with the epoch and the active version, so a writer that is fenced off
still changes that data.

## 3. Runs

| Run | Result | Question |
|---|---|---|
| `order_safety` | pass, @OS@ states | Is a paid order credited once, acknowledged only when settled or excused, never undone, and does it implement `PaymentLedger`? |
| `order_live` | pass, 691 k states | Does every valid payment end in COMPLETED, or in a late or swallowed notification, unless what it needs is disabled for good? |
| `refund_attempts` | pass, 6,927 k states | Do two admins, who also query, refund one at a time, do their attempts take no more than the amount and leave a record of money that is missing, and does no step leave a debt? |
| `refund_twice` | violation | Does a refund take no more than the amount, finalization included? |
| `idem_execute` | pass, 803 k states | One effect per key, replays to their own payload, renewed operations alone? |
| `lock_creator` | pass, 478 k states | Does an operation that created the lock row and renews it keep others out? |
| `lock_overlap` | violation | Does every holder of the lock? |
| `batch_jobs` | pass, 473 k states | Is a job's hold moved once, out of its own money, and settled one way, is a queued job never lost, and is its hold settled in the end? |
| `batch_overtaken` | violation | Does a job that is settling stay out of reach of a worker that was left behind? |
| `oauth_refresh` | pass, 864 k states | One refresh at a time, no grant brought back, no good account disabled, no older token served, up to what a refresh by hand does, and every due token refreshed? |
| `gateway_requests` | pass, 676 k states | Charged once, covered by reserved or unpriced requests until the cache is corrected, within the concurrency, and nothing left behind? |
| `scheduler_outbox` | pass, 949 k states | Does the bucket agree with the database when all is quiet, stay empty when retired, and converge whatever raced? |

### What the violations show

They are recorded under "findings", each with the line of the repository that it
contradicts.

1. `refund_twice`: finalization by query decides from the REFUND_PENDING row
   whether the first deduction stands. When that row is missing (the request ended
   before it was written, or the unique index refused a second one), the amount is
   taken again although REFUND_ROLLBACK_FAILED is on record.
2. `lock_overlap`: reclaiming the lock's row leaves the previous operation's
   fingerprint in it, so the renewal of the new holder matches no row and stops.
3. `batch_overtaken`: a worker whose heartbeats fail loses its job's lock while it
   indexes. Another worker indexes the job and begins to settle it. When the first
   one's indexing fails for any reason other than a state conflict, it writes `failed`
   over `settling` and releases the hold, which the other one may have captured.

Further observations made while modelling, not stated as properties. Each is a
behaviour of the models.

Payments and refunds:

- The lease version is read back with a second statement. A worker that stalls
  between taking the lease and reading it back adopts the version of a newer owner,
  and its `markFailed` then matches that owner's row, against the comment at
  `payment_fulfillment.go:852`. The credit stays safe: `ExactlyOnce` holds.
- A payment between the expiry sweep's query and its EXPIRED write, with a callback
  after the grace period, is acknowledged and not credited, and no sweep looks at
  EXPIRED orders; `docs/PAYMENT.md:260` says that it is reconciled.
- Saving the trade number renews `updated_at`, so a verify request revives an
  EXPIRED order of any age, although the comment at
  `payment_order_lifecycle.go:292` speaks of the grace period.
- A notification whose provider cannot be found (a failed read, a disabled instance)
  is answered with 2xx, except for WeChat Pay, and the provider does not repeat it.
- An inactive group fails a subscription order, also one that was assigned before it
  was completed; with the group enabled again a redelivery or a retry completes it.
- Finalizing a pending refund deducts even when the admin had unchecked the
  deduction (`payment_refund.go:524`; the dialog's text is in
  `frontend/src/i18n/locales/en/misc.ts:533`).
- `finalizeRefundFailed` writes REFUND_FAILED without a guard, also over REFUNDED, or
  over REFUNDING while an attempt is under way, beside which another can then begin
  (`seen.late`).
- A crash during `ExecuteRefund` leaves the order REFUNDING for good; no
  operation starts from that status.
- A lost audit row makes attempts take the amount twice without any query: a failed
  lookup of REFUND_ROLLBACK_FAILED answers "no". `AttemptsTakeOnce` excepts it.

Idempotency:

- `TryReclaim` compares status and `locked_until` but not `expires_at`
  (`idempotency.go:300`). Of two requests that read the same expired success, the
  second reclaims the success that the first has just recorded and runs the
  operation again. `SingleSideEffect` is about the first lifetime of a record.
- A processing record whose `locked_until` has passed is refused until it
  expires; the processing timeout only matters for the lock service.
- A stored body cut at the maximum length does not decode, so replaying it
  answers an error for as long as the record lives.

Batch images:

- A settlement that captured the hold and then failed until its retries were used
  up also releases it, out of the user's other frozen money; `SettledOneWay`
  excepts exactly this. `docs/BATCH_IMAGE_MVP.md:170` describes the release.
- A cancel between the creation of the job and its reservation claims the release
  while there is nothing to release; the hold that is reserved next can then never
  be returned. `EndedJobIsReturned` and `QueuedHoldIsSettled` except it.
- A reservation whose answer is lost, a crash between naming the provider's job and
  queueing it, and a crash between a cancelled or swept status and the release of
  the hold are not recovered by anybody.
- A cancel that read the job before the submission named the provider's job cancels
  it only locally, and the provider's job runs on.

Requests:

- A request that passed the balance check before an earlier one was charged, and
  that reserves after the earlier reservation is gone, is alone and therefore let
  through: two requests overdraw together although each was checked, which the
  comment at `gateway_handler.go:327` says the reservation prevents.
- A request that misses the cache reads the row, and its fill may be written after
  a charge: the cached balance is then too high until its TTL ends or it is
  invalidated (`raced`).
- A starting process removes the slots of instances that run, so more requests than
  the limit may run (`swept`). A client that disconnects gives its slot back while
  its handler goes on.

Tokens:

- Platforms without compare-and-set: a refresh under way overwrites a
  re-authorisation, and a late refusal disables an account that was just authorised
  again. `AuthorisationStands` and `DisabledMeansRefused` say for which platforms
  they hold.
- A re-authorisation merges the old `_token_version`, so `CheckTokenVersion` does not
  see it, and a request that began before caches the old token again. The same
  happens when a refresh comes between a request's check and its write to the cache.
- When Redis fails, a refresh goes on without its lock, and a good account may be
  disabled because the other refresh used its token. The same happens without any
  failure beside a refresh by hand, which takes no lock.
- A refresh by hand persists a rotated Grok token through `UpdateAccount`, which
  compares nothing, although `GrokOAuthRefreshSuccessRepository` is documented as the
  boundary for that (`oauth_refresh_api.go:23`): the credentials of an account that was
  authorised again during the provider call are overwritten by the earlier grant's.
- A refresh by hand reads the account's status before it writes the whole row, so an
  account that is disabled or repaired in between gets its earlier status back.

Scheduler:

- A row committed below the watermark is never polled, although the comment at
  `DeleteConsumedUpTo` expects its grace period to leave time for that. Until it is
  cleaned up its deduplication key swallows later events.
- `UnlockBucket` deletes whatever lock there is, and the watermark may move
  backwards between two pollers, which only repeats events.

### Bounds

| Bound | Value | Why it is enough |
|---|---|---|
| `Procs` | 2 | Every race in the order is between two executions: a cancel or sweep and a payment, two owners of a lease, two redemptions. Executions are reused, so a run may take any number of them in sequence. The proofs hold for any number. |
| `Kinds` | all seven in `order_safety`; create, webhook and expire for liveness | Redelivery is what fairness rests on, and the expiry sweep is its rival: it can both confirm a payment and expire the order under it. A cancel is the same code without the grace period. Adding it to the liveness run passes too, in twice the time. |
| `Admins` | 2 (1 in `refund_twice`) | The lock of a refund is one conditional UPDATE; a third request meets the same row. |
| `Amount`, `MaxBalance`, `MaxLost` | 2, 3, 1 (1, 2, 1 in `refund_twice`) | 2 allows partial refunds and a balance below, at and above the amount. One lost row is all an excuse needs. |
| `MinBalance` | -1 | Debt by usage billing occurs; how deep it is does not matter to any guard. |
| `Requests`, `Fingerprints` | 2 and 2; three operations for the lock | Two requests with equal and with different payloads; for the lock a holder, a reclaimer and the row's original owner. |
| `Lease`, `TTL`, `Backoff`, `MaxTime` | 2, 3, 1, 5 | Lease below lifetime as configured, and a clock long enough for a record to expire and be taken over. |
| `Batches`, `Workers` | 1 and 2 | The queue's scripts and the locks are per job; other jobs matter only through the pool of frozen money, which `OtherHolds` is. Two workers are a live one and the one its job is handed to. |
| `Hold`, `Costs`, `MaxRetries`, `MaxFaults`, `HeartbeatCost` | 2, {1, 3}, 2, 2, 2 (`batch_overtaken`: 1 fault, cost 1) | An actual cost below and above the hold; a settlement that fails, is retried, and runs out of retries; two faults, or one worker whose heartbeats fail, which is where the states multiply and therefore counts for both. An error of the index is no fault, so it meets failing heartbeats. The proofs combine any number of all of them. |
| `Refreshers`, `Requests`, `Instances`, `Deployments` | 1, 1, 2, apart | Every race is between two refreshes, or a refresh and the administrator. On one instance the two would also share its mutex, which takes interleavings away and adds none; the theorems hold for any deployments. |
| `MaxGrant`, `MaxUse`, `MaxFaults` | 1, 1, 1 | One re-authorisation and one refresh of each grant show every loss of a newer token by an older one. The one fault is a failure, a crash, a lost lock, or a refresh by hand, which needs no other fault to collide; the proofs combine any number of all. |
| `Usages`, `Limits`, `StartBalance`, `MaxFaults` | 2, {1, 2}, 2, 1 | Two requests that compete for a slot or share the limit, and whose charges (2 and 1) exceed the balance together. |
| `Estimates` | 1 and 2, or 0 and 1 | A charge above and one below its estimate; a request without a price beside one whose charge equals its estimate. The proof has any estimates. |
| `Crews`, `MaxChanges`, `MaxFaults` | four pairs, 2 or 3, 1 | A writer's fate depends on one rival at a time; the pairs are two pollers, poller and rebuild, poller and request, rebuild and request. Two changes make an old and a new row, or a retirement and a reopening; three are needed to bring back what a request loaded before a retirement. |

Symmetry is used only in runs without liveness, over actors, which the
specifications treat alike. Deadlock is not checked: a settled or abandoned order
or refund, a job, a request or an account whose token is fresh really has nothing
left to do, and the bounded clock ends.

### Fairness

`order_live`:

- WF of `Step(p)`: an execution that has started goes on. It runs in a goroutine
  with timeouts on its calls.
- SF of `Redeliver`: the provider repeats its notification until it gets a 2xx,
  and now and then finds a free handler. This is the providers' documented
  behaviour and what `handleNotify` relies on when it answers an error.
- WF of `Age` and of `Stabilise`: time passes, and with `FaultsCease` database
  errors, crashes and stalls come to an end. Before that they may occur at any
  step. Without the second assumption a database that always fails would refute
  everything.
- Nothing is assumed of users, admins or the sweeper: each may never act.

`PaidOrderCompletes` therefore says that redelivery and the reclaim of a stale
lease suffice to complete a paid order. It has one premise and two excuses. The
premise, `<>[]~blocked`, is that the order's provider instance and group are not
disabled for good; they may be disabled and enabled any number of times. The excuses:
a notification found the order expired beyond its grace period, or an error was
swallowed and acknowledged (`confirmPayment`, `alreadyProcessed`, and `handleNotify`
when no provider is found), after which nothing is redelivered.

The other liveness properties assume, each by weak fairness:

- `QueuedHoldIsSettled`: workers go on and take what is ready, the mover, the
  recovery and the stale sweep run (they are ticker loops), a lock nobody renews
  expires, and the provider's job ends. Submitters and cancellers may stop anywhere,
  and heartbeats need neither fail nor recover.
- `DueIsRefreshed`: the background service goes on, the lock's TTL ends. Only weak
  fairness is justified: a stream of requests that take the lock each time, while the
  provider refuses the token, can keep the service from ever disabling the account, so
  the property is stated for behaviours in which requests come to an end. Nothing is
  assumed of a refresh by hand, which may stop at any step.
- `NothingLeaks`: handlers and billing tasks that have begun go on, keys expire.
- `SnapshotConverges`: a worker ends what it began, the rebuilder's ticker ticks,
  locks and leases expire. Pollers need not poll: the rebuild alone suffices. It is
  claimed for deployments with a rebuilder, which is the default configuration.

Faults are bounded, so each of these says what happens once they have ceased.

## 4. Proofs

Every invariant and every action property that a passing run checks, and the
refinement, is a theorem: for any sets of actors and any bounds, from the
assumptions that the modules name next to their constants. (`MaxFaults` and `MaxLost`
are constants, so the theorems hold for any number of failures, of refreshes by hand
and of lost audit rows.) In each proof module `Inductive` states `Spec => []` of the
inductive invariant, and the other theorems follow from it by a state or step lemma
and PTL. There is one lemma per action or group of actions, and under it one
step per part of the invariant that the action can disturb.

### The payment order

`PaymentOrderProofs` proves, for any set `Procs` and any `Kinds`, from the two
assumptions that the module states about its constants:

| Theorem | Establishes |
|---|---|
| `Inductive` | `Spec => []IndInv` |
| `TypeCorrect` | the type invariant |
| `CreditedOnce` | `ExactlyOnce` |
| `CreditNeedsPayment` | `NoCreditWithoutPayment` |
| `CompletionIsEarned` | `CompletedMeansCredited` |
| `AckIsSettled` | `AckMeansSettled` |
| `PaymentStands` | `PaidIsNeverUndone`, an action property |
| `OrderImplementsLedger` | the refinement of `PaymentLedger` |

None of these invariants is inductive by itself. `ExactlyOnce` and the payment
invariants must know that the credit is recorded before an execution gets to the
rebate, that the rebate is decided before it gets to completion, that whoever runs
the fulfilment has seen a valid payment, and that the payment page is closed while
the order is being created (or `CreateOrder`'s unconditional FAILED write could hit
a paid order). So

    IndInv == TypeOK /\ ExactlyOnce /\ AckMeansSettled /\ RowInv /\ StepsInv /\ OneCreator

- `RowInv` relates the row, the provider and the idempotency records: a payment
  on record is backed by the provider, COMPLETED by a credit and a rebate
  decision, a rebate decision by a credit, and each order type uses its own kind
  of record.
- `StepsInv` says what an execution at step `l` may rely on (`Needs`), stated over
  the row, provider, code and audits as arguments, so that it can be carried from
  a state to the next.
- `OneCreator`: one execution at most is creating the order.

The argument for another execution's `Needs` is the same for all actions and is
made once: no step takes away what executions rely on (`Grows`), except that
opening the payment page would disturb a creator, and only the one creator opens
it. `NeedsKept` and `Assemble` state this; then there is one lemma per group of
actions, with a step per action and under it one per part of the invariant that
the action can disturb. The temporal
theorems combine these with PTL. The leases play no role in the safety proof: the
credit is protected by its records alone, which is why a stale worker that adopted
a newer owner's lease version can fail an order but not credit it twice.

### The idempotency coordinator

`IdempotencyCoordinatorProofs` proves, for any requests, payloads, lease, lifetime,
backoff and clock bound (`TimesAssumption`: lease, lifetime and bound are positive):

| Theorem | Establishes |
|---|---|
| `Inductive` | `Spec => []IndInv` |
| `TypeCorrect` | the type invariant |
| `EffectOnce` | `SingleSideEffect` |
| `ReplayBelongs` | `ReplayIsOwn` |
| `RenewedAlone` | `RenewedRunsAlone` |

    IndInv == TypeOK /\ TimesInv /\ OwnInv /\ ReplayIsOwn /\ OnceInv

- `TimesInv`: every write of `expires_at` adds the lifetime to a time of at least 1,
  so a record that exists expires after the first lifetime. While the clock is
  within it, the expired branch of `Execute` and the clean-up are closed.
- `OnceInv`, for that period: a reclaim was decided on a failed row, the row is
  `processing` as long as anybody runs, at most one request runs, and an absent or
  failed row means that the operation has had no effect. A request that dies leaves
  the row `processing`, and `Execute` never takes such a row over, however long ago
  its lock timed out. That refusal is what the theorem rests on: with the mutant
  `RetryableTimedOut` the proof fails where it should.
- `OwnInv`, for all times: ids only grow, and a request that may still claim or
  mark a row by its id has that row's fingerprint. This is why marks without an
  owner check (`MarkSucceeded` by id) do not mix up responses, although they may
  record an outcome over a newer owner's.

`Assemble` reduces the invariant after a step to what the step does to its own
request and to the row; there is one lemma per action or pair of actions.

`RenewedRunsAlone` needs one more, `RenewInv`: the row of a detached operation that
is renewed on schedule has its id, is `processing`, and stays locked and alive for
at least a period. `Period` is within lease and lifetime, so nobody finds that row
expired or its lock timed out.

### The system operation lock

`SystemOperationLockProofs`, `CreatorIsAlone`: the action property
`CreatorKeepsOthersOut`, for any operations and times.

    LockInv == TypeInv /\ TimesInv /\ CreatorInv

`CreatorInv` is the argument of `RenewedAlone` for a creator (id and fingerprint are
its own, so its renewal matches the row), and adds that any other operation that
believes to hold the lock has an older id: its renewals and its release miss. It is
about creators only. A holder that reclaimed the row is not in it, and the run
`lock_overlap` shows that it cannot be.

### The refund

`PaymentRefundProofs`, for any admins, amount, balances and number of lost audit rows:

| Theorem | Establishes |
|---|---|
| `TypeCorrect` | the type invariant |
| `RefundLeavesNoDebt` | `RefundNeverOverdraws`, an action property |
| `OneAttemptAtATime` | `SingleFlight` |
| `TakenOnce` | `AttemptsTakeOnce` |
| `TakenIsAudited` | `MissingMoneyIsAudited` |

    RefundInv == TypeInv /\ SingleFlight /\ MoneyInv

The theorems have no hypotheses; the excuses are in the properties. None can be dropped
from `AttemptsTakeOnce`: `refund_twice` shows the second deduction by a finalization,
a lost audit row hides the failed rollback from the next attempt, and a late failure
lets two attempts run. `MoneyInv`
says what the attempt under way has taken at each step: nothing before the
deduction, exactly its own deduction until it is refunded or rolled back, and
something else only with REFUND_ROLLBACK_FAILED on record, which is the row that
makes the next attempt skip the deduction. `SingleFlight` supplies that there is only
one attempt to speak of. Excuses are never taken back (`SeenNext`), so a step that ends
in a state without one began in one.

### Batch images

`BatchImageProofs`, for any jobs, workers, costs, holds and retries:

| Theorem | Establishes |
|---|---|
| `TypeCorrect` | the type invariant |
| `MovedAtMostOnce` | `MovedOnce` |
| `PaidFromOwnHold` | `OwnMoneyOnly` |
| `OneWay` | `SettledOneWay` |
| `NeverLostInQueue` | `NeverLost` |
| `OneWorker` | `OneWorkerPerJob` |
| `EndedIsReturned` | `EndedJobIsReturned` |

    BatchInv == TypeOK /\ LedgerInv /\ LockInv /\ JobInv /\ WorkInv /\ NeverLost /\ DebtInv

- `LedgerInv`: money moves only with the claim that stands for it, in the table or
  archived.
- `LockInv`: a worker past the lock owns it, unless the lock lapsed under it. Only
  then may `WorkInv` say what a worker knows of its job at each step, for the job's
  status changes under it only by a cancel or a sweep.
- `JobInv` relates the submission's step, the status and the money: a captured hold
  belongs to a job that settles or has completed, a returned one to a job that failed
  or was cancelled, or to one whose settlement ran out of retries. A job whose lock
  lapsed is excepted from the first. This is what makes the money taken from the
  common pool the job's own.
- `DebtInv`, as long as nothing fails: the job has exactly one place in the queue, and
  if it ended with its hold open, somebody will still return it.

The proof covers two jobs and more, of which the run, for its size, has only one.
`ProcessAssumption` says that workers are none of the jobs' other processes.

### Requests

`GatewayRequestProofs`, for any requests, costs, limits, instances and balance:

| Theorem | Establishes |
|---|---|
| `TypeCorrect` | the type invariant |
| `BilledOnce` | `ChargedOnce` |
| `DeductionBeforeRelease` | `ReservedUntilDeducted` |
| `NoMoreThanTheLimit` | `SlotLimit` |

    GatewayInv == TypeOK /\ MoneyInv /\ CacheInv /\ ReservationInv /\ SlotInv

`CacheInv` bounds what the cache is ahead of the balance by the charges that a task
has still to take off it. `ReservationInv` counts the references to each
reservation, one per handler and task that still hold it. Together they give
`ReservedUntilDeducted`: the charges the cache does not know yet are of requests
whose reservation still counts, or that have no price and never had one. Estimates play
no role in it: a reservation is there or not, whatever it counts. `SlotInv` says that a slot that a request believes to
have is in the set, until a sweep or an expiry takes it away.

Sums over a set of requests (`Costs`) are folds. What the proof needs of them (the
sum of one more request, of a subset, of none) is shown once, as lemmas.

### OAuth tokens

`TokenProviderProofs`, for any refreshers, requests, instances and both platforms:

| Theorem | Establishes |
|---|---|
| `TypeCorrect` | the type invariant |
| `OneRefresh` | `OneRefreshAtATime` |
| `DisabledAccountsAreRefused` | `DisabledMeansRefused` |
| `ServedNoOlder` | `NeverOlderThanGiven` |
| `GrantsOnlyAdvance` | `AuthorisationStands`, an action property |

`RefreshInv` is a conjunction of facts about the shared state (`SharedOk`), about each
process (`ProcOk`, `ServedOk`), about each pair of them (`Apart`), and, while the lock
works, about disabling (`DisabledOk`, `CalmOk`). A token that is refused stays
refused, because no token in use is ahead of what its grant accepts (`TokenOk`).
While the lock is not
lost its holder is alone between reading the row and writing it, so the process that
is about to disable the account and the one that is about to write a new token never
hold the same one, as long as no refresh by hand has used a token up.
`AuthorisationStands` does not use the lock: it rests on the compare-and-set alone, and
holds of every step but the write of a refresh by hand. After such a write
(`manual.undone`) `ServedOk` says nothing any more.

### The scheduler snapshot

`SchedulerSnapshotProofs`, for any pollers, rebuilders, requests and crews of them:

| Theorem | Establishes |
|---|---|
| `RetiredServesNothing` | `RetiredIsGone` |
| `OutboxSuffices` | `QuietMeansFresh` |

    SnapshotInv == TypeOK /\ EpochInv /\ LeaseInv /\ PollInv /\ IdInv /\ DedupInv
                   /\ VersionInv /\ GroupInv /\ AccountInv

- `EpochInv`: a writer whose epoch still holds has loaded nothing older than the last
  retirement. That gives `RetiredIsGone`.
- `GroupInv` and `AccountInv` say, for a change of the group and of its accounts,
  who will still see it: its own transaction has not written its row yet, the bucket
  agrees already, or there is a row above the watermark, and each poller that is past
  that row will still act on it or has failed, and does not move the watermark.
- `IdInv` and `DedupInv` are what the rows rest on: an id that is drawn and not
  committed is nobody's position yet, and a row whose deduplication key still
  swallows events is ahead of every reader. Without the second a later change
  could be swallowed by a row that has been read.
- `VersionInv`: a snapshot refused as overtaken was overtaken by one that is active.

`QuietMeansFresh` excepts `missed`, whose six causes are listed with the module above:
they are what the outbox does not promise, and what only the rebuild repairs. The run
has crews of two; the theorem covers crews of any size, which is what justifies the
pairs.

### Assumptions

The named assumptions give the constants their types and exclude degenerate values:
numbers are natural (lease, lifetime, retries positive), `Nil` is no process and no
version (`CacheAssumption`, `QueueAssumption`), workers are not jobs' processes
(`ProcessAssumption`), and sets of limits and crews are of the right type. TLC
evaluates each of them in the runs. The external actors (provider, users,
administrators, other tables) are part of the specifications and do what they like.

### What is only model-checked

- Liveness: `PaidOrderCompletes`, `QueuedHoldIsSettled`, `DueIsRefreshed`,
  `NothingLeaks`, `SnapshotConverges`. Fairness and ENABLED are out of the prover's
  reach.
- The violations of `refund_twice`, `lock_overlap` and `batch_overtaken` are
  counterexamples of TLC.

The library's induction theorems take an operator as a parameter, which the provers
cannot instantiate. Where an induction is needed (sums over sets of requests, the
least or greatest id of a set of rows) it is stated for a set of numbers instead,
and follows from the well-foundedness of `<` on them. The modules use no
recursive operators.

## 5. Not modelled

The modules translate about 6,500 lines of 48 files, roughly one per cent of the
repository's Go and front-end code. Most of the rest is generated (`backend/ent`,
wiring), interface code, configuration, or the translation between provider
protocols, which keeps no state; but stateful parts are left out too, and nothing
here should be read as a statement about them:

- Amounts, currencies and fees of an order, the choice of a provider instance,
  signatures and provider protocols: a notification is valid or not.
- Several orders of one user (pending and daily limits) and the composition of
  order and refund; the refund starts from COMPLETED.
- Refunds of subscription orders (days are taken instead of money).
- E-mails, log lines and metrics, cache invalidation after a credit.
- Requests without an idempotency key, and the helper that runs an operation
  unprotected when the store fails, which no production handler selects.
- Subscription usage, rate-limit windows and quotas, which the ledger charges in the
  same transaction as the balance; the circuit breaker; slots of accounts and API
  keys (the same scripts), live and WebSocket leases.
- Batch images: prices, items and their contents, downloads and the deletion of
  outputs, the seven-day TTL of the in-flight keys.
- Tokens: the cooldown after transient errors, rate gates, provider cycles, two refreshes
  by hand at the same time, and other editors of the account row.
- Scheduler: the accounts' own data (keys without a version, which a fenced writer
  overwrites too), last-used and bulk events, several buckets of a group, simple mode,
  rebuilds triggered by lag and their coalescing.
- The leader lock. The jobs behind it are modelled as if every instance led.
- The gateway's forwarding, protocol translation and pricing are most of the code
  by size. They convert formats, stream bytes and compute with floating-point
  prices: there is no shared state or order of steps in them to check, and `ent/` is
  generated.
- The parts with status `not_modelled` in `PROJECT.json`, each with its reason.

## 6. Plan

The next proofs are of refinements, so that a reader can compare a component with
a few lines that say what it promises, as `PaymentLedger` does for orders. Each is
checked by TLC first, and its theorem belongs in the component's proof module:

1. `UsageBilling` under `BatchImage`: one hold per job that is open, then captured or
   returned, as an abstract escrow.
2. `SchedulerSnapshot`: the bucket as a register that is written with what was
   loaded and emptied by a retirement, never with something loaded before it.
3. `OAuthRefresh`: a rotating token as a resource used by one refresh at a time.
4. `IdempotencyCoordinator`: a key as a write-once cell, within a lifetime.
5. `PaymentRefund` with finalizations: a bound on what is taken when they may take again.

Modules that could follow: `PaymentOrder` composed with `PaymentRefund`, several
orders of a user with the pending limit, subscription refunds, the user message
queue, the auth cache invalidation outbox, the leader lock.
