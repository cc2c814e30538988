# Verification of the payment gateway

TLA+ models of the payment gateway in `services/`, checked with TLC and proved
with TLAPS. The models are written from the Go and SQL sources; where a document
and the code disagree, the model follows the code and a run shows the
disagreement. Paths below are relative to the repository.

## The system

Four Go services choreograph a payment over one NATS JetStream stream,
`PAYMENTS` (WorkQueue retention, file storage, 72 h).

```
merchant -> api-gateway -> transaction-service (POST /api/v1/payments)
                              | INSERT status = pending       (PostgreSQL)
       polling worker         | pending -> processing, publish payment.created
                              v
                        risk-service      publish payment.risk_approved | risk_blocked
                              v
                        provider-service  call a provider, publish payment.completed
                              v
       transaction-updater    UPDATE status + INSERT webhook_deliveries
       webhook worker         POST to the merchant
       stuck resolver         processing for 10 minutes -> failed
```

| Component | State it keeps | Operations | Talks to | Hard about it | What makes it correct |
| --- | --- | --- | --- | --- | --- |
| Payments API (`transaction-service/internal/handler`, `idempotency`) | Redis key per `X-Idempotency-Key`; `transactions.idempotency_key UNIQUE` | POST, GET | Redis, PostgreSQL | racing requests, Redis failing open, deletes by non-owners, crash between calls, TTL | one payment per key, all answers agree |
| Polling worker and stuck resolver (`worker`, `service`, `repository`) | `transactions.status`, `updated_at`; the claimed batch in memory | FetchPending, processOne, FetchStuck | PostgreSQL, JetStream | several instances, crash between claim and publish, half-published batches | exclusive claim, nothing forgotten, everything settles |
| transaction-updater (`consumer`) | none of its own | handleCompleted, handleRiskBlocked | JetStream, PostgreSQL | redelivery, any order of results, late results | the status is backed by a result, status and webhook row together |
| Webhook outbox (`webhook`) | `webhook_deliveries` rows; the fetched batch in memory | CreateDelivery, FetchPendingDeliveries, deliver, MarkDelivered, MarkFailed | PostgreSQL, merchant | stale reads by several instances, lost answers, crash after the POST | delivered means received, given up only after trying, ends |
| risk-service | velocity counters in Redis, rules | Load, handleMessage, Evaluate | JetStream, Redis | redelivery counts twice, INCR and EXPIRE are not atomic, two rules share a counter, loader and engine must agree | a verdict for every payment it may still see, acknowledge after publishing, counters that count payments and end |
| provider-service | circuit breakers, Thompson statistics (memory and Redis) | handle, ProcessPayment, callWithRetry, Allow, Record... | JetStream, provider APIs, Redis | retry after a lost answer, check-then-act on the breaker, late results | charge only approved payments; breaker and router stay consistent |
| JetStream | messages, outstanding deliveries, delivery counts | publish, deliver, Ack, Nak, AckWait | all | lost acks, redelivery of buffered messages, MaxDeliver | at least once |
| api-gateway | rate-limit windows in Redis | Auth, RateLimit, proxy | Redis, services | scripts of several gateways in another order than their stamps, repeated scripts, fail-open beside fail-closed | at most `limit` requests per window, no unearned 429, nobody uncounted without a fault |
| config, logging, metrics, health, request ids | - | - | - | - | pure I/O, not modelled |

`PROJECT.json` lists the components with their status and every hazard at its
line, with the property that covers it.

## Modules

| Module | What it is |
| --- | --- |
| `PaymentLifecycle` | abstract specification: what a merchant may rely on |
| `PaymentSaga` | worker, resolver, JetStream, three consumers, database, faults |
| `MCPaymentSaga` | instances of it |
| `PaymentSagaProofs` | theorems about it |
| `Idempotency`, `MCIdempotency`, `IdempotencyProofs` | POST under one idempotency key |
| `WebhookDelivery`, `MCWebhookDelivery`, `WebhookDeliveryProofs` | the outbox rows and the workers that send them |
| `BreakerContract` | abstract specification: what one circuit breaker promises, without counters |
| `ProviderRouting`, `MCProviderRouting`, `ProviderRoutingProofs`, `ProviderContractProofs` | concurrent `ProcessPayment` calls and the breakers they share |
| `RiskRules` | what the rule loader accepts and what a rule says of a payment; no state |
| `RiskEngine`, `MCRiskEngine`, `RiskEngineProofs` | replicas of risk-service that evaluate payments with counters in Redis |
| `RouterStore`, `MCRouterStore`, `RouterStoreProofs` | the router's statistics, their snapshots on the way to Redis, restarts |
| `RateLimit`, `MCRateLimit`, `RateLimitProofs` | the gateway's chain Auth, RateLimit, Proxy and the sliding windows |

How the models fit: `Idempotency` refines the INSERT that `PaymentSaga`
takes as one step (`CreatePayment`); `UpdateStatusWithWebhook` of `PaymentSaga`
is the transaction in which `WebhookDelivery` takes `CreateDelivery`;
`ProviderRouting` opens the one step `ProcessPayment` of `PaymentSaga`, whose
result is any result there and a lost answer a fault. `RiskEngine` EXTENDS
`RiskRules` and opens the steps `RiskEvaluate` and `Publish` of `PaymentSaga`,
whose verdict is any verdict there. `RouterStore` is what `Record` of
`ProviderRouting` tells the router and what `Probe` sets off there. `RateLimit`
stands before `Idempotency`: what its `Proxy` lets through is a request there.

Operators named `Wrong...` stand beside the definition they distort. No
specification uses them. Each is a plausible mistake (an acknowledgement before
the publish, SET without NX, a SELECT without the UPDATE), and `PROJECT.json`
names the property that notices it when it takes the definition's place.

### PaymentSaga

| Model | Code |
| --- | --- |
| `status`, `stale`, `outbox` | `transactions.status`; `updated_at` older than `stuckTimeout`, reset by the trigger on every UPDATE; event types in `webhook_deliveries` |
| `batch[w]` | rows returned by `FetchPending` and not yet published by `ProcessPendingPayments` |
| `stream`, `outstanding`, `inbox`, `attempts` | messages of the stream; deliveries whose AckWait runs; deliveries buffered by a client's `Consume`; deliveries of `payment.created` |
| `stage`, `msg`, `out` | where the callback of a consumer stands: `idle`, before the publish, before the Ack |
| `FetchPending`, `PublishCreated`, `PublishCreatedFails`, `WorkerCrash` | `repository.FetchPending`, `service.processOne`, its error path, a crash or a read error with claimed rows |
| `Age`, `FetchStuck` | ten minutes without an UPDATE; `repository.FetchStuck` |
| `RiskEvaluate`, `Publish`, `PublishFails`, `Ack`, `AckLost`, `ConsumerCrash` | `handleMessage` of risk-service; the same steps serve `handle` of provider-service |
| `ProcessPayment`, `AnswerLost`, `ProcessPaymentFails` | `service.ProcessPayment`; a transient error in `callWithRetry` after the provider took the money; its error return (Nak) |
| `UpdateStatusWithWebhook`, `...WithoutWebhook`, `UpdateStatusFails` | `updateStatusWithWebhook`: commit with the webhook row, commit after `GetMerchantConfig` swallowed an error, no commit (Nak); `Notify`: a row for every result, whatever the status was. A failed `CreateDelivery` belongs to the last: PostgreSQL aborts the transaction, so the commit fails |
| `evidence`, `charges`, `lost` | history only: what was published, money taken, rows whose `payment.created` was given up |

Abstractions, and why they lose nothing the properties speak of:

- a message is its transaction, its kind and a number; payloads are left out;
- the verdict of risk-service and the result of a provider are any verdict and
  any result, which contains every rule set, breaker state and adapter;
- a database transaction is one step: it commits entirely or not at all, and
  nothing else reads its uncommitted rows;
- `ORDER BY ... LIMIT` is any choice of at most `BatchSize` rows;
- JetStream delivers in any order, and a delivery is buffered by the one client
  of a consumer. The buffer is a set: a second copy of a message that is already
  buffered adds nothing to it, a copy delivered after the first was taken does;
- a Nak, with or without delay, makes the message available again at once;
- provider-service's and the updater's consumers have a name but are not durable;
  if such a consumer is recreated, unacknowledged messages of the WorkQueue are
  delivered again, which is what an abandoned delivery does here.

Left out: MaxAge of the stream (after 72 h the stuck resolver has long settled
the row), malformed JSON (`Term`; only these services publish, and they marshal
their events), two replicas behind one consumer name (a replica adds a second
callback for the same messages; planned). Also `POST /api/v1/process` of
provider-service (`internal/handler/process.go`), which charges a payment without
asking for a verdict: no service calls it and the gateway has no route to it.
`ChargeNeedsApproval` and its theorem `NoChargeWithoutApproval` speak of the messages
of the saga and not of a caller of that endpoint; in `ProviderRouting` it is one more
caller of `ProcessPayment`.

A *fault* is a step the environment has to misbehave for: a crash, a failed
call, a lost answer or acknowledgement, an AckWait that runs out while the
message is buffered or handled. `MaxFaults` bounds them. AckWait of a delivery
whose client copy is gone is no fault.

### Idempotency

One key, any number of requests. `pc[r]` names the next call of the handler
`CreatePayment`; `key` is the Redis value together with the request that wrote
it; `rows` is what the UNIQUE column has admitted. Every call has a failing
variant, with or without its effect where an error leaves that open. `Crash`
also stands for a client that leaves: the cancelled request context makes every
later call fail. `Expire` waits for the writer of the value to finish, since no
request takes 24 hours, but it may fall between the SET NX and the GET of a
replay. `LockRepeated` is go-redis sending SET NX again after its reply was lost:
the request finds its own placeholder and takes itself for a replay. Requests that
do not decode or validate are the constant `Invalid`.

The scope is one key, whoever sends it. Neither the Redis key (`redis.go:95`) nor the
UNIQUE column (`001_create_transactions.sql:4`) contains the merchant, so `Requests`
are those of all merchants, and a step does not ask whose a request is.
`AnswersAgree` says what this gives: one payment per key. For one merchant that is
idempotency; for two merchants that use the same key it is the disagreement
listed under *Key scope* below.

### WebhookDelivery

`status`, `attempts`, `due` are columns of a row (`due`: `next_retry_at` has
passed); `batch[w]` and `job[w]` are what a worker has read, which may be stale
when it writes. A merchant's refusal is no fault; a lost answer, a failed UPDATE,
a crash and an unreadable configuration are. Rows do not influence one another,
so the instance has one row; a worker that is slow with another row of its batch
is a worker that takes its time with this one.

### ProviderRouting

| Model | Code |
| --- | --- |
| `state`, `failures`, `successes`, `waited` | `Breaker.state`, `consecutiveFailures`, `consecutiveSuccesses`; `time.Since(openedAt) >= OpenTimeout` |
| `RecordSuccess`, `RecordFailure`, `Open`, `Close`, `Probe`, `Allows`, `IsOpen` | the methods of `Breaker`, one step each: they run under its mutex |
| `unseen`, `candidates`, `provider`, `attempt`, `outcome` | the locals of `ProcessPayment` and `callWithRetry` |
| `FindActive`, `Filter`, `NoProvider`, `NoAdapter`, `Refuse`, `Admit` | the calls and early returns of `ProcessPayment`, in its order |
| `Answered`, `Transient`, `AnswerLost`, `Permanent` | what one attempt of `callWithRetry` may end in; the end of the context during a backoff is a permanent error |
| `Record` | the report to the breaker and the result |
| `charged`, `results`, `opened` | history only: the provider took money; the reports a breaker has had since it entered its state; providers that opened while a call counted on them |

A call slot starts over when it has answered, so the behaviours are infinite.
Filtering, admission, each attempt and the report are separate steps of separate
calls; every report may come from a call that was admitted in another state of the
breaker. `Select` is any choice among the candidates: Thompson sampling draws its
scores at random, and no property depends on them. `rows` is any subset of the
providers, which covers currencies, methods and inactive rows. A restart of the
process is left out: it sets every breaker to its initial state and ends all calls.

### RiskRules and RiskEngine

| Model | Code |
| --- | --- |
| `Accepts`, `ValidSimple`, `ValidVelocity`, `ValueFits`, `Load` | the checks of `internal/loader`; one bad rule fails the file, and `main` exits (`rules = <<>>`) |
| `ParseSimple`, `ParseVelocity` | the rule the engine gets; the value of a list has no single number (`Nil`) |
| `ExtractField`, `ApplyOperator`, `Evaluable` | `internal/engine/simple.go` and when it would return an error or dereference nil |
| `BuildKey`, `HasKey`, `MakeDecision` | `buildKey`, `extractKeyField`, `makeDecision` |
| `count[k]`, `ttl[k]`, `seen[k]` | the counter under `velocity:field:value`; whether it has a time to live; history: the payments it has counted |
| `pc`, `msg`, `next`, `score` | where the callback of a replica stands in the list of rules, and the score so far |
| `Incr`, `Expire` | the two commands of `checkAndIncrement`, in separate steps |
| `IncrRepeated`, `IncrFails`, `ExpireFails` | go-redis sends a command again whose reply was lost; an error after or without an effect (fail-open: the rule does not trigger) |
| `Publish`, `PublishFails`, `Ack`, `AckLost` | the verdict; Nak; a lost acknowledgement or a crash at any point |
| `WindowEnds` | the key's time to live ends, at any time |

A rule file is a sequence of records with the keys of the JSON rules
(`RawRules`); the value of a simple rule keeps the shapes the loader tells apart
(`RawValues`: missing, null, number, list, other). The loader's lists (`Fields`,
`Operators`) and those of the engine (`EngineFields`, `Comparisons`) are separate
definitions, as they are in the code: nothing but `LoadedRulesEvaluate` says that
they fit. The engine holds `SimpleRules`
and `VelocityRules`. The file is any of a set: every operator with every shape, each
refusal of the loader, and velocity rules with different keys or one shared key.
Amounts are in thousands, thresholds of velocity rules are 1. How long a window
lasts is left out: it may end between any two commands. Nak and AckWait make a
message available again at once.

### RouterStore

The statistics of a provider are the sequence of updates that made them: alpha,
beta and the latencies are functions of it, so "a snapshot is older" is "a
snapshot is a shorter prefix". `RecordResult` is three critical sections
(`RecordResult`, `Count`, `PersistStats`) under two mutexes; `OnHalfOpen` runs in
a goroutine of the breaker. `saves` are the goroutines of `persistStats`; each
ends in `Save` (SET arrives, whatever is there) or `SaveFails`. `Restart` ends
everything in memory, and with it the SETs that are on the network (one that arrives
after the restart is left out), with three beginnings: `StartLoaded`, `StartFresh` (one
unreadable key and `LoadAll` returns an error), `StartDetached` (no store for the
life of the process). `newest` and `intact` are history: the length of the newest
snapshot taken and whether nothing went wrong with it. `KeyExpires` is the
seven days of `redisTTL`. `Select` and the formulas of Thompson sampling are left
out: they only read, and draw at random.

### RateLimit

| Model | Code |
| --- | --- |
| `Valid`, `LimitOf`, `Auth`, `AuthFails` | `Store.Lookup` and the middleware: 401, 500 without Redis, the merchant and limit of the key |
| `Stamp` | `checkRateLimit` reads the clock; it may be up to `MaxLag` behind |
| `Sweep`, `Add`, `Exceeds`, `Script` | ZREMRANGEBYSCORE, ZADD, ZCARD, EXPIRE; one step, as Lua runs in Redis |
| `RateLimit`, `ReplyLost`, `RateLimitFails` | the reply decides; the script is sent again; fail-open |
| `StampCollides` | two gateways read one nanosecond, so their requests are one member |
| `Proxy`, `ProxyFails`, `Aborts` | the answer of transaction-service; 502; a panic (500) or the end of the gateway |
| `log` | history: every execution of the script with its time, limit and verdict |

Time is a number. `MaxLag` bounds how far clocks are apart and how long go-redis
goes on sending a command; `Tick` lets no request wait longer. Merchants share
nothing. The keys of the merchants are fixed; a change of `apikeys:*` between
requests is the choice of another key. A key that has expired in Redis is an empty
window (`Live`). Request ids and logging are left out, and so is the branch of
`RateLimit` for a context without a merchant (`ratelimit.go:56-62`): in the chain of
`main.go` it runs behind `Auth`, which puts one there or answers itself.

## Runs

| Run | Instance | Shows |
| --- | --- | --- |
| `saga_safety` | 1 payment, 2 workers, 2 deliveries of `payment.created`, 2 faults | the inductive invariant, all safety properties, the refinement |
| `saga_liveness` | 1 payment, 2 workers, 2 deliveries, 1 fault | settlement, a result for every approved payment, late captures recorded |
| `saga_state_machine` | 1 fault | finding: terminal statuses are overwritten |
| `saga_double_charge` | 1 fault | finding: one fault is enough for a second charge |
| `saga_unnotified` | no fault | finding: the stuck resolver tells nobody |
| `idempotency` | 4 requests (1 malformed), 3 faults | the inductive invariant, answers agree, the key is a lock and what breaks it, a stranded placeholder ends |
| `webhook` | 1 row, 2 workers, 3 attempts, 2 faults | the inductive invariant, nothing is given up early, repeats and re-opened rows have causes, rows end |
| `webhook_double` | 2 workers, no fault | finding: both workers send the same row |
| `provider_routing` | 2 concurrent calls, 2 providers, 1 with an adapter, thresholds 2 and 2, 1 retry | the inductive invariant, the races, the breaker's contract, liveness |
| `risk_engine` | 2 replicas, 2 payments of one customer, 2 deliveries, 2 faults, any rule file of a set | the inductive invariant, loader and engine agree, counters are explained and end, every payment is decided |
| `router_store` | 2 providers, 2 calls, 5 updates, a snapshot every 2 results, 1 fault | what Redis holds is a past state, and how much a restart may lose |
| `rate_limit` | 3 requests with one of 3 keys of a merchant or none, a window of 2, a lag of 1, 2 faults | limits hold and rejections are earned, within the lag |

Why the bounds are enough. Payments share only batches and the callbacks' turns,
so one payment shows every order of its own messages; the safety properties are
proved for any number. Two deliveries of `payment.created` are the least that reach the limit with
a redelivery before it. Two faults let one undo what another did (a lost Ack, then
a failed republish). No step compares counters, so a third worker, request or
payment only repeats roles. Two concurrent calls give every race of a report with a
filter, an admission or another report; two is the least threshold at which a
counter is neither zero nor full. In `RiskEngine` two replicas give every race for one
counter, and two payments one counter with more than one payment; two faults let a
redelivery meet a failure. In `RouterStore` two calls give every race between an
update, a count and a snapshot, and five updates two snapshots with one to spare,
so that a save can overtake another. In `RateLimit` three requests exceed both
limits (1 and 2), and four units of time close a window and open it again. What is
proved holds without any bound.

Deadlock is not checked: the systems come to rest when every payment is settled
and the stream is drained, every request is answered, every row is done.

Symmetry is used where only identical workers, calls, providers or requests are
permuted, and in no run with a liveness property.

The calls of `ProviderRouting` never rest, so its runs do check deadlock.

### Fairness

Weak fairness, only of steps the code repeats until they happen: the tickers of
`worker.Run` and of the webhook worker (`FetchPending`, `FetchStuck`,
`FetchPendingDeliveries`), the loop over a claimed batch, time (`Age`,
`BackoffEnds`), JetStream (delivery, AckWait of an abandoned delivery), and each
callback up to its end. Nothing is assumed of faults but their bound, of a
merchant that it ever accepts a request, or of a provider that it ever captures.
One goroutine serves both tickers of the worker; with a finite batch it returns
to its `select`, so both are served. Each consumer runs its callback one message
at a time, and fairness is per consumer, not per message. In `ProviderRouting` a
call that has begun goes on (its goroutine is scheduled, adapters answer or fail)
and `OpenTimeout` passes; nothing makes a request arrive, so `OpenIsTriedAgain`
has the arrivals as its hypothesis. In `Idempotency` a handler that has begun goes
on and the TTL ends; no request has to come. In `RiskEngine` a running replica goes on with
its message and takes the next one (`HandleMessage`); Redis and the end of windows
get no fairness. `RouterStore` and `RateLimit` state safety only.

## Properties

Of the saga: `NoLostPayment` (a payment in processing is in a worker's hands, in
the stream, or was given up by a fault), `CreatedOnce` (exclusive claim),
`ChargeNeedsApproval`, `EveryDoubleChargeHasAFault` (at most one charge and one
more per fault), `StatusBacked` (only what a service reported is
recorded), `LostNotificationsHaveFaults` (and it is announced: each payment whose
reported status has no webhook row has cost a fault of its own), `NeverReopened`, `ImplementsLifecycle`;
`EventuallySettled`, `CaptureReachesDatabase`, `ApprovedGetsResult`. `SagaInv` is
the inductive invariant; its `ChargesPaid` counts what may still lead to a charge, and its `NoFalseWebhook` is the
other half of `LostNotificationsHaveFaults`.

`PaymentLifecycle` hides everything but the status and the outcomes that are
known: a payment is accepted, claimed once, settled by a known outcome or by
timeout, and may only be re-settled by another known outcome. The mapping takes
`known` to be the terminal statuses among the published results.

Of the API: `AnswersAgree`, `HandlingIsExclusive` (one handler past the lock, and
one more per fault), `KeptUntilExpiry`, `PlaceholderEnds` (whatever died or was lost
on the way, a key does not stay in "processing"). `IdempotencyInv` has what makes
the first ones inductive: `KeyNamesPayment` and `KeyHasWriter`.

Of the outbox: `GivenUpAfterTrying`, `RepeatsAreExplained`, `ReopenedByOverlap` (a row
that has ended is written again only if two workers had it in hand),
`EventuallyDone`. `WebhookInv` has `DeliveredWasReceived`, the counting of attempts
(`RowsCounted`, `SnapshotsCounted`, `JobsCounted`) and of repeats (`HeldOnce`,
`RepeatsPaid`), and who has a row in hand (`HeldAlone`).

Of provider-service: `OnlyEarlierCallsReachOpenProvider` (an open breaker lets no
new call through, though admitted ones go on retrying), `RefusalMeansRace`,
`AnswerTellsCharge` (what is repeated or refused was not charged),
`KeepsContract` (counters and stale reports implement `BreakerContract`),
`EveryCallReturns`, `OpenIsTriedAgain` (the filter and the admission agree on the
timeout, so no provider is shut out for good).

Of risk-service: `LoadedRulesEvaluate` (whatever the loader accepts, the engine
evaluates without an error and without nil: two packages keep two lists),
`EndlessCountersHaveFaults` (a counter nobody will give a time to live needs a
fault: without one, INCR and EXPIRE pair in all interleavings), `CountIsTraffic`
(a counter is at most its payments, once per rule that reads the key, and one more
per fault: this is how far redeliveries and shared keys can move it),
`EveryPaymentDecided` (fail-open decides in the end). In `RiskInv`, `CounterInv` ties
Redis to the replicas between INCR and EXPIRE, `DeliveryInv` says what faults pay
for, and `TrafficInv` what deliveries pay for.

Of the router: `StoreIsAPastState` (a restart loads a history without a gap,
however saves overtake one another), `LossIsBounded` (fewer than `persistEvery`
results and no half-open reset are lost, unless the newest save failed or was
overtaken). `RouterInv` holds the counting argument for it (`PendingInv`), where the
newest snapshot is (`ArrivalInv`), and that updates of different processes are told
apart (`IssuedInv`).

Of the gateway: `AdmittedWithinLimit` (no more than `limit` requests of a merchant
in a window shortened by the lag), `RejectionIsEarned` (a 429 needs more than
`limit` requests in a window lengthened by it). Neither holds for the window
itself: TLC refutes both when the lag is left out of them. `RateInv`, the
inductive invariant, includes `ChainInv`: 429 is a script's verdict, and nobody
gets to the proxy without a merchant, nor uncounted without a fault.

## Findings

Each is a run that ends in a counterexample to something a document says.

1. *State machine.* `services/transaction-service/README.md:27` says invalid
   transitions are rejected; the updater's UPDATE has no condition and
   `TransitionTo` is called by nobody. A result that arrives after the stuck
   resolver turns `failed` into `captured`. (`CaptureReachesDatabase` shows the
   good side of it: the row tells what the provider did.)
2. *Exactly once.* `README.md:62`; provider-service recognises no transaction it
   has processed, and its retry carries no idempotency key.
3. *Unnotified.* `docs/adr/005-outbox-pattern-webhooks.md:174`; the stuck
   resolver writes the status alone.
4. *Double delivery.* `docs/adr/005-outbox-pattern-webhooks.md:130`; the SELECT
   ... FOR UPDATE SKIP LOCKED runs outside a transaction.

Further disagreements, which have no run of their own:

- *Retry.* `README.md:305` promises the existing payment; after the TTL the retry
  meets the UNIQUE column and is answered 500, and so is every later one. When
  the TTL ends between SET NX and GET the empty id is looked up.
- *Key scope.* `README.md:106` documents UNIQUE `(merchant_id, idempotency_key)`.
  The column is UNIQUE alone (`001_create_transactions.sql:4`) and the Redis key has no
  merchant in it (`redis.go:95`): a second merchant with the same key is answered
  200 with the first one's payment (409 while it is being made, 500 when Redis has
  forgotten the key), and its own payment is never made. `AnswersAgree` holds of
  this case too, since it says that a key has one payment.
- *Declined.* `README.md:151-152` says that a declined card does not count against the
  breaker. It depends on the form of the answer: a result with a failed status is
  reported as a success (`service/payment.go:139-144`), an error as a failure
  (`service/payment.go:118-119`), and the Stripe adapter returns an error for a
  refused card as well (`stripe.go:90-93`).
- *Half-open.* The comment of `StateHalfOpen` (`breaker.go:19`) says one request
  passes; `Allow` counts nobody, so a burst at the end of the timeout goes to a
  provider that may still be down. `BreakerContract` therefore promises no more
  than the code does.
- *Verdicts.* `risk-service/internal/consumer/consumer.go:155` says the evaluation
  of the same data always gives the same result; INCR counts a redelivered payment
  again, so it may be approved and then blocked.
- *Ten transactions.* `router/store.go:22` says at most ten are lost; a failed save,
  or an older one that overtakes it, loses more (`LossIsBounded` names the cases).
- *Sliding.* `README.md:118` calls the velocity window sliding; it is fixed, from the
  first INCR to the end of its EXPIRE. `README.md:92` says the rate limit uses INCR;
  it is a sorted set, and it does slide.
- *Retry-After.* `README.md:308` says the header gives the waiting time. It gives
  the time to the next full minute while the window slides, and rejected requests
  stay in the window, so a client that retries meanwhile keeps it full.
- *Score.* `README.md:60` gives a score from 0 to 100; the scores of
  `rules/default.json` add up to 140.

## Proofs

For every set of payments, workers, requests and rows, and every value of the
bounds, from named assumptions: `ConstantsAssumption` (finite bounds are natural
numbers, the "nothing" value is none of the others) where none is given below.
Sets are assumed finite where an invariant counts their members: the requests of
the rate limit, the goroutines of the router, the payments and replicas of
risk-service. The sets that the saga, the outbox and the key count grow by one
element in a step, so that they are finite is part of the proofs.

Several proofs are arguments about amounts. The number to bound (charges, accepted
notifications, handlers, counts) is not inductive, since the next step may raise it;
what is inductive is the number together with everything that may still raise it,
each counted as the cardinality of a set, against the faults so far. A step then
moves an element from one set to another, or takes a fault.

*Saga* (`PaymentSagaProofs`). `NoLostPayment` is not inductive: when a callback
acknowledges, its message leaves the stream. `SagaInv` adds what makes that safe.
`SupersededInv`: a callback about to acknowledge has already stored a message
further down the road, or the payment is settled (`Rank` orders the kinds, so the
superseding message is not the one that is deleted). `CallbackInv`: a callback
holds a message of its own subject. `PublishedInv`: every copy of a message was
published. `ClaimInv`: nothing was published about an unclaimed row, and a row is
in one batch. There is one lemma per part of the invariant; each goes through the
actions that can disturb it. From `SagaInv`: `TypeCorrect`, `NothingLost`,
`ClaimedOnce`, `NoChargeWithoutApproval`, `StatusIsTrue`, `WebhooksAreTrue`,
`SettledForGood`, `DoubleChargesCostFaults`, `LostNotificationsCostFaults` and the refinement
`SagaImplementsLifecycle`, where each step maps to one step of `PaymentLifecycle` or
to a stutter. `DoubleChargesCostFaults` rests on `ChargesPaid`:
beside the charges, the unpublished `payment.created`, an approval about to be
published, the messages that wait on the server (`Waiting`: not outstanding, or
abandoned) and those buffered in a client (`Buffered`) are at most one more than the
faults. Without a fault a message that leads to a charge is in one of these places
and becomes one successor or one charge; a Nak, a lost Ack, an early AckWait and a
crash put one message back, and each is a fault. A crash that drops a whole buffer
moves it to the messages that wait and adds only the one in hand (`PaidEnd`).
`LostNotificationsCostFaults` needs no more than that the payments without their row
(`Unnotified`) grow by one at most in a step, and only in one that takes a fault
(`UnnotifiedSteps`): every other write of a reported status writes the row with it.

*Idempotency* (`IdempotencyProofs`). `IdempotencyInv`: there is at most one row, a
request about to write its id to Redis owns that row, and whatever Redis holds or
a replay has read is that row. `OneAnswerPerKey` follows. `KeyHasWriter` is the
lock: apart from the request that wrote the key, the requests at work are at most
the faults. A request that `LockRepeated` turns into a replay leaves a placeholder whose
writer is not at work, and is paid by its fault. A free key has no writer, so a request may take it beside those that
faults paid for (`OneTakesTheKey`); a Lock that fails open is a fault itself
(`OneComesWithoutTheKey`). When a request deletes a key that another one wrote, it
ends, and that other takes its place in the count (`Others`). Hence `OneRequestAtATime`,
`PlaceholderHasItsRequest` and, as an action property, `KeyStaysUntilExpiry`.

*Outbox* (`WebhookDeliveryProofs`). `WebhookInv`: any number of attempts found in a
row, a snapshot or a job is at most the number of requests made (or the
configuration was unreadable), because it grows by one between read and request
and everything else copies it. Hence `NotGivenUpEarly` and `DeliveredIsTrue`, with
any number of workers overwriting one another. `RepeatsPaid` counts the accepted
requests with the workers that hold the row and have none to report (`Trying`): an
accepted request that was answered takes its worker out of `Trying`, so the sum
grows only by a fault or by an overlapping fetch. The first hand on a free row needs
more: a free pending row has one request less than it may have (`Released` in the
proof), because its last holder was in `Trying` or ended in a fault. `HeldOnce` is
needed because a worker that held a row twice would stay in `Trying`. Hence
`RepeatsHaveCauses`. `HeldAlone`: a row never fetched from under a worker is in one
hand, and pending while it is, because the fetch asks for `pending` and the worker
whose write ends the row lets go of it. The updates ask for nothing, so this is all
that keeps an ended row ended: `NoReopeningAlone`.

*Routing* (`ProviderRoutingProofs`, from `ProvidersAssumption` and
`ConfigAssumption`: thresholds are positive). `RoutingInv` adds to the properties
`CountersMatchState` (each counter counts in its own state and stays below its
threshold), `CandidatesWereUp` (a candidate that is open now has opened since the
filter saw it), `StageMatches` and `OutcomeTellsCharge`. `SuccessEffect` and
`FailureEffect` say once what a report does to the breakers and to the calls that
count on the provider; `QuietStep` treats the steps that leave breakers alone.
From it: `OpenBreakerProtects`, `RefusedByRaceOnly`, `AnswersAreTrue`.

*Breaker refinement* (`ProviderContractProofs`, same assumptions).
`BreakersKeepContract` is `KeepsContract` for any thresholds, calls and providers.
The argument is `LogInv`: while closed, `consecutiveFailures` is the length of the
run of failures at the end of the log of reports; while half-open,
`consecutiveSuccesses` is the length of the log, which holds successes only; while
open, the log is empty. Then a counter reaches its threshold exactly when the log
ends with that many such reports (`TripsByLog`, `RecoversByLog`). `LogInv` is needed
because the contract has no counters and the log forgets its oldest report
(`NewLogExtends`). Every other step leaves all breakers alone or concerns one of
them (`OneConforms`, `NoneChanges`).

*Risk* (`RiskEngineProofs`, from `RiskConstants`: amounts and hours are integers,
`nil` is not, and a file is a sequence of rules of any shape JSON gives them).
`LoadedRules` compares two lists of operators, fields and shapes case by case, for
every file. `CounterInv`: one replica at most is between INCR and EXPIRE of a key,
and the key is there without a time to live, since WindowEnds needs one; so a counter
that nobody will end is left by a fault: a step adds at most one, and takes one
(`EndlessStep`, `EndlessCountersCostFaults`). `DeliveryInv`: the deliveries of a payment after its first, the
next one included (`Extra`), are at most the faults. `TrafficInv`: a count, with what
the replicas at work have yet to count (`Ahead`), is at most the rules that read the
key times the deliveries of the payments it has seen and the faults to spare.
`CountersCountTraffic` follows, because deliveries are payments and extra
deliveries. It would not be inductive in terms of payments and faults alone: a
redelivery that is on its way has cost its fault and not counted yet.

*Router* (`RouterStoreProofs`, from `RouterConstants`: `persistEvery` is positive and
the goroutines are finite). `SnapshotInv`: a snapshot on its way is a prefix of the
statistics. `PendingInv`: unless a call is about to take a snapshot, the updates
after the newest one are results, no more than the counter modulo `persistEvery` and
the calls that have yet to count; the proof is about remainders
(a call that counts moves from the set to the counter, and where the counter wraps
it takes the snapshot itself). `ArrivalInv`: the newest snapshot is in Redis or on
its way, if nothing went wrong. `IssuedInv`: updates have numbers, so a
history kept from an earlier process is not mistaken for a part of this one's. From
them: `RestartFindsAPastState` and `RestartLosesLittle`.

*Rate limit* (`RateLimitProofs`, from `RateConstants`: the requests are finite and
the lag is below the window, which is at most the time to live). Every step runs a
script or leaves windows and history alone (`StepKinds`). `EntryInv`: an entry is
the stamp of an executed request, and its script ran no earlier. `KeptInv`: the
member of an executed request is in the window until a window less the lag has
passed, because the stamp of every later script is at most now, a shared member is
only renewed, and the key lives longer than the window. With `RequestInv` (a stamp
is at most the lag old when its script runs) `EntryInv` bounds the window from
above and `KeptInv` from below: `RejectionsAreEarned` maps the recent requests onto
the window, `AdmissionsAreLimited` maps the recent requests that share no member
into it. The lag cannot be dropped: without it both are false.

Every invariant and every action property of the runs that pass is stated by a
theorem. Only model-checked: the liveness properties (`EventuallySettled`,
`CaptureReachesDatabase`, `ApprovedGetsResult`, `PlaceholderEnds`, `EventuallyDone`,
`EveryCallReturns`, `OpenIsTriedAgain`, `EveryPaymentDecided`), since fairness is out of the prover's
reach. The runs of the findings end in their counterexamples.

## Not modelled

- Configuration, logging, metrics, health checks, request ids: pure I/O.
- Thompson sampling's draws and formulas: random reals; any choice is modelled.
- Validation of bodies, the HMAC signature, reasons and wording: they decide nothing
  but whether a request is refused, which is modelled as such.
- The lengths of backoffs and windows: only "due" and "ended" are told apart.
- JetStream beyond what the services use of it; MaxAge of the stream.

## Plan

Done: the saga, its abstract specification and proofs; idempotency; the outbox;
concurrent calls of `ProcessPayment` and the breakers, with the proof that they
implement `BreakerContract`; risk rules and counters; the router's store; the
gateway; proofs of all their invariants.

1. Lemmas about the pure operators of `RiskRules` (what a decision is, which key a
   rule reads) stated for their own sake.
2. Several replicas per consumer in `PaymentSaga`; saga and outbox composed.
