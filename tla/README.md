# TLA+ specifications of the service template

This directory holds TLA+ specifications of the Go service template in `src/`: the state
machines of its processes and of the protocols they run with PostgreSQL, NATS JetStream,
River and their HTTP and gRPC peers, the TLC runs that check them on small instances, and
TLAPS proofs of the properties that should hold for every size. `PROJECT.json` lists the
components, the runs, the code each definition translates, the hazards and the theorems.

To check a run: `tlc -config MCHttp.cfg MCHttp`, or `tlc -config NatsWorker.cfg NatsWorker`.
To check a proof: `tlapm Supervisor_proofs.tla`.

## The system

One repository builds five processes, chosen by `cmd/entrypoint`.

| Process | Code | What it does |
| --- | --- | --- |
| service | `cmd/service` | HTTP and gRPC API, diagnostics server, background tasks |
| worker | `cmd/worker` | consumes a JetStream stream and runs message handlers |
| jobs worker | `cmd/jobs-worker` | runs River jobs: webhook deliveries, webhook receipts |
| outbox relay | `cmd/outbox-relay` | River jobs that publish the transactional outbox |
| migrate | `cmd/migrate` | applies schema migrations |

They share a background supervisor (`internal/background`), a readiness cache
(`internal/health`), the teardown budget (`cmd/internal/runtimeopts`), the configuration
(`internal/config`) and the adapters under `internal/infra`. Every process has the same
outline: load and validate the configuration, acquire owners, start background tasks, bind
servers, be admitted as ready, wait for a stop event, withdraw readiness, drain, join,
release in reverse order, all inside the platform's grace period.

A request of the service meets, in order, the middleware chain with its limits, bearer
verification, the body's validation, the idempotency store, a transaction of the pool, and,
when it fails, the translation of its error. Its effects leave through the outbox, webhooks,
object storage and the outbound clients.

## Modules

A module describes one component; an `MC…` module, or a `.cfg` of the module's own name,
instantiates it for TLC; a `…_proofs` module holds its theorems.

### Processes

| Module | Code | State and actions |
| --- | --- | --- |
| `Supervisor` | `internal/background/background.go` | per task its program counter through `runTask` and `recordStop`; the failure pointer and channel; the steps of `Shutdown` for several callers |
| `Background` | the same, as promised to its users | tasks in flight, first failure, stop state; `Supervisor` implements it |
| `ReadinessVerdict` | `nextReadiness`, `staleBudget` | pure operators |
| `Readiness` | `internal/health/service.go`, the gRPC health status, the service's refresher | the cached verdict and its age, the refresher's program counter, the staleness timer and its callbacks, drain |
| `RefreshHistory` | `Service.Refresh` | the verdict next to the whole history of evaluations |
| `ServiceLifecycle` | `cmd/service/internal/bootstrap` | the main goroutine from the first acquisition to the exit, servers, tasks, requests in flight, budgets. It uses the promises of `Background` and of the servers, not their steps |
| `TeardownBudget` | `cmd/internal/runtimeopts/teardown.go` | admission of a grace period and a clock spent by the stages, in an armed window or, when startup failed, an unarmed one; a stage may overrun its deadline |
| `RiverRuntime` | `cmd/internal/runtimeopts/lifecycle.go` | `StartRuntime` against its cancellation; instantiated by the next two |
| `JobsLifecycle` | `cmd/jobs-worker/internal/bootstrap/run.go` | start, admission, soft and hard stop, release |
| `RelayLifecycle` | `cmd/outbox-relay/internal/bootstrap/run.go` | the same with a broker connection that jobs publish through |
| `Configuration` | `internal/config`, `cmd/service/internal/bootstrap` (budgets, memory limits) | defaults, files, overlays and environment merged key by key, decoded and validated, each step able to fail or be canceled; the validators that relate settings; the memory limit with saturating arithmetic; the jobs worker's projection, which drops the sections, and the unknown keys in them, it does not read |
| `Telemetry` | `internal/infra/telemetry`, `startup_telemetry.go` | which endpoint and credentials each signal ends up with, the two stages of the set-up, what the startup reports, the flush |

### Messaging

| Module | Code | State and actions |
| --- | --- | --- |
| `NatsDelivery` | `internal/infra/natsjs/worker_delivery.go` and what it calls | the source stream, delivery counts, handler executions, the dead-letter stream and its deduplication, crashes |
| `NatsWorker` | `internal/infra/natsjs/worker.go`, `cmd/worker/internal/bootstrap` | `Run`, the consume contexts and their callbacks, the lifecycle owner |
| `NatsClient` | `client.go`, `worker_topology.go` | the connection's callbacks, readiness probes as sequences of steps, the calls of `NewWorker` competing for the one claim, drain, `Shutdown` |
| `NatsRedrive` | `message_wire.go`, `message_deadletter.go`, `registry.go`, `worker_config.go` | two streams as sequences of records; publish, deliver, dead-letter, restore, each repeatable; subject matching |
| `Outbox` | `internal/infra/postgresoutbox`, `cmd/outbox-relay/outboxworker` | callers that append one id in their transactions, the River job and its retention (only completed jobs are cleaned up), publications in flight, the stream and what the broker remembers |

### Requests

| Module | Code | State and actions |
| --- | --- | --- |
| `GrpcServer` | `internal/infra/grpc/server.go`, `interceptor_admission.go`, `health_method.go` | RPCs through tracking, admission and end; `Shutdown`, `Close`, the deadline |
| `HttpChain` | `internal/infra/http/harden.go` and the middlewares | concurrent requests through the chain, the semaphore, answers and the access log |
| `KeyedRateLimiter` | `internal/infra/http/ratelimit_keyed.go` | two generations of token buckets |
| `BearerAuth` | `bearerauthn`, `oidcjwt`, `oauthintrospection` under `internal/infra` | the key cache with its schedule, misses and refreshes; a call from its header to its verdict; a stream's operations up to the expiry of its token; start and close of the engine |
| `BodyShape` | `internal/infra/http/request_body_shape.go` | compilation of a schema to a shape, the streaming pass, the full validator as the reference |
| `FailureAnswer` | `internal/failure`, `internal/problem`, `internal/infra/grpc/status.go`, `chain.go`, `interceptor_validation.go`, `internal/infra/http/domain_errors.go` | an error as the sequence of its layers, through handler, policy and recovery boundaries, to a status or a problem and the records it leaves |
| `HttpIdempotency` | `internal/infra/postgresidempotency/store.go`, its SQL, `postgres/transaction.go` | the key's row and its lock, executions through claim, work, completion, commit and replay |
| `PostgresPool` | `internal/infra/postgres`, the service's `dependencies` | the pool's opening under its budget, connections with the marks of `InTx`, transactions, the readiness probe, the bounded `Close` |

### Outward adapters

| Module | Code | State and actions |
| --- | --- | --- |
| `InboundWebhook` | `internal/infra/postgresinboundwebhook`, `internal/inboundwebhook`, SQL | the receipt row, its job, deliveries, executions |
| `WebhookFanout` | `internal/infra/postgreswebhook/dispatcher.go` | callers staging one event under a unique index; a fan-out of which only a part is new is refused and rolled back |
| `WebhookRetry` | `internal/infra/postgreswebhook/retry.go` | pure operators: backoff, jitter, what `parseRetryAfter` makes of a header, deadline |
| `WebhookDelivery` | `internal/infra/postgreswebhook/handler.go`, `transport.go` | one River job through its attempts and addresses; what `Work` returns (`Return`) and what River stores of it (`Report`) are separate steps, and the process may end before, between and after them |
| `OutboundToken` | `internal/infra/oauth2clientcredentials` | callers of one cached credential, its mutex, acquisition and expiry; `Close` in its two steps, the mark and the cancellation of the process context |
| `OutboundHttp` | `internal/infra/httpclient` | admissions, the operation's deadline against the caller's, bounded bodies, allowed addresses |
| `ObjectStore` | `internal/objectstorage`, `internal/infra/s3` | calls on one key with slots, retries, lost answers and other writers; bodies being read, also after their end or `Close` |
| `Migration` | `cmd/migrate`, `internal/infra/postgresmigrate` | overlapping runs under the session lock, each file applied and recorded, failures, cancellation, crashes, the report |

What is not under `src/` is modelled from how the code uses it, and marked external:

- PostgreSQL: row, unique-index and session locks, a commit whose answer is lost and is
  decided later, read-only sessions after a fail-over. pgxpool: `Close` waits for every
  connection.
- River: an attempt counts when it is fetched, a snooze gives it back, the rescuer retries
  a stuck job with attempts left and discards one without, metadata set by a job is kept
  with its result, jobs are deleted after the retention of their state.
- JetStream: at-least-once delivery with a delivery count, acknowledgement waits,
  publication deduplicated by message id within a window. nats.go: the handlers of a
  connection run one at a time, in the order of its events.
- net/http: the first status wins, an aborted handler's response is dropped, an
  unanswered request is a 200; the transport waits for its write loop before it reports an
  error, so whether a request was written is known.
- gRPC: `GracefulStop` waits for open RPCs, `Stop` does not wait for handlers.
- x/time/rate: a bucket of tokens. x/oauth2: the reuse cache locks, looks, then acquires.
- Goose: the session lock, one file per transaction unless the file says otherwise.
- The S3 SDK: a request is retried, and its retry meets what the first attempt left.

Assumptions about these that a property rests on: completed jobs of the outbox are kept
longer than the broker remembers a message id (`Outbox`), a transfer or a redrive is
repeated within the window that deduplicates it (`NatsRedrive`), and `MigrateDown` has the
database to itself, as its comment asks (`Migration`).

## Runs

| Run | Shows | Instance |
| --- | --- | --- |
| `background` | supervisor: failures are kept, a join is complete, the contract is implemented, `Shutdown` returns. Jobs worker and relay: what `run` releases outlives River, its jobs and the tasks, readiness is never given to a dead runtime, stop events end the process. Outbound credential: sound, one acquisition at a time and none after `Close` has canceled the context, every call ends. Pool: a refused start leaves none behind, a transaction tells its outcome and its own cancellation, a late ping is no readiness, `Close` returns | a task, a task without a `Run`, two callers of `Shutdown`; one River client and one job; two calls and a clock to 3 with a lead of 2, so that a token is good, about to expire and expired; two transactions and the probe for one connection |
| `service` | owners outlive users, nothing leaks, drain before teardown; the readiness verdict is what its history defines, the gRPC status is honest and a stale one is withdrawn; drained means idle and a graceful stop loses nothing; every stop event leads to the exit; a failed call is answered with the repository's own text, equally on both transports, and what is hidden is recorded | an API and a diagnostics server, every startup step may fail; interval 2, probe budget 1, threshold 3; thresholds to 4 with histories to 8, so that each is crossed twice; two business RPCs over a budget of one, a probe, a watch; error chains cut at two links, two violations shown, delays of 0 to 2 half seconds, so that rounding shows |
| `nats_worker` | drains reach every context, faults are reported, nothing is released under a handler, the process stops | two contexts: one can be registered late, or start while the other fails |
| `messaging` | no message is lost, one dead letter per record and window with a true reason, redriven once per copy as the event it was; one worker per client, a lost connection is a fault, a closed client ends up unready; the outbox publishes what was committed, once while the broker remembers, and an event that is not in the stream still has its job; everything settles | one record of each kind and two contexts, so that a redelivery overtakes a running handler, one retry delay, one expiry of the window (two records were checked once for safety, 2.4 million states); two calls of `NewWorker`, a probe, one loss; an event and a foreign message, three records per stream: fail, come back, fail again; two transactions under one id, two attempts |
| `inbound_webhook` | the answer to the sender is true (a definite refusal or cancellation means that nothing of the call can be stored; a cancellation joined to a commit of unknown outcome is answered as unavailable), outcomes are final, accepted receipts become terminal | a delivery and its retry, two overlapping executions, three attempts |
| `http` | chain: slots are exact, no double answer, the log is true. Limiter: rates hold. Idempotency: one effect per key and window, answers are true. Bearer: a verdict is about the credential, a stream ends with its token. Body: the fast pass serves exactly what the full validator accepts | two requests for one slot and a probe; five callers and generations of two; three executions: one holds the row, one waits, one comes after expiry; two signing keys that rotate, one call, a clock to 2; schemas and bodies of two levels, up to three properties with shapes limited to two |
| `adapters` | each teardown stage keeps its budget; configuration loads from the strongest source, refuses an unknown key wherever the process looks and its accepted limits hold together; telemetry keeps credentials home and reports truly; each migration is in force once and the report is true; object storage and HTTP client tell what happened and count their slots; one fan-out per event, staged whole or not at all, one address per attempt, a stored Retry-After honoured | five-bit durations with sign and the four stages of the service's tail; up to three settings over two files and the environment; every setting of telemetry; two migration runs over two versions; two calls for one slot, objects of one to three parts of two allowed; bodies below, at and above either limit; equal, overlapping and disjoint plans of two callers; backoff 3 doubling to 6, deadline 10 |
| `worker_loop_panic`, `grpc_slow_peer`, `inbound_last_crash`, `outbound_saturation`, `malformed_redrive` | violations, see Findings | |

`MCBackground`, `MCService`, `MCMessaging`, `MCHttp` and `MCAdapters` each check several
components that share no state: a behaviour of theirs is a behaviour of one component,
chosen by the variable `part` in the initial state, while the others stand still. They are a
way to check them in one run, not a claim about how they interact; a property of such a run
is the conjunction of what its components promise, and its comment names them. Where
components do interact, the interaction is inside a module: `Readiness` holds the health
service together with the gRPC status and the service's refresher, `NatsWorker` the message
loop with its process, `ServiceLifecycle` the process with the contract of its background
supervisor, `Outbox` the appending transaction with the relay and the broker, `PostgresPool`
the startup, the probe and `Close` with the transactions they compete with, `FailureAnswer`
both transports with the one classification they share.

A property of a run has at least one mutant in `PROJECT.json`: the change of the code it
would notice. A property that joins several components has one in each of them, except that
the jobs worker and the relay, which have the same outline, stand for each other. The
definitions that a comment calls a variant are those changes.

`TypeOK`, in the modules that have one, states the range of each variable. It holds on these
instances, and it is part of the inductive invariants; the runs spend their properties on
behaviour.

`MCBackground`, `MCService`, `MCMessaging`, `MCHttp` and `MCAdapters` stutter (`Quiet`) only
in the parts whose behaviours end: all callers have returned, all RPCs are over, a history
is at its bound, a process is configured. In the other parts a deadlock would be reported.

Symmetry is used in `MCHttp` and `MCAdapters`, over sets whose members no definition
distinguishes; those runs check no liveness.

## Fairness

Weak fairness is assumed of what the Go scheduler and the clock guarantee: a goroutine
that can step does, a timer that is due fires. It is never assumed of user code: a task's
`Run`, a message handler, a job, a request, a readiness probe, a transaction, an identity
provider or a watching peer may go on for ever unless the property says otherwise. The
exceptions are stated with the specifications:

- `NatsDelivery` assumes that eventually nobody stops or kills the worker, that the broker
  delivers, and that an acknowledgement or transfer repeated for ever succeeds in the end
  for each record (strong fairness): without them a message may rightly stay.
- `InboundWebhook` assumes the same of storage, that binding changes end with the complete
  set bound, and that no worker dies in the last attempt (`inbound_last_crash` shows what
  happens otherwise).
- `GrpcServer` in `service` assumes that a peer sends the message of a request it has begun;
  `grpc_slow_peer` does not.
- `OutboundToken` assumes that a waiter of a Go mutex gets it in turn (strong fairness of
  `Lock`), and nothing of the provider: the acquisition's timeout ends it.
- `Outbox` assumes that River goes on fetching a job that is available.

A condition may join actions of several parts: in a behaviour only the steps of one part
are ever enabled, so that the condition is that part's own.

## Proofs

Each theorem holds for all constants that satisfy the named assumption of its module, or
the hypotheses stated with it.

**`Supervisor_proofs`** (any tasks and callers). The inductive invariant `SupervisorInv`
has four parts: `TaskInv` (what a task's program counter says of its result), `ChannelInv`
(the channel holds, or its owner has received, exactly the recorded failure, and while a
task is about to send it is empty), `GroupInv` (the join has happened only when
every accepted task is over) and `StopInv` (which caller runs the once-body, and what the
others wait for). The safety properties follow from it: `NoFailureLost`, `JoinIsComplete`,
`ShutdownAnswersAgree`, `SenderNeverBlocks`, and the action property
`FirstFailureIsFinal`. The run checks the first two, the others are only proved.
`SupervisorImplements` proves the refinement of `Background`: each step is a step of the
contract or a stutter of it.

**`RefreshHistory_proofs`** (any threshold and history). `StreakInv` says the cached
counter is the length of the trailing run of failures; that makes `VerdictMatchesHistory`
inductive, since the verdict alone does not tell how close the threshold is.

**`TeardownBudget_proofs`** (any width of durations, number of stages and ceilings).
`ValidateIsExact` shows that the two comparisons admit exactly what fits although the sum
may wrap. `BudgetInv` says that the time left always covers the ceilings of the stages to
come, less the overhead so far, to which the time a stage overran belongs; an unarmed
window caps no stage. The other three theorems are consequences. `AdmittedFits`,
that admission is exact under wrap-around, and `WithinGrace` are only proved.

**`KeyedRateLimiter_proofs`** (any callers, generation size and burst). The invariant adds
to the bound that a caller only in the previous generation has seen all of the current
one, so the roll-over that forgets it comes after `maxKeys` others and one more. From it
follow `MapIsBounded`, `DebtIsKept` and the action property `RateHolds`, which is also run.

**`WebhookDelivery_proofs`** (any backoff, deadline, addresses, Retry-After values and
attempts). `NextRetryBounds` bounds what `webhookNextRetry` answers. The inductive invariant
`IInv` has three parts beside the types: `ReturnedTrue` (what waits to be stored says what
happened, and the process's view of the metadata is what will be stored), `WritesInv` (an
attempt still looking for an address has written nothing) and `JobInv` (the schedule keeps
to the stored Retry-After and to the deadline). `DeliverySafety` proves
`OneAddressPerAttempt`, `CompletedIsAcked` and `DueByDeadline` from it, `StoredHintIsFloor`
the action property `RetryAfterHonoured`. The promise is about the hint River has stored,
capped as `parseRetryAfter` caps it: a Retry-After is lost when the process ends between the
receiver's answer and River's storing it, and the rescued job then keeps only to its backoff
and to an earlier hint.

**`HttpIdempotency_proofs`** (any number of executions of a key; nobody and the errors are
no executions). `RowInv` says who holds the key's row, a transaction at work or a commit the
server has not decided, and that what a held row says has expired; a commit therefore finds
no effect within its retention (`EffectOnce`). `RequestInv` says that what reaches the store
decodes to itself, and that an effect belongs to an execution whose caller has been told
nothing definite against it (`AnswersTrue`).

**`PostgresPool_proofs`** (any callers and connections; the value for no transaction is
none). `PoolSound` rests on `HolderInv`: a connection has one holder, is neither idle nor at
the probe while it is held, and carries its holder's mark until that mark is dropped, which
comes before the connection goes back. So the marker `HandleCancel` sets is the
interrupted transaction's own, and `MarkerInv` makes the two sets equal.

**`OutboundToken_proofs`** (any callers, clock and lead time). `TokenInv` ties the cache's
mutex to the one call that acquires, and says what a call has passed before it gets to the
cache; `CredentialSound` follows.

The last three are instantiated, not extended, by the modules of their runs; there their
properties are conjuncts of the runs' `OneEffectPerWindow`, `ReleasedAfterOwners` and
`CredentialIsSound`.

Model-checked only: liveness; the range of `webhookBackoff`, a recursive function whose
type needs induction (the proofs use only that a backoff is an integer); and the modules
without a proofs module.

## Findings

Each is a run that TLC ends with a violation; the quoted lines are in `PROJECT.json`.

- `worker_loop_panic`: after a panic of the worker's loop itself and an expired shutdown
  stage, dependencies are released under handlers that still run.
- `grpc_slow_peer`: `Close` waits for a `GracefulStop` in the same `sync.Once`, which can
  wait for a peer that has opened a request and does not send it.
- `inbound_last_crash`: a worker that dies in the last attempt leaves a receipt pending
  with no job.
- `outbound_saturation`: a `DoWithPolicy` call that meets the full request limit cancels its
  own context before it looks at it, and its caller is told of a cancellation instead of
  `ErrSaturated`.
- `malformed_redrive`: a delivery that was malformed only for want of an id comes back from
  the dead-letter stream, whose transfer filled the id in.

Two observations that no run states. `failure.go` wants the text of a sanitized answer and
of a classified one without detail to be indistinguishable; gRPC uses `SanitizedDetail` for
both, the HTTP problem of a classified failure without detail omits the member. And a stream
handler that returns the `Canceled` status `RecvMsg` gave it is answered `INTERNAL` and
recorded as a failure; nothing says otherwise.

## Not modelled

- A process held up past the drain's deadline during the propagation delay:
  `drainAndShutdown` then returns before it has shut down any server. Validation keeps the
  delay below the deadline, so `ServiceLifecycle` lets the delay end first.
- In `ServiceLifecycle`, requests still in flight on a server whose `Serve` has failed, and a
  `Shutdown` that fails other than by its deadline.
- In `NatsWorker`, a connection whose `Drain` fails at once; `NatsClient` has that failure.
- In `BearerAuth`, security requirements that combine schemes or name two bearer schemes:
  an alternative is one scheme.
- In `BodyShape`, the limit on the depth of a shape: it makes the compiler give up as the
  limit on properties does, which is modelled.
- Branches no program reaches: `Watch` without a seeded verdict, and the cancellation of
  `Worker.Run`'s context, which the worker process detaches.
- Texts: log attributes, metrics, spans, header formatting; of a problem or a status only
  the author of its text is kept.
- Signature and token arithmetic: a verdict. After its verdict a call no longer follows
  the engine's keys in `BearerAuth`.
- Text to value: parsing of one configuration value, of a connection string, of an OTLP
  path, of manifests and of the table of special address ranges. These are pure functions
  of strings whose cases are their characters; unit tests reach them and a model would
  repeat them.
- `PresignGet`, which signs locally and changes nothing.
- Construction of clients and options in a straight line: success or failure.
- Build-time tooling and the sample services.
- The components marked `not_modelled` in `PROJECT.json`, with the reason there.

## Plan

1. `HttpChain` and `GrpcServer` as implementations of the drain contract
   `ServiceLifecycle` assumes.
2. `Outbox` composed with `NatsDelivery`: from a committed event to a handler that ran.
3. Proofs: `NatsDelivery` (`NoLoss`, `OneCopy`), `GrpcServer` (`DrainedMeansIdle`),
   `Migration` (`MigratedOnce`).
