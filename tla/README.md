# TLA+ verification of the FastAPI template

The repository is a template for FastAPI services: an API process, ARQ workers
over Redis, PostgreSQL through SQLAlchemy, a webhook intake, a client layer for
third-party APIs and a durable workflow engine. Its hard parts are protocols
that cross an `await`, a process or a transaction, and decisions that several
layers take together. This directory models them in TLA+, checks the models with
TLC on small instances and proves the most important properties with TLAPS for
every value of the constants.

Paths below are relative to `src/src/app/` unless they start with `docs/`,
`tests/` or `TEMPLATE_ROADMAP.md`, which are relative to `src/`. `PROJECT.json`
holds the machine-readable inventory: which lines each definition stands for,
the runs, the mutants that show each property can fail, the hazards with the
line where each bites, the findings and the theorems.

## 1. Inventory

### Parts, their state and how they meet

| Part | State it keeps | Operations | Talks to |
|---|---|---|---|
| Workflow engine, `core/worker/workflow.py` | `workflow_execution` row: status, current_step, completed_at, execution_context (attempts, waits, completed steps, compensation log) | `start`, `advance`, `resume`, `execute_step`, `handle_step_failure`, `compensate`, `WorkflowStepJob.run`, `enqueue_step` | step code, ARQ, database session |
| Job runtime, `core/worker/jobs.py`, `retry.py`, `dead_letter.py`, `replay.py` | ARQ queue and try counts in Redis, `dead_letter_record` rows | `WorkerJob.enqueue`, `execute`, alert hooks, dead-lettering, triage, replay | Redis, database |
| Scheduled jobs, `core/worker/scheduler.py` | lock key with TTL and last-run key in Redis | `ScheduledJob._execute_wrapper` | ARQ cron, Redis |
| Worker process, `core/worker/functions.py`, `settings.py` | stack of closers in `ctx`, module-global handles, ARQ's heartbeat key | startup and shutdown hooks under signals | ARQ, every job |
| Webhook intake, `webhooks/ingestion.py`, `replay.py`, `idempotency.py`, `persistence.py` | `webhook_event` and `idempotency_key` rows, the queue | signature, validation, replay check, insert, enqueue, key | provider retries, database, queue |
| Webhook validation, `webhooks/signatures.py`, `validation.py`, `providers/` | registries filled at import | verify, content type, payload, event type, dispatch | intake, worker |
| Webhook processing, `webhooks/processing.py`, `dead_letter.py`, `replay_tooling.py`, `retention.py` | status, attempts and payload of the row, dead letters | attempt, `decide_retry`, dead-letter, replay, scrub, purge | worker, operator, database |
| Token sessions, `core/security.py`, `domain/auth_service.py`, `core/db/crud_token_blacklist.py` | refresh cookies in browsers, `token_blacklist` rows | login, refresh with rotation, logout, verify, cleanup script | database, other tabs |
| Circuit breaker, `integrations/http_client/circuit_breaker.py` | state, failure count, time of last failure, in memory | `check`, `record_success`, `record_failure`, `reset` | concurrent calls of one adapter |
| Outbound client and resilience helpers, `integrations/http_client/`, `integrations/contracts/` | per flow: attempt, completed steps, compensations, deferrals | `request`, retry policy, error classes, fallback, partial failure, compensation, deferred retry | third-party API, breaker, queue |
| API lifecycle, `core/setup.py` | exit stack of resources, handles, shutdown flag, request count, drained event | `lifespan`, `GracefulShutdownMiddleware.dispatch`, drain | ASGI server, every request |
| Health checks, `core/health.py`, `api/v1/health.py`, `internal_health.py` | none of their own | ready, internal health | the handles of the lifecycle, the worker's heartbeat |
| Response cache and rate limiter, `core/utils/`, `api/dependencies.py` | Redis keys with expiry | cached GET, invalidating write, windowed count | requests, Redis |
| Configuration, `core/config.py` | the variables of the environment | two settings classes, their validators | everything that is opened or installed |
| Request pipeline, `core/setup.py`, `middleware/`, `api/` | one request's context | the middleware stack, routing, dependencies, error handlers | ASGI server, client |
| Authorization, `core/authorization.py` | role and permission tables | subjects from claims, requirements, ownership | dependencies |
| Observability, `core/logger.py`, `log_redaction.py`, `sentry.py` | processors and field lists | what a log line, Sentry or an outbound header keeps | every other part |
| Users, posts, tiers, admin, scripts, migrations | rows | CRUD | database |

The API process accepts a webhook, stores the event and puts a job on the ARQ
queue; a worker takes the job, advances a workflow one step and may enqueue the
next; steps call third parties through an adapter and its breaker; cron fires
scheduled jobs in every worker. All share PostgreSQL (one session per request
or job) and Redis.

### What is hard here

* *Interleaving at awaits.* Two deliveries of one workflow job load the same
  row; two tabs present the same refresh cookie; two copies of a webhook pass
  the replay SELECT before either inserts; breaker answers arrive late; a GET
  stores in the cache what a write has replaced since.
* *Two stores without a common transaction.* A job is put in Redis before the
  row it is about is committed; blacklist rows are committed one by one; SET
  and EXPIRE are two commands.
* *Crashes, cancellation and redelivery.* ARQ runs a job again after a worker
  dies; a timeout or a signal cancels a coroutine at any await, and
  `CancelledError` is not an `Exception`; a request that timed out may have
  been performed.
* *Clocks.* A lock with a TTL against a job with a timeout, hosts whose clocks
  differ, expiry times in local time, windows that end between look-up and count.
* *Partial failure.* One of several openings, closings or compensations raises.
* *Order of layers.* Which middleware is outermost decides which answers carry
  the identifiers and whose address is counted; two settings classes read the
  same variables with different defaults.

`PROJECT.json` lists each hazard at its line, with the properties that cover it
and what they leave open.

### What makes each part correct

* Workflow: work is never skipped, FAILED means compensated, attempts are
  bounded, every execution ends.
* Scheduled jobs: one runner at a time, runs keep their distance, no stuck lock.
* Intake: one row per event, nothing acknowledged is lost, nothing lost is
  called a duplicate.
* Webhook processing and job retries: an event that is given up on is reported,
  none is left over, cleaning up takes nothing unsettled.
* Sessions: a refresh token buys one pair, a logout is final, a revoked token
  is refused.
* Outbound calls: nothing is done twice by a retry, what was done is undone or
  reported, the breaker goes quiet and recovers, every flow ends.
* Cache and limiter: an outdated entry has a known cause and a bounded life; a
  caller stays within the limit.
* Lifecycle, health, worker: requests and jobs keep their resources, what was
  opened is closed, ready means ready, the process stops.
* Configuration and pipeline: unsafe settings are refused, effects need the
  right, a refusal means nothing happened (two named ones excepted), one answer
  per request, and nothing secret leaves with a log line.

## 2. Modules

| Module | Models | Proofs |
|---|---|---|
| `WorkflowCore` | the pure part of `workflow.py`: `WorkflowDefinition` and how a runner rewrites an execution | `Workflows_proofs` |
| `WorkflowRunner` | `start`/`resume`/`advance` inside one session; EXTENDS WorkflowCore; implements `Saga` | `Workflows_proofs` |
| `Saga` | abstract: what the saga pattern promises | refined in `Workflows_proofs` |
| `WorkflowJobs` | `WorkflowStepJob` deliveries, queue, row and sessions; EXTENDS WorkflowCore | `Workflows_proofs` |
| `ScheduledJob` | `_execute_wrapper` in several workers | `Processes_proofs` |
| `WebhookValidation` | signature, content type, payload, event type, dispatch map | `WebhookIntake_proofs` |
| `WebhookIntake` | `ingest_webhook_event` and the idempotency ledger; EXTENDS WebhookValidation; implements `Inbox` | `WebhookIntake_proofs` |
| `Inbox` | abstract: each delivery judged in one step | refined in `WebhookIntake_proofs` |
| `JobRetries` | `WorkerJob.execute`, alert hooks, dead letters and replay of jobs | `WebhookProcessing_proofs` |
| `WebhookProcessing` | the life of a committed event; EXTENDS JobRetries | `WebhookProcessing_proofs` |
| `TokenSessions` | token pairs and the blacklist; implements `RefreshRotation` | `TokenSessions_proofs` |
| `RefreshRotation` | abstract: a refresh token traded in one step | refined in `TokenSessions_proofs` |
| `CircuitBreaker` | one breaker, concurrent calls | `IntegrationCalls_proofs` |
| `IntegrationCalls` | flows of outbound calls over one breaker; EXTENDS CircuitBreaker | `IntegrationCalls_proofs` |
| `ApiRequests` | posts, response cache and rate limiter under concurrent requests | `ApiRequests_proofs` |
| `ApiLifecycle` | lifespan, middleware, drain | `Processes_proofs` |
| `HealthChecks` | the readiness probes as requests of ApiLifecycle | `Processes_proofs` |
| `WorkerProcess` | the hooks of a worker under signals and restarts | `Processes_proofs` |
| `Configuration` | settings, their two readers and their validators (operators) | `RequestPipeline_proofs` |
| `Authorization` | subjects, roles, permissions, ownership (operators) | `RequestPipeline_proofs` |
| `Redaction` | field names, processors, Sentry scrubbing, outbound headers (operators) | `RequestPipeline_proofs` |
| `RequestPipeline` | one request through the application; EXTENDS the three above | `RequestPipeline_proofs` |
| `MC*` | model values and compositions the configurations use | — |

A step of a model is what the code does between two awaits (or two Redis or
database round trips). Definitions whose comment starts with "Mutant of" are
not part of any specification: each is the named definition with a plausible
bug in it, and the property paired with it in `PROJECT.json` fails when the one
is put in place of the other. What values the variables take is said by a type
invariant in each module that has variables (`TypeOK`, `RunnerTypeOK`,
`SchedulerTypeOK`, `WorkerTypeOK`, `RequestTypeOK`, ...) and proved with the rest.
A proof module holds the proofs of one or several modules that belong together.

**Workflow.** An execution is a record of the row's columns plus the parts of
`execution_context` that steer control. `Attempted`, `SucceedStep`,
`FailWorkflow` and their like in `WorkflowCore` are the rewrites `advance`
makes; both drivers take them from there. `WorkflowRunner` adds the clock, the
waits and the awaits inside `advance`: a step's `execute`, then one `compensate`
after another. Its variables are `suspended`, the await the driver's coroutine
stands at, the execution, and the compensations still to be called. `WorkflowJobs` adds the world around it: `start` flushes the row
and the caller commits later, a job may arrive before that commit, a worker
loads the row into a session, advances it and flushes. SQLAlchemy writes the
columns that changed, so two sessions merge column by column; the context is a
plain JSON column changed in place, so after the insert it is never written.
Step and compensation results, provider payloads and alert hooks are left out;
the names of steps are their numbers, and a name no step has is `UnknownStep`.

**Scheduled jobs.** Fire, SET NX EX, GET last run, SET last run, run, DELETE.
Time is kept as ages and remaining times, so that nothing grows without bound;
`Forgotten` caps an age no comparison can tell from a larger one. A Redis error,
a cancellation at the timeout and a crash may come at every await. `outlived`
records whether a lock has expired under a wrapper that was still at work, which
the default settings allow.

**Intake.** One `pc` per delivery through verification and validation, the
replay check, the insert (flushed, not committed), the enqueue, the key and the
commit. Whether a delivery is good is computed by `WebhookValidation` from what
it carries and from how its endpoint was put together; there are five kinds of
endpoint, among them the one the provider guide describes ("documented") and
ones with the example adapter. SELECTs see committed rows, a unique key makes
the second insert wait. The worker appears as the first look at the row by a
job (`found`).

**Processing and retries.** `JobRetries` is ARQ's count of attempts around
`WorkerJob.execute`: an attempt is counted when it starts, also one that a crash
cuts short, while `is_final_attempt` is worked out by the job itself. `Take`,
the ends of an attempt, `Drop` (ARQ's own limit), the alert hooks and the
dead letters of jobs are actions; what `run` does is left to the module above.
An attempt may end in any class of error, also one that `execute` does not
catch, in ARQ's job timeout (`TimeOut`) or in a crash; after the first two of
these ARQ fails the job for good without a retry or a hook. A hook's insert of a
dead letter may fail for any reason, which `_fire_alert_hooks` only logs (`lost`).
`WebhookProcessing` supplies it: one transaction per attempt over the event's
row, `decide_retry`, the dead letter of the event under its unique key, the
operator's two-step replay (reset, then enqueue), and the retention sweep that
scrubs payloads and purges rows by age. The length of a backoff is not modelled:
a deferred job may start at any later time.

**Sessions.** A refresh token carries a `jti` and is an identity; an access token
carries only subject and expiry, so it is identified by its second of issue.
Requests check the blacklist, decode (expiry), insert and issue in separate
steps; rows are committed one at a time. `Cleanup` is the script that deletes
expired rows, comparing local time with UTC.

**Outbound calls.** A call of `CircuitBreaker` is check, an await, record;
`since` and `failure_count` stop at the largest value a comparison can see.
`IntegrationCalls` makes the callers of that breaker flows of one to `NSteps`
requests: the answer of a request is a status or an exception, `retry.py`
decides whether it is sent again (`RetryAll` are the kinds of flow whose policy
has `idempotent_methods_only=False`), `classify_http_error` what is raised, and the
kind of the flow what becomes of the error — `with_compensation`, a
`CompensationContext`, `execute_with_partial_failure`, `with_fallback`, or a
deferral to the queue. `effects` counts what the provider has really performed,
which a timeout does not tell. The adapter that asks the breaker is the
application's; the order check, request, record is the one the breaker's
docstring gives.

**Cache and limiter.** `ApiRequests` has a post as its version. A GET reads the
key, else the row, then SET and EXPIRE; a write commits and deletes the key. The
limiter looks up the limit, stamps the window (`StampWindow`, an await later),
then INCR and EXPIRE. Every request may fail or be cancelled between these.
`raced` and `cut` record why an entry may be outdated: a request is `overtaken`
when a write commits after its SELECT, and an entry is `raced` when such a request
stores it or the write that should delete it does not. `offered` are the limits
that requests of the window may be counted with.

**Lifecycle, health, worker.** `depth` is the exit stack: the closers of the
first `depth` resources. `Connect`/`Verified`/`PingFails` are the `create_*`
functions around their ping, `Initialized`/`InitFails` the openings without one,
`BeginClose` and `EndClose` a closer before and after its await. `Admit`,
`Respond` and `Cancel` are `dispatch`: since `active_request_lock` is never held
across an await, the look at the flag and the count are one step.
`HealthChecks` gives some requests a handler: it takes the handles it finds when
it begins and asks the dependencies one after the other; a missing cache handle
makes `async_get_redis` build a client for the library's default host, which may
or may not answer. `WorkerProcess` is a second exit stack, kept in `ctx`, under
ARQ's hooks: a signal cancels whatever is awaited, the startup included, jobs
are waited for or cancelled, a crash leaves the heartbeat key behind.
`MCApiLifecycle` is the sum of one API process and one worker process: they share
nothing but Redis, so a behaviour is one of either.

**Configuration and pipeline.** A setting has the few values that a validator
or a reader tells apart, its default first. `load_settings` builds `Settings`
to learn `ENVIRONMENT` and then the class of that environment, whose defaults
differ; either may refuse. `CreateApp` turns loaded settings into a set of
layers and of routes. `Layers` is the order that the calls of `add_middleware`
give all twelve; `app.layers` says which of them are installed, and a layer that
is not is passed over (`Adjacent`). One request travels through them, `at` being
the layer it is in: `PassIn` inwards, the dependencies of its route one at a time,
`Perform`, perhaps `RefuseLate`, then `PassOut` with an answer or `Unwind` with an
exception. The timeout
may expire at every step, also while an answer is on its way. `Authorization` and `Redaction` are
operators those steps use; `Redacted` puts a fixed set of nested events through
the processors of each kind of handler.

## 3. Runs

Passing runs:

| Run | Instance | Shows |
|---|---|---|
| `workflow_resume` | 3 steps, two compensable, budgets of up to 2 attempts, forward jumps and an unknown name, clock to 3, one WAITING result per step, 20 calls | `SessionRetryBudget`, `EventuallyTerminal`, and that the runner implements `Saga` (`ImplementsSaga`) |
| `jobs_concurrent` | 3 steps, 2 workers, 2 deliveries, 2 tries each, crashes, timeouts, jumps | `NoStepLost`, `FailedMeansCompensated`, `JobsSettle` |
| `scheduler_lock` | 3 workers, one clock a tick ahead, TTL 3 = timeout 3 as by default, release 1, tolerance 2, so that a lock may expire under its owner | `MutualExclusion`, `RunsKeepApart`, `LockNeverStuck` |
| `intake_ledger` | 2 deliveries from a set of good, malformed, unsigned, related and unrelated messages, five kinds of endpoint, the ledger on | `AcceptedHasJob`, `Answered`, and that intake implements `Inbox` (`JudgesAtomically`) |
| `webhook_processing` | 1 event, its job and one from a replay, 2 attempts each, crashes, job timeouts, three classes of error (one that is neither job error), dead letters that cannot be written, payloads kept 1 day, rows 2, ages to 3 | `GivenUpIsReported`, `NothingStranded`, `CleanedIsSettled`, `JobsEnd` |
| `sessions_concurrent` | 2 requests, 3 refresh tokens, lifetimes 1 and 2, clock to 4, UTC, tokens and requests symmetric | `OneUse`, `LogoutIsFinal`, `RevokedIsRefused`, and that the requests implement `RefreshRotation` (`RotatesAtomically`) |
| `integration_calls` | 2 tasks — one runs sagas, contexts and bulk operations, the other reads and deferred calls — over one breaker with threshold 2 and recovery 2; 3 steps, one idempotent; 2 attempts, 2 deferrals; the policy of the reads retries every method | `NonIdempotentOnce`, `RolledBack`, `CoolsDown`, `Recovers`, `FlowsEnd` |
| `api_requests` | 2 requests at a time on one post, 2 versions, entries of one tick, limits 1 and 2 | `StaleHasCause`, `WithinLimit`, `Converges` |
| `api_lifecycle` | an API process: 5 resources, a probe and another request, any opening or closing may raise; or worker processes: 5 resources, 2 jobs, signals, failures, restarts | `HandledHaveResources`, `NothingForgotten`, `ReadyIsHonest`, `HooksKeepHouse`, `StopsInTheEnd` |
| `request_pipeline` | three deployments (nothing set, the two secrets, everything switched on that is off by default), each without ENVIRONMENT or with any of its values, and every choice of up to two further variables of one settings mixin; one request of every kind through each application that comes of it | `LoadedIsSound`, `EffectsAuthorized`, `RefusedUntouched`, `Correlated`, `OneAnswer`, `LimiterCountsCaller`, `Redacted` |

The largest are `request_pipeline` with 4.5 million distinct states, about 90
seconds, and `api_requests` with 1.3 million; `integration_calls`, with its
liveness properties, takes longest, under three minutes. Where a module has an inductive invariant, TLC
checked it on the instance of its run before it was proved.

What the less obvious properties say:

* `JudgesAtomically`: the commit is where a delivery is accepted. Before it nobody
  sees anything of it but the job that was handed over; a worker that is early finds
  no row, one that is not finds all of it; without the ledger each delivery has a
  key of its own, so several repetitions may be accepted. That at most one row has a
  key (`OneRowPerKey`) and that only what is in the database makes a duplicate
  (`DuplicateOfAccepted`) follow from it; they are theorems and need no run.
* `RotatesAtomically`: the insert of the row is where a refresh token is traded;
  after it the token owes one pair or, when the request is cut off, none. Of a
  token that has expired nothing is said: a rotation under way may still be paid.
* `MutualExclusion` and `RunsKeepApart` hold until a lock expires under a wrapper
  still at work. That can happen with the defaults, and happens in this instance:
  the run shows that nothing else breaks them, and that after it only a run which
  finds nobody at work restores exclusion. Distances are measured from the
  recorded *start* of the earlier run.
* `GivenUpIsReported`: of each job that gave up in the regular way there is an
  alert, and a dead letter unless its insert failed, which the log alone tells
  (`lost`).
* `NothingStranded`: an event is `enqueued` without a job only when the last
  attempt of its job was cut short by a crash, ended in the job timeout, or raised
  what is neither job error. The last includes an event that failed again after a
  replay and met its own earlier dead letter (the key `source:endpoint:event` is
  taken, the insert fails and takes the transaction with it) and a replayed job.
* `StaleHasCause`: a cached post differs from the row only while the write is
  about to delete the key or for one of the recorded causes. One of them needs no
  failure: a request reads the old row, a write commits and deletes the key, and
  the request then stores the old post, which readers get until it expires. So
  a write that ran to its end is *not* seen by every later reader. What the property
  does promise is that a reader whose SELECT comes after the write puts the entry
  right. `Converges` bounds the rest by the lifetime of an entry; it leaves
  out entries cut between SET and EXPIRE, which never expire.
* `WithinLimit`: a limit looked up in one window may be applied in the next, since
  the window is stamped an await after the lookup. In a window a caller gets at most
  the largest of the limits in force during it and of those looked up before it by
  the requests stamped with it (`offered`).
* `NonIdempotentOnce` is about the retry policy as it is by default; a policy with
  `idempotent_methods_only=False` opts in to repeated POSTs
  (`docs/user-guide/integrations/index.md:132`).
* `RolledBack`: a saga reports success only with everything done, and failure
  only with everything else compensated or accounted for, the latest step first.
* `ReadyIsHonest`: 200 means that every dependency answered this probe. It holds
  while the process shuts down only because the stack closes the queue before
  the cache: a probe that finds no cache handle asks a default Redis instead,
  and then finds no queue either.
* `HooksKeepHouse`: jobs, cancelled ones that are still cleaning up too, have
  their resources; a worker that ends through its hooks has tried to close all
  it opened, except what a signal met between connection and ping (`dropped`).
* `LoadedIsSound`: what two sets of validators let through is what the program
  can keep to: no wildcard, placeholder or clear-text cookie outside local
  development, no certificate dropped on the way to a connection (the CA of a
  database in mode `require` excepted), no wait longer than allowed.
* `RefusedUntouched`: with an answer other than 200, 500 and 504 nothing was
  committed, except behind the 404 of a creation whose row is gone when it is read
  back and the 401 of a logout whose second token does not decode
  (`CommittedRefusal`).
* `LimiterCountsCaller`: "named" stands for every list of proxies that is not
  `*`. A network such as 0.0.0.0/0 passes the validators as such a list, but trusts
  every peer; the property says nothing of it.

*Why the bounds are enough.* The races are between two sessions, deliveries,
flows or requests for one row or key: a second one is what each needs, a third
adds the bystander that takes the lock or the token afterwards. Three steps give
a first, a middle and a last one, a compensable step below and above one that is
not, and a jump that leaves a step out. Counters only need to reach the
comparison they feed from both sides: two attempts, a threshold of two. Times
need one value below, at and above each deadline, which is how the days of
retention and the ticks of clocks are chosen. Validators compare at most two
settings with each other and with the environment, hence `MaxGiven` = 2 beside
each deployment. The waits of a workflow end because of `MaxPolls`: the code polls as
long as step code answers WAITING, so `EventuallyTerminal` is about workflows whose
waits end. Resources that add nothing to the order of the stack (the
tracing and metrics exporters) are left out of the instance; the proofs have any
order. `MaxTime`, `MaxPolls`, `MaxCalls`, `MaxVersion`, `MaxDays`, `MaxReplays`,
`MaxGiven` and the sets of jobs and requests are the bounds without a
counterpart in the code; in `workflow_resume` the 20 calls exceed what three
steps with their attempts, polls and jumps can use, so `EventuallyTerminal` is
not cut short by the bound. What does not depend on size is proved (section 4).

*Fairness.* Always weak, and only on steps the code's own scheduling brings
about:

| Module | Fair | Because |
|---|---|---|
| `WorkflowRunner` | `Resume`, `ExecuteReturns`, `Compensate`, `Tick` | the driver keeps calling `resume`, step code returns, time passes |
| `WorkflowJobs` | `EndStart`, `Work(w)`, `NotFound(j)`, `Drop(j)` | ARQ polls its queue, a coroutine whose await is over is resumed |
| `ScheduledJob` | `Proceed(w)`, `Tick` | the same, and Redis answers or raises |
| `WebhookIntake` | `Step(r)` | the event loop runs every request |
| `WebhookProcessing` | `Works(j)` | ARQ polls; an attempt ends, at the latest at the job timeout, which is `TimeOut` |
| `ApiRequests` | `Handle(r)`, `Age(p)` | the event loop; Redis expires keys |
| `IntegrationCalls` | `Tick`; the steps of each flow | client timeouts end requests, sleeps end, the queue is worked off, the application keeps calling |
| `ApiLifecycle` | `Startup`, `Shutdown` | every opening and closing returns or raises, which the drivers' time-outs see to |

No fairness is put on crashes, signals, providers, operators, requests ending,
or an enqueuing that the application may never do. `TokenSessions`,
`RequestPipeline` and `WorkerProcess` state none: their properties are safety
properties (`RevokedIsRefused` is an action property).

*Deadlock* is not checked where the modelled system really stops: a finished
workflow, jobs all done, deliveries all answered, a stopped process, settings
that were refused.

Runs that show a disagreement between the code and what the repository says:

| Run | Property | What happens |
|---|---|---|
| `jobs_retry_budget` (2 steps, 1 worker, 3 deliveries of 1 try) | `RetryBudget` | the attempt count lives in a JSON column changed in place, is never written, and every job starts from 1: a failing step is retried for ever |
| `sessions_west_of_utc` (lifetimes of 1, clock to 2) | `OneUse` | `expires_at` is local time, the cleanup compares it with UTC: west of UTC the row of a live token is deleted and an old cookie rotates again |

### Further disagreements

Met while modelling, without a run of their own. The models do what the code
does.

*Workflow and jobs*
* `get_steps_for_compensation` compensates the failed step itself and skipped
  ones; `docs/user-guide/background-tasks/workflow-orchestration.md:522` says only
  succeeded ones.
* Where an override leads back to an earlier step, attempt counts go on from the
  earlier round, so a step may be given up on with attempts left, and the steps of
  that round beyond the one that fails now are not compensated
  (`workflow.py:339`, `569`).
* `circuit_breaker_enabled` and a step's `timeout_seconds` are settings nothing
  applies.
* The docstring of `core/worker/scheduler.py:18-21` measures the drift guard's interval
  from when "the previous execution completed"; the code writes the timestamp
  before `run`, so it is measured from the start, and a long run may be followed
  at once by another (`RunsKeepApart` says what the code does).
* The lock "prevents concurrent execution" (`core/worker/scheduler.py:15-17`), but
  nothing ties its TTL to the job's timeout: by default both are 300 s
  (`core/config.py:620`, `core/worker/scheduler.py:184`), the timeout of the job in
  `docs/user-guide/background-tasks/scheduling.md:23` is 600 s. Such a run can outlive
  its lock, and since the lock is deleted without asking whose it is
  (`core/worker/scheduler.py:358`) one overlap can make the next (`outlived`).
* An attempt ended by ARQ's job timeout, or by an exception that is neither of the
  job errors, is neither retried nor reported: its webhook event stays
  `enqueued` with no row in the ledger. A hook that cannot write its row is only
  logged (`core/worker/jobs.py:297-302`), with the same outcome.
* Alert hooks fire for the two job error classes only, so an unclassified
  exception alerts nobody (`core/worker/jobs.py:122`).
* The dead-letter key job:correlation:attempt is the same for two jobs of one
  correlation id (`core/worker/dead_letter.py:41`).
* `replay_dead_lettered_job` passes keywords that `execute` does not take
  (`core/worker/replay.py:132`).

*Webhooks*
* The job is enqueued before the event is committed; a worker can look for the
  row and find none.
* `mark_failed` after a failed enqueue (`webhooks/ingestion.py:322`) is undone by
  the rollback that the re-raised exception causes.
* With replay protection but no idempotency ledger two simultaneous deliveries
  of an event are both accepted: no constraint stands behind the SELECT.
* Step 8 of `docs/user-guide/webhooks/adding-provider.md` passes
  `event_validator=acme_adapter.normalizer`, but a validator is called with
  (request, verification), so every delivery to such an endpoint raises. Step 5
  says unknown types are rejected during intake with 422; `ingest_webhook_event`
  consults no registry.
* `WebhookEventTypeRegistry.validate` asks whether a type is known, not whether
  it is enabled.
* `HmacWebhookVerifier` reads neither `timestamp_header` nor `max_age_seconds`;
  a missing or blank content type is accepted; poison detection and
  `webhooks/correlation.py` have no caller.

*Integrations*
* `HALF_OPEN` lets every call through that meets it; the module's docstring
  (`circuit_breaker.py:10`) says one.
* A `CompensationContext` left by an exception compensates nothing
  (`resilience.py:672`), though its docstring shows so.
* A deferred call is made again whatever its HTTP method.
* `parse_rate_limit_headers` turns remaining `"0"` into None, so `is_exhausted`
  is False; dates in Retry-After are not parsed though the docstring says so.
* Response hooks see `error=None` for 4xx and 5xx; request hooks run before the
  `try`.
* `classify_http_error` makes 409 and 422 retryable, though the docstring speaks
  of preserving the retry information.
* The recipe in `sync.py` mutates a frozen `SyncProgress`; two clients that share
  one `HttpClientConfig` with a base_url mutate the "frozen" config
  (`client.py:56-60`).

*Cache and rate limiter*
* `docs/user-guide/caching/cache-strategies.md:65-68` promises of an invalidation on
  update "Immediate consistency" and "No stale data served to users". A reader
  that took the old post before the write and stores it after the
  invalidation leaves it there until it expires (`overtaken`, `raced`).
* The limiter is a fixed window, `docs/user-guide/rate-limiting/index.md:56` says
  sliding; an INCR after its window's key expired counts from one again.
* The `key_prefix` of `read_posts` names `{page}`, which is no keyword of the
  endpoint, so the decorator raises KeyError; the extra key of `erase_post`
  matches no key of the list.
* `update_post` and `delete_post` find a post by its id only, so a write under
  another user's path deletes another key; deleting or renaming a user deletes
  none.
* An entry whose request is cut between SET and EXPIRE never expires.

*Lifecycle, health and worker*
* `RateLimiter.initialize` publishes its client before the ping, while
  `TEMPLATE_ROADMAP.md:56` has handles published after the check.
* A request cancelled by the timeout middleware is uncounted before the endpoint
  below it has closed its session (`Cancel`, then `Unwound`), so the drain can
  return while it still unwinds; `HandledHaveResources` is about counted
  requests.
* `async_get_redis` without a pool asks localhost:6379 instead of failing.
* The heartbeat of the internal endpoint is ARQ's key, which outlives a crashed
  worker by up to an hour;
  `docs/user-guide/background-tasks/index.md:117` says "checked in recently".
* A signal during the worker's startup leaves the resource being pinged
  unclosed, and if ARQ cannot reach Redis while closing, the shutdown hook never
  runs (`WorkerDies`).

*Configuration and pipeline*
* `docs/user-guide/api/architecture.md:129` has both identifier headers on every
  response, `security_headers_middleware.py:51` its headers too: the 500 of
  `unhandled_exception_handler` carries neither, and 413, 504 and the 400 of a
  wrong host lack the security headers.
* The 404 "Failed to create user" (`domain/user_service.py:36-38`; posts, tiers and
  rate limits have the like) follows the commit of the row, and a logout whose
  refresh cookie does not decode answers 401 with the access token's row
  committed (`domain/auth_service.py:101-105`): a refusal that has taken effect.
* `MetricsMiddleware` is never installed: `create_application` asks
  `get_metrics()` before the lifespan calls `init_metrics()`.
* A streamed body that is too large becomes FastAPI's 400 for JSON and forms,
  not the 413 `docs/user-guide/api/request-safety.md:21` promises.
* `REDIS_*_SSL_CHECK_HOSTNAME` with `CERT_REQS=none` is accepted, but no
  connection can be built from it; a `DATABASE_SSL_CA_FILE` with mode `require`
  is ignored; `CRUD_ADMIN_MOUNT_PATH` is not validated.
* `REFRESH_TOKEN_COOKIE_SAMESITE=none` alone passes the first class and is
  refused by `LocalSettings`.
* `ClientCacheMiddleware` marks every response `public`.
* The filters of the log handlers and `format_exc_info` stand only in the
  `foreign_pre_chain`: `CONSOLE_LOG_INCLUDE_*` and `FILE_LOG_INCLUDE_*` do nothing
  for structlog loggers, and their JSON lines lose the traceback.
* Redaction does not look into objects, message text or tracebacks; Sentry's
  lists lack email and phone; a field of punctuation only normalises to the empty
  name and redacts everything.
* `docs/user-guide/integrations/index.md:155` promises redaction of API keys; an
  `ApiKeyAuth` with a header name of its own matches neither list, and the url is
  logged as it is.

## 4. Proofs

The theorems are of the form `Spec => []Inv` or `Spec => [][A]_vars`, or say that a
specification implements an abstract one (`Saga`, `Inbox`, `RefreshRotation`);
all are proved from an inductive invariant that TLC has checked first. They hold
for any sets of requests, jobs, workers, calls and resources and any values of
the time and count constants under the named assumptions. Every invariant that a passing run checks is proved.

* **WorkflowJobs** — `StepsAreNotLost`, `FailureIsCompensated`,
  `TerminalRowsAreStamped`. A statement about the committed row alone is not
  inductive, because a session may write over it what it loaded long ago. `IInv`
  says the same of every session's loaded and current copy and of any
  column-wise mixture: a row's claims refer to history sets that only grow, and
  `completed_at` is set and never cleared (`KeepsStamp`), which is what makes a
  merge of old and new columns sound. Its first part is
  about the shared operators of `WorkflowCore` (what each rewrite does to
  position, status and stamp).
* **WorkflowRunner** — `FailuresAreBounded`, `SessionsKeepTheBudget`,
  `RunnerImplementsSaga`. `RunnerInv`: the attempts of a step are at least its
  failures and waits (`AttemptsCounted`); what is still to be undone and what was
  undone make up the plan, later steps undone first (`PlanFollowed`). That no step
  fails more often than `max_attempts` needs no more. The other two are for
  definitions without loops, `BranchesLeadForward`, and rest on `AtTheFront`: steps
  beyond the current one are untried, and its attempts are its failures and waits,
  neither more nor less. The assumption is needed: `get_step` takes any name,
  `attempt_count` is never reset, and compensation stops at the failed step, so after
  a jump back a step may be given up on early and a later step that was completed
  stay uncompensated. The proof of the refinement maps each step of a session to
  `Do`, `Undo`, `Commit`, `Abort` or a stutter (`SagaStep`).
* **ScheduledJob** — `RunsExclude`, `RecordedRunsKeepApart`, for every lock TTL,
  timeout and release delay. `LockInv`: unless a lock was `outlived`, whoever is past
  SET NX still owns it and what the drift guard found still holds. That the
  exception does not arise where the TTL exceeds timeout and release delay
  (`TTLCoversTimeout`, which the code does not enforce and its defaults do not meet)
  is a theorem apart, `LockIsNotOutlived`.
* **CircuitBreaker** — `ClosedExactlyBelowThreshold`, `BreakerCoolsDown`. `IInv`
  adds that half open means the recovery time has passed since every failure.
  The specification is the breaker under any callers.
* **IntegrationCalls** — `FlowsCoolDown`, `NotPerformedTwice`, `SagasRollBack`.
  Every step of a flow is one of the breaker's or leaves it alone
  (`FlowsUseBreaker`), which carries `CoolsDown` over. `FlowsIInv` has a
  part per flow: a flow that runs has done its steps in order up to the one at
  hand, one that compensates has undone a final stretch of them, latest first,
  and the error it carries is kept. `PerformedOnce` bounds what the provider has
  performed by the deferrals so far, and one more once the request of the step
  has been answered for good; it speaks of the steps that the flow's policy does
  not retry (`OneShot`), so not of a policy with `idempotent_methods_only=False`.
* **WebhookIntake** — `RowsAreUnique`, `AcceptedIsHandedOver`,
  `FailureIsNoDuplicate`. `IInv` ties rows, keys and queue to the `pc` of the
  request that wrote them, with the unique key covering keys inserted and not
  yet committed. What a delivery carries is any record; `AcceptedIsProcessable`
  derives from `WebhookValidation` what an accepted one has.
  `IntakeImplementsInbox` maps the commit to `Accept`, collisions and duplicates to
  `Repeat`, the enqueuer's put to `HandOver`, a worker's look to `Look` and the rest
  to a verdict of "declined" or a stutter; that `Accept` finds no accepted delivery
  of its key is `KeysDiffer`.
* **TokenSessions** — `RotatesOnce`, `LogoutEndsSession`, `RevokedStaysRefused`,
  under `ZoneNotWest`. `IInv`: a consumed or logged-out token is in the table or
  expired (`ConsumedIsHeld`), and at most one request stands between taking a
  token and issuing its pair (`ConsumedOnce`). `SessionsImplementRotation` says that
  this amounts to an atomic trade: a token moves through valid, owing, spent and
  expired, never back, which `Cleanup` respects just because it takes rows of
  expired tokens only.
* **WebhookProcessing** — `GivingUpIsReported`, `NobodyIsStranded`,
  `CleanupTakesSettled`. `IInv` says of a job that whoever raises has reported
  it or lost the report to a failed hook (`ReportedBeforeReturn`) and that an
  attempt is put back only while another is left, so what ARQ drops was cut
  short (`RetriesAreLeft`); of an event that somebody *carries* it while it is
  enqueued (`OneCarries`): a job that will come back to it, or one that gave it up
  for a reason `NothingStranded` names, being cut short, timed out or ended by an
  unclassified exception; and that a row that has ended was processed or dead-lettered
  (`TerminalIsSettled`), which is why the cleanup takes nothing else. A replay may
  reset the row at any time; it hands the event to the next job before the old
  carrier is dismissed.
* **ApiRequests** — `LimitHolds`, `OutdatedForAReason`. `LimiterIInv`: what was
  admitted was counted, and whoever is about to be counted in this window holds
  a limit that was in force in it or was brought into it by a request that
  looked it up before (`offered`); requests stamped with the last window are
  set apart. `StaleHasCause` rests on `ReadsHold`: whoever is still to store what he read has
  what the database has, unless a write overtook him. `ApiAssumption`: there are
  posts, and limits and lifetimes are positive.
* **ApiLifecycle** — `CountCorrect`, `HandledKeepResources`, `AllClosed`,
  `ReverseOrder`, `HandlesStayOpen`. `IInv` has one part per phase of the
  process: what the stack holds is open and unclosed, what it let go of was
  closed, and the set is complete while requests can be admitted or are waited
  for. `CountStep` is the arithmetic of the counter.
* **Processes** — `HooksCorrect` for the worker and `ReadinessCorrect` for the
  probes. `WorkerIInv` has one part per phase: what the stack holds is open and
  published, what was taken from it was tried, and jobs meet a full stack; the
  assumption `WorkerAssumption` is that the queue handle is pushed first and
  nothing twice. `ReadinessCorrect` rests on the lifecycle's `IInv`
  (`HealthIsLifecycle`: every step of a probe is one of a request or a stutter),
  on `StackedArePublished` and on `QueueGoesFirst`: a cache that was closed means
  a queue that was closed before it, so a probe that asks the default Redis
  cannot find the queue. `ProbesAssumption` is that the lifespan opens the cache
  before the queue, as `lifespan` does.
* **RequestPipeline**, with **Configuration**, **Authorization** and **Redaction** —
  for every `MaxGiven`, that is for settings of which any number were set.
  `LoadedSettingsAreSound` is about the validators alone: each clause of `Sound`
  is traced to the validators of either class that it takes (`LoadedIsValid`).
  `PipelineInv` carries the rest. `RequestsAreAnsweredOnce`: the number of starts
  follows from the phase (`SentOnce`). `RefusalsLeaveNothing`: once the handler has
  committed, a request ends in its response, in an error that becomes a 500, in
  a 504, or in one of the two refusals that the code raises after a commit
  (`HandledIsFinal`). `ResponsesAreCorrelated`: answers start inside the
  context layer and pass it on their way out, the last handler's excepted
  (`IdsAreAdded`). `LimiterTellsCallersApart`: the client is the one that the proxy
  layer made out from its second place on (`ClientIsKnown`). `OnlyTheAuthorizedAct`:
  where a request has passed its first `dep` dependencies, the guard holds what they
  found, and who is there may act as far as they say (`DependenciesHold`,
  `RouteIsGuarded`). `NothingSecretLeaves` is about the operators of `Redaction` and
  needs no invariant. Three
  theorems are about `Authorization` for every caller: `RolesAreExpanded` (the three
  steps of `ExpandRoles` reach what the loop of `expand_roles` computes, the least
  closed set), `SuperusersMayAll` and `UnknownRolesGrantNothing`.

Proving the pipeline corrected the model in one place: `RequirePermissions` had been
written as a CASE whose guards overlapped, which TLC resolves to the first that
holds and TLA+ does not; it is now an IF in the order of the code's early returns.

Only model-checked:

* the liveness properties (`EventuallyTerminal`, `JobsSettle`, `LockNeverStuck`,
  `Answered`, `JobsEnd`, `Recovers`, `FlowsEnd`, `Converges`, `StopsInTheEnd`):
  fairness and ENABLED are beyond the prover;
* nothing is proved about what a recursive definition or a fold computes.

## 5. Plan

Done in the order of an event's life: workflow, jobs, scheduler, intake,
sessions, lifecycle; then processing, outbound flows, requests with cache and
limiter, the pipeline with its settings, and the two kinds of process. What
is left, the most useful first:

1. An abstract specification of the flows of `IntegrationCalls`, after `Saga`, and of
   the life of an event in `WebhookProcessing`, with the refinements proved.
2. Two events in `webhook_processing`, so that two jobs of one correlation id and
   those of another meet in the dead letters; three requests in `api_requests`.
3. The key ring and the API keys of `core/security.py` in `TokenSessions`.
4. The retries of `retry_database_operation` around opening the database.

## 6. Not modelled

* *Integration contracts and sync* (`integrations/contracts/sync.py`,
  `secrets.py` and the rest beside errors and resilience): protocols, frozen value
  types, settings registries and recipes in docstrings that no other code uses.
* *Webhook to workflow correlation* (`webhooks/correlation.py`): two dictionary
  builders nobody calls.
* *Admin UI, migrations, one-shot scripts* other than the blacklist cleanup:
  third-party code and straight-line database calls.
* *Parts of modelled components*: password hashing, the key ring and the
  attributes of cookies; queue names, concurrency profiles and the JSON check of
  envelopes; deletion of cache keys by pattern (it has nothing to delete);
  connection pooling, response hooks and rate-limit headers of the client, which
  share no state between calls; metrics, tracing and sampling; creation and
  listing of users, posts and tiers, which copy fields; snapshots and metadata
  of webhooks; the delay of a backoff (an await of any length).
* *What is taken as given*: PostgreSQL at READ COMMITTED, Redis commands as
  atomic, ARQ as delivering at least once and as waiting for its jobs before its
  shutdown hook, Starlette, FastAPI and uvicorn as `core/setup.py` uses them.
