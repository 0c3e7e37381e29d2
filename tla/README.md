# Verification of the hybrid n8n / Ollama control plane

This directory holds TLA+ models of the companion service (`src/service/app`), the
TLC configurations that check them on small instances, and theorems checked by
TLAPS. Every definition is translated from the source; `PROJECT.json` lists, for
each, the lines it stands for.

## 1. The system

A FastAPI service (one uvicorn process, `deploy/docker-compose.yml`) and worker
processes share one PostgreSQL database. `db.py` takes a connection from a pool per
call and commits each statement by itself: **no handler holds a transaction across two
statements**. That decides the grain of every module here: one action is one
committed statement (or one call of an external service), and anything else may
happen between two of them. Most database calls sit in a `try` whose `except` goes
on (`_safe_db_execute`, `_safe_execute`, `_safe_fetch_one`): a failing write is
lost without a word, a failing read is taken for "nothing there". So faults are
part of every module: a bounded number of statements may fail, anywhere.

| component | source | state | operations | hard behaviour | what makes it correct |
|---|---|---|---|---|---|
| job queue and worker | `worker.py`, `main.py` 2481-2530 | `queue_items`, `jobs`, `queue_attempts`, `dead_letter_items` | enqueue, cancel, claim, process, complete, fail, recover | leases that run out, crashes, settling in several commits, cancellation of a running job | one worker per item while its lease holds; bounded retries; nothing completed without work; the tables agree; every job settles |
| Redis queue backend | `worker.py` 187-352 | a sorted set of items beside the tables | the same, by id | every Redis call is a step of its own after a commit; nothing fills the set from the tables | no item queued in the table and missing in Redis, and the same promise as with the tables alone |
| connector failure isolation | `main.py` 1638-1900, 2115-2149 | `connector_runtime_policies`, `connector_metrics`, `connector_execution_log` | enforce, call, record outcome, log, change policy | check, call and record are far apart; policy changes in between | budget, breaker state and cooldown agree with what the connector has seen |
| workflow versions | `main.py` 799-824, 3325-3404 | `workflow_versions` | create, promote, rollback | read-check-write without a lock, requests on a thread pool | one version published, only vetted definitions published, published ones not edited |
| workflow execution caps | `main.py` 1902-1989, 3301-3322 | `workflow_runtime_policies`, `audit_logs` | check, execute, change | count, then log; both go on when they raise | the cap is exceeded by no more than the threads that count at once |
| HTTP middleware, idempotency cache | `main.py` 124-188 | `idempotency_keys` | look up, replay, execute, store | requests with the same key overlap; answer stored after the work | replays are faithful; an answered request does not run again |
| job intake | `main.py` 2481-2515 | `jobs.idempotency_key` | enqueue | check, then insert; NULL keys collide | one job per key |
| lifecycle and retention | `lifecycle.py`, `main.py` 3564-3584 | `retention_policies`, `dead_letter_items`, `dlq_archives` | set policy, seed, clean up | copy and delete are two commits; policy read long before it is used; restart re-seeds | evidence kept, retention honoured |
| approvals, publishing | `main.py` 2573-2766, `worker.py` | `approvals`, `approval_steps`, `social_posts`, `publication_bundles` | draft, build, decide, publish, jobs | decisions that race; a post and its approval are two INSERTs; a job that does not ask | what is published was reviewed; steps tell the status |
| release channels, release engineering | `main.py` 383-760, 3090-3300, 3408-3535 | `release_channels` and a memory per process, `release_publications`, the ZIP | publish, rollback package, plan, execute, upsert | the tree is read five times while it is edited; one ZIP path per version, truncated and written file by file | what is delivered was ready; a row tells the file it names |
| AI routing, registries | `main.py` 848-1041, 2381-2480, `ollama.py` | registries, artifacts, runs, audit | register, route, generate with fallback, seed | two readings of two registries; a fault between artifact, run and audit | the best model that was read; answer, artifact, run and audit agree |
| tenant access | `tenant.py`, `main.py` 83-148, 3600-3668 | `tenant_memberships`, `tenant_route_policies` | two gates per request, set membership, set policy, seed | each gate reads anew while administrators write; failing reads answered by defaults; seeds of a restart | members get in, others only where policy or role says so |
| row isolation | `tenant_row.py`, `main.py` 40-80 | `tenant_row_policies`, memberships | select, filter, deny, report | unscoped fallbacks; failing reads answered by defaults; two reports that repeat the decision | foreign rows only where a policy says so; own rows never lost; reports agree |
| connectors: credentials to live use | `main.py` 262-330, 1044-1640, `connectors.py`, `adapters/base.py` | `connector_credentials_meta`, registry, manifest tables, import files | preflight, matrix, readiness, deployment plan, bundle, persistence report, validate, smoke test | each report reads credentials again and writes what it read, key by key | plans lead to live use; metadata is true; "proceed" is said only when it is so |
| authentication | `auth.py` | role and scopes of a token or actor | decide | roles that change | scopes as `Publishing` uses them |
| retrieval, encryption, request building, metrics, scripts, n8n exports | several | none of their own, or formatting | - | - | - |

Interactions: the endpoints write the tables the workers poll; `fail()` fills the
table that lifecycle empties; the middleware wraps every endpoint; startup seeds
(`main.py` 110-120) overwrite rows operators have set. There are no callbacks
between components: everything meets in the database.

## 2. The modules

| module | extends | content |
|---|---|---|
| `JobPromise` | - | abstract: what the queue promises a client |
| `Queue`, `MCQueue` | - | the database queue: tables, endpoints, worker threads; implements `JobPromise` |
| `RedisQueue`, `MCRedisQueue` | `Queue` | the same with the sorted set of Redis beside the tables |
| `QueueProofs` | `RedisQueue` | theorems about both backends, and the refinement of `JobPromise` |
| `Idempotency` | - | requests that carry one idempotency key |
| `JobIntake`, `MCJobIntake` | `Idempotency` | the same, with `jobs_enqueue` as the handler |
| `IdempotencyProofs` | `JobIntake` | theorems about the cache, alone and with its handler |
| `WorkflowCaps` | - | the cap on executions of a workflow |
| `Publishing`, `MCPublishing` | `WorkflowCaps` | posts, bundles, approvals and jobs behind the cap |
| `PublishingProofs` | `Publishing` | reviews and the cap |
| `Release`, `MCRelease` | - | builds over an edited tree, and release channels |
| `Routing`, `MCRouting` | - | model and prompt registries, route and fallback |
| `Rollout`, `MCRollout` | - | connector reports, credentials and the tables they fill |
| `CircuitBreaker`, `MCCircuitBreaker` | - | failure isolation of one connector |
| `ConnectorProofs` | `CircuitBreaker`, `Rollout` | what the breaker knows, what the reports tell |
| `WorkflowVersions`, `MCWorkflowVersions` | - | versions of one workflow |
| `VersionsProofs` | `WorkflowVersions`, `Release` | what is published and what is delivered |
| `Lifecycle`, `MCLifecycle` | - | retention of dead letters |
| `EvidenceProofs` | `Lifecycle`, `Routing` | what is left to show: copies of letters, records of answers |
| `TenantAccess`, `MCTenantAccess` | - | which tenant a request may work for |
| `TenantProofs` | `TenantAccess` | who is admitted |
| `RowScope`, `MCRowScope` | - | which rows a request is then shown |
| `RowProofs` | `RowScope` | which rows those are |

The modules of proofs also extend `TLAPS` and the library's theorems about finite sets,
sequences and well-founded orders. A module of proofs that extends two components composes
nothing: each has its own specification, and the theorems are about one or the other.

Three modules compose components: `RedisQueue` adds a second store to the steps of
`Queue`, `JobIntake` puts the handler behind the middleware, `Publishing` builds
bundles behind the cap. The others share no table another one decides on, except
`dead_letter_items`, which `Queue` fills (`InsertDeadLetter`) and `Lifecycle` takes
as given (`Bury`), and the memberships, which `TenantAccess` and `RowScope` each
let administrators change.

**JobPromise** and **Queue.** A job is pending until it has been worked on to its end,
has failed more often than `max_retries` allows or was cancelled, and then does not
change any more, unless it was disturbed. `Queue` implements this under the mapping
`P` at its end. A job and its queue item are one element of `Jobs`. `pc[t]` is the next
statement of `_process_claimed_item` on pool thread `t`; `snapshot[t]` is the
`retry_count` the claim returned, from which `fail()` decides. `Claim` and
`Recover` are the two outcomes of `CLAIM_SQL`, which recovers lapsed leases and
claims one item against the same snapshot. Clock readings are replaced by the
outcome of the comparisons (`lease`: none, live, lapsed; `available`), and
`LeaseLapses` and `BecomesAvailable` are time passing. Faults are a raising
statement (`StatementRaises`, `CancelRaises`, `ClaimRaises`) and the death of a
worker process (`Crash`). `worked`, `overrun`, `overlap` and `torn` are history: no
guard reads them.

**RedisQueue.** `ready[j]` is the entry of item `j` in the sorted set. `intake` and
`unlisting` are requests between their transaction and their Redis call; `poll[w]`
is where `claim_batch` of worker `w` is: recover rows, put them back into the set,
scan, remove a candidate, claim it by id. Threads have three further states for the
Redis call after each of their updates. `late` and `dropped` are history.

**Idempotency** and **JobIntake.** Requests with one key and route of one tenant.
`Miss`, `Execute` and `Store` are the lookup, `call_next` and the INSERT, with awaits
between them. The table has a UNIQUE constraint and the INSERT no ON CONFLICT, hence
`Inserted`. `JobIntake` splits `Execute` into the statements of `jobs_enqueue`: the
lookup of the body's key, the INSERT under UNIQUE NULLS NOT DISTINCT, the mirror,
the answer.

**WorkflowCaps** and **Publishing.** A caller reads the cap's policy, stores it if there is
none, counts `audit_logs`, logs its execution; `Publishing` asks before it builds a
bundle. `status`, `approval`, `requester` and `trail` are the rows of an artifact and the
last step of its approval; `scopes` are the actors' roles. `/publish` looks at the
approval it finds and publishes in a later statement; a job publishes what it is
told. `reviewers` and `held` remember who decided with which scopes, `unasked` and
`byJob` how a post came out otherwise, `blurred` the artifacts two requests were at
once. The three reads of an actor's scopes are one step.

**Release.** A build reads the tree for the manifest, the checksums and both again in the
preflight, then writes the ZIP, hashes it and inserts its row. `package[path]` is the
file at a path that all builds of one version of a tenant share. `OpenZip` truncates it, and
until `CloseZip` it is `Torn` for whoever copies, hashes or opens it; a write that breaks off
(`AbandonZip`, a restart) leaves it so. Of two writers at a time, the one that goes on tears
what the other has closed (`Append`), and what the last one closes is all of its own or parts
of both. `memory[p][t]` is what process `p` remembers of a channel the table does not hold.
`stirred` (the tree was edited under the request) and `contended` (another request wrote the
file since this one opened it, until its checksum or copy) are history.

**Routing.** A registry is a sequence of rows, last registered first. A route reads the
models, then the prompts, each answered by built-in rows when it raises, and is
resolved from both (`Resolve`). A search through the rows is the least of a set of
places (`First`), a filter what is kept at a set of places (`Kept`). `Generate` tries model
after model; `Store`, `RecordRun` and `WriteAudit` are the records an answer leaves.
`StartAgain` writes the seeds again, over what an operator registered under their names.

**Rollout.** A report is a sequence of passes: over the credentials of each service
(read for what is missing, read again for what is present, written to
`connector_credentials_meta`), over the manifest, or over one table. A bundle makes the first
two three times. Auth types with alternatives (a bearer token, or the trio of a
client; a refresh token, or a bearer token) decide what is missing.
The data lifecycle cleanup deletes old rows of two of the tables (`CleanUp`).
`calm` and `alone` remember whether anything changed under a request, `told` the
tenants whose metadata must be true, `cleaned` the tables that the cleanup has emptied since
a request began. All keys of one service are written in one step.

**CircuitBreaker.** `connectors_execute_live` is a coroutine that never suspends, so
a server works on one request at a time; `Servers` are processes. `circuit`,
`failures` and `openedAge` are the `connector_metrics` row; `logged` counts the rows
of `connector_execution_log` by age, since the budget counts those of a window. The
history (`calls`, `streak`, `tripped`, `sinceTrip`) is what the connector itself
has seen, and the properties compare the table with it; `together` remembers that two
servers were at work at once.

**WorkflowVersions.** A request reads (`CreateRead`, `PromoteRead`, `RollbackRead`),
then writes in later steps. `raced` is the set of versions somebody wrote between
another request's read and its write; `promise` is how many published versions the
promotes so far should have left.

**Lifecycle.** `age` in days; `ReadPolicy`, `Count`, `Fetch`, `Archive`, `Delete` and
`Sweep` are the statements of `run_data_lifecycle_cleanup`. `asked` is the policy
the operator was last told is in force, `promised[c]` its value when cleanup `c`
read the policy.

**TenantAccess.** A request is a token (actor, home tenant, role) that asks for a
tenant and a route. `Resolve` is `resolve_effective_tenant`, the first gate;
`ReadPolicy` and `Decide` are the two reads of `enforce_tenant_route_policy`, the
second. The middleware does not suspend between them, but administrators' requests
run on the thread pool and in other processes, so `SetMembership` and `SetPolicy` may
come between any two reads. Routes are the prefixes of policies by their
`resource_type`; `"system"` is `/`, a prefix of all. A read that raises is answered
as its `except` answers: no policy rows by the defaults of the code, memberships by
`Fallback`. `since` is history: what was in force at some moment since the request
arrived; `blind` remembers the reads that raised. The model starts from a service
that has seeded its tables once.

**RowScope.** A query is a list, a catalog or a job status. `Select` reads the rows of the
tenant (`SelectAnywhere` is the job status's unscoped second try), `ReadMembers` and
`ReadPolicy` what `enforce_tenant_row_policy` decides from, and `Shows` is the filter.
`ReportReason` and `CoverageReported` are the reports' own code. A row is its
`tenant_id`; `since` is the history of policies in force. `settings` (strict mode, the
administrators' override) are chosen once, in `Init`.

## 3. The runs

All bounds are constants in the configurations, or named in the MC module. "Faults" bounds
failing statements and crashes together.

| run | instance | states | shows |
|---|---|---|---|
| `queue_processes` | 2 worker processes; 1 job that may fail twice with 2 faults, or 2 jobs of one priority that do not fail; fair | 439k | exclusion, agreement of the tables, finality, the promise, and that every queued job is settled. Two processes are the least that can hold one item; two retries give a first, a middle and a last failure; two faults let a crash follow a failed recovery of another; two jobs wait for each other in the claim order. |
| `redis_queue` | 1 job, 1 retry, 2 worker processes, 1 fault, fair | 558k | no queued item is lost from the set outside the named cases; every other one is settled; the promise is kept |
| `intake` | 3 requests with a key in the body, 2 without, all with one header key, 1 fault | 956k | replays are faithful, an answered request does not run again, everybody is told the job of his key |
| `publishing` | 2 threads, 2 actors, 1 post, 1 bundle, 3 requests, 1 fault or crash, 1 change of roles or of the cap | 1.1M | what is published was reviewed, steps tell the status, the cap holds. Three requests are draft, decide, publish, or three that ask for the cap at once. |
| `release` | 2 requests at a time, 1 file, 1 edit, 1 fault or restart | 3.1M | what a file drop delivers was ready, a row tells its package. Two builds are the least that share a path and write it at a time; one file suffices, being there or not. |
| `routing` | 1 caller, 2 seeds of each registry, 3 registrations, 2 faults or restarts | 947k | the best route of what was read, and records that agree. Callers share nothing but the registries, which change under the one there is. |
| `rollout` | 2 callers, 2 connectors, 2 requests, 1 change or fault | 1.2M | plans are coherent, metadata is true, "proceed" is said only when tables are filled, and they are so until a cleanup. The connectors are one with a bearer token or a client, and one with a refresh token or a bearer token. |
| `breaker` | 2 servers; policies on, off and tighter with 1 fault and 1 broken call, or servers together under one policy | 519k | budget, breaker and cooldown |
| `versions_race` | 2 requests, 2 versions, 2 definitions, 1 fault | 1.3M | the gate to publication, and exactly one version published where nothing crossed, raced or failed |
| `lifecycle` | 2 letters, 2 cleanups, 2 policy changes, 1 restart, 2 faults | 617k | evidence and retention |
| `tenant_access` | 1 request at a time of 2 actors (one bootstrap user), 2 tenants, a guarded route and `/`, 2 policies to choose from, 2 changes, 2 faults | 868k | who is admitted and who is denied. Two changes let a membership or policy be set and taken back under one request; two faults let both reads of memberships fail. Requests do not write what others read, so one at a time is enough. |
| `rows` | 1 query at a time of 4 tokens, 2 tenants, 2 tables, 3 policies to choose from, 2 changes or restarts, 1 fault | 912k | which rows are shown, and that the reports agree with the decision |

Deadlock checking is off in the runs whose instance may stop: the queues' and `intake`'s,
where all jobs are settled or all requests answered, and those of `publishing` and
`rollout`, where the requests are used up. Symmetry is used in safety runs only,
over sets nothing in the module orders. Each property of a passing run has a
mutant in `PROJECT.json`, a plausible bug under which TLC finds it violated. `TypeOK`
is an invariant of the runs of `Queue`, `Publishing`, `TenantAccess` and `RowScope`; the
type invariants of all modules with theorems are proved, as part of the inductive
invariant of each.

In `MCQueue` and `MCCircuitBreaker` the next-state relation is restricted by a named
bound (`TroubledAlone`, `OneTrouble`), which joins two instances in one run: what
fails, fails while one job or one server is there. No action under fairness needs a
step the bound forbids.

Several properties hold with an exception that is part of the statement, because
that is as far as the code's promise goes. Each exception is a deviation a reader
should know:

* a lease is never renewed or checked, so items are exclusive only until overrun
  (`ExclusiveUnlessOverrun`);
* a cancellation does not stop the worker: `complete()` and `fail()` write by id alone, so a
  job cancelled while it runs becomes completed or queued again (`JobPromise!Open`;
  `worker.py:367` against `docs/API_REFERENCE.md:111`);
* `fail()` commits `dead_letter` before the dead letter, so a fault in between
  loses it (`RowsAgreeAtRest` exempts `torn`, against
  `docs/QUEUE_AND_RETRY_GUIDE.md:27`);
* an exception after `complete()` has committed its first update fails a completed
  item (`SettledIsFinal` exempts `torn`);
* a queued item whose Redis entry is lost (a fault, an overrun lease, or a worker that takes
  out an entry newer than the one it saw) is never claimed again (`Astray`);
* the second job of a tenant without an `idempotency_key` is always refused
  (`RetryIsAnswered` speaks of requests with a key; two `/remind` commands collide
  the same way), and a job row may be inserted of which the client is told nothing;
* a connector call that ends in an unexpected exception uses no budget
  (`BudgetRespected` adds `broken`), refused requests are logged like executed
  ones and use it up (`Log`), and each refusal of an open circuit starts the
  cooldown anew, so clients that retry keep it open (`RejectOpen`; `main.py:1797`
  against `docs/FAILURE_ISOLATION_GUIDE.md:18`);
* `create` may overwrite a version published since its check (`PublishedIsKept`
  exempts `raced`), promote may publish a definition nobody vetted
  (`PublishedIsVetted` exempts it too), and two promotes that cross leave two versions
  published (`OnePublished` promises nothing then; `main.py:3379` against
  `docs/API_REFERENCE.md:106`);
* a failing copy of a dead letter does not keep its row (`EvidenceKept` allows
  one letter per fault, against `docs/DATA_LIFECYCLE_GUIDE.md:29`);
* the seed of a start puts the default retention in place of the operator's
  (`RetentionHonoured` exempts restarts; `lifecycle.py:60` against
  `docs/CREDENTIALS_AND_ENV_GUIDE.md:81`);
* a bootstrap user whose memberships cannot be read passes the first gate into any
  tenant, and the second where the route's policy asks for no membership
  (`OutsidersStayOut`); a failing read of the policy replaces the tenant's own policy
  by the defaults of the code (`BoundRoutesNeedMembership` exempts it);
* `/publish` takes a post without an approval row for approved, and the publishing job
  asks nobody (`PublishedWasReviewed` exempts `unasked` and `byJob`); a decision
  does not look at the one it replaces (`StepsTellStatus` exempts `blurred`);
* the cap is exceeded by requests that count at once and by executions whose log row
  was lost (`CapHonoured`);
* a file drop delivers what the shared ZIP path holds, judged by a readiness of before the build
  (`DeliveredWasReady` exempts an edit in between), a half-written or mixed one where another
  build writes the path at the time (`DeliveredWasReady` exempts a torn file of a contended
  request), and a row may name the checksum of another build's file or of a torn one
  (`RowTellsPackage` exempts `contended`);
* a persistence report says to proceed and the cleanup empties `smoke_test_results` or
  `connector_execution_log` while it runs or before it is read (`ProceedIsTrue` exempts `cleaned`);
* a slow report overwrites credential metadata that a later one has written
  (`MetaTellsCredentials` asks for a report that ran alone).

Met while reading, and shown by no run:

* tenants: a stored policy for `/` hides the stricter defaults for `/secrets/`;
  `tenant_settings` is written and never read; the enforcement report does not know
  the relaxed branch of the gate it reports on; every start sets revoked memberships of
  bootstrap users active again;
* rows: `enforce_row_isolation_for_route` (`tenant_row.py:580`) is never called, although
  `docs/WORKLOG.md:161` says the middleware evaluates row policies;
  `upsert_tenant_query_scope_target` (`tenant_row.py:867`) passes `fetch='one'` to
  `execute`, which has no such parameter, so the target is never stored; the coverage report
  is refused at the first denied target; the isolation report uses the requested tenant's
  policy, the enforcement the effective tenant's; rows of the connector list have no
  `tenant_id`;
* publishing: stored approval policies are not consulted by `approval_transition`; approving
  a bundle does not make it `ready`, only the job does, which asks nobody;
* release: executions are recorded under the default tenant whatever tenant asked
  (`main.py:633`, against `tenant_row.py:247`) and listed twice; the webhook never sends
  its auth header; a blocked build or a plan's preview overwrites the published
  ZIP; the checksum validation misses files added since the manifest;
* routing: the seeds of a start overwrite a re-registered model and move it to the
  front; a failed run is recorded without `fallback_used`; invalid JSON does not try the next
  model; a JSON text that is a number raises in the validation; an audit record that raises leaves
  an artifact without an answer; declared fallbacks are not filtered by what they can do;
* rollout: the plan's import count includes connectors that need credentials, the readiness
  report's does not; a base URL that is not among the required credentials counts as configured when
  unset; a missing base URL hides that the client's trio is missing; validate and smoke test write
  under the default tenant; the persistence report counts the rows of all tenants; an unknown
  service name raises after the preflight was persisted; credentials are resolved under
  the default tenant;
* `get_pool` (`db.py:15-28`) creates the pool with `open=False` and nothing opens it; all modules
  assume a pool that is open.

### Fairness

Only the runs of the two queues assume it, for `QueuedIsSettled` and
`ListedIsSettled`. `Queue!Fairness`: weak fairness of
`LeaseLapses` and `BecomesAvailable` is the passing of time. Weak fairness of
`Poll(t)`: `run_forever` polls for ever while a thread is free, after at most
`queue_poll_seconds`, and a process that dies is assumed
to be started again: `deploy/docker-compose.yml` states no restart policy, so this
is the operator's part. The liveness result is worth nothing where all workers stay
down. Weak fairness of `ThreadStep(t)`: a submitted future runs, and the
handlers of `process()` return or raise. Weak fairness of `Submit(w)` and
`CancelItem(j)`: straight-line code. Nothing forces `Enqueue`, `CancelJob` or a
fault. Strong fairness is not assumed: a free thread that may claim stays able to
claim or recover something, because a locked row is released by the next step of
its thread. `FairRedisSpec` is the same with the further steps of
`RedisQueue`: an entry becomes due (`EntryDue`), a request that has committed goes on to
Redis, and `claim_batch` runs to its end (`PollStep`).

## 4. The proofs

Checked by TLAPS, for all values of the constants that satisfy the module's ASSUME:

| theorem | statement |
|---|---|
| `QueueTypeOK` | `TypeOK` of the queue |
| `QueueInvariant` | the inductive invariant `QueueInv` below |
| `QueueExclusion` | `ExclusiveUnlessOverrun` |
| `QueueRetryBudget` | `RetryBudget` |
| `QueueSettledIsFinal` | `SettledIsFinal`, an action property |
| `QueueCompletedWasWorked` | `CompletedWasWorked` |
| `QueueRowsAgree` | `RowsAgreeAtRest` |
| `QueueKeepsPromise` | `Promise`: `Queue` implements `JobPromise` |
| `RedisQueuedIsListed` | `QueuedIsListed`, of `RedisSpec` |
| `RedisExclusion` | `ExclusiveUnlessOverrun`, of `RedisSpec` |
| `RedisRetryBudget` | `RetryBudget`, of `RedisSpec` |
| `RedisKeepsPromise` | `Promise`: `RedisQueue` implements `JobPromise` |
| `IdempotencyTypeOK` | `TypeOK` of the cache |
| `IdempotencyReplaysAgree` | `ReplaysAgree` |
| `IdempotencyRunsOnce` | `AnsweredRunsOnce` |
| `JobIntakeTypeOK` | `IntakeTypeOK` |
| `IntakeReplaysAgree` | `ReplaysAgree`, of `IntakeSpec` |
| `IntakeRunsOnce` | `AnsweredRunsOnce`, of `IntakeSpec` |
| `IntakeToldItsJob` | `ToldItsJob` |
| `IntakeRetryIsAnswered` | `RetryIsAnswered` |
| `PublishingInvariant` | the inductive invariants `ReviewInv` and `CapInv` below |
| `PublishingTypeOK` | `TypeOK` of publishing |
| `PublishingWasReviewed` | `PublishedWasReviewed` |
| `PublishingStepsTell` | `StepsTellStatus` |
| `PublishingCapHonoured` | `CapHonoured` |
| `TenantAccessInv` | the inductive invariant `AccessInv` below |
| `TenantTypeOK` | `TypeOK` of the gates |
| `TenantOutsidersStayOut` | `OutsidersStayOut` |
| `TenantBoundRoutes` | `BoundRoutesNeedMembership` |
| `TenantMembersGetIn` | `MembersGetIn` |
| `RowScopeInvariant` | the inductive invariant `RowInv` below |
| `RowTypeOK` | `TypeOK` of the row scope |
| `RowForeignExplained` | `ForeignRowsExplained` |
| `RowOwnShown` | `OwnRowsShown` |
| `RowReportsAgree` | `ReportsAgree` |
| `VersionsTypeOK` | `TypeOK` of the versions |
| `VersionsPublishedIsVetted` | `PublishedIsVetted` |
| `VersionsOnePublished` | `OnePublished` |
| `VersionsPublishedIsKept` | `PublishedIsKept`, an action property |
| `ReleaseInvariant` | the inductive invariant `ReleaseInv` below |
| `ReleaseTypes` | `ReleaseTypeOK` |
| `ReleaseDeliveredWasReady` | `DeliveredWasReady` |
| `ReleaseRowTellsPackage` | `RowTellsPackage` |
| `LifecycleTypeOK` | `TypeOK` of the cleanup |
| `LifecycleEvidenceKept` | `EvidenceKept` |
| `LifecycleRetentionHonoured` | `RetentionHonoured`, an action property |
| `RoutingInvariant` | the inductive invariant `RoutingInv` below |
| `RoutingTypes` | `RoutingTypeOK` |
| `RoutingRouteIsBest` | `RouteIsBest` |
| `RoutingAnswerIsRecorded` | `AnswerIsRecorded` |
| `BreakerTypeOK` | `TypeOK` of the breaker |
| `BreakerKnows` | `BreakerKnowsConnector` |
| `BreakerCooldown` | `CooldownHonoured`, an action property |
| `BreakerBudgetInvariant` | the inductive invariant `BudgetInv` below |
| `BreakerBudget` | `BudgetRespected` |
| `RolloutInvariant` | the inductive invariant `RolloutInv` below |
| `RolloutTypes` | `RolloutTypeOK` |
| `RolloutPlansAgree` | `PlansAgree` |
| `RolloutMetaTells` | `MetaTellsCredentials` |
| `RolloutProceedIsTrue` | `ProceedIsTrue` |

So every invariant and every action property that a run checks is proved, for any number
of callers, threads, rows, faults and restarts, and with the exceptions that section 3
names. A theorem also holds of fair specifications, which have fewer behaviours.

*Queue.* Exclusion is not inductive: nothing in it says why a second claim is impossible.
The strengthening ties the table to the threads. An item has a lease exactly while
it is `running` (`LeaseIffRunning`); an item that was not overrun and that a thread
holds is running, completed or cancelled, its lease has not lapsed, and its
`retry_count` is the thread's snapshot (`HolderKnowsRow`). A claim needs `queued`, a
recovery needs a lapsed lease, and a lapse under a holder puts the item in
`overrun`: hence two holders only in `overrun`. The retry budget follows because
without an overrun the snapshot is the row's count, so `fail()` decides on the
truth. A holder that has not written its outcome still finds the item running or
cancelled, unless it was cut inside its settling (`UnsettledUntilWritten`): so a
settled item is not written again. `QueueProofs` has one lemma per action, over
frame lemmas for the steps that leave `queue_items` alone. `RetryBudget` and
`CompletedWasWorked` are proved and no longer model-checked.

*Rows of the queue.* The tables agree at rest because each sequence of updates ends in
agreement (`RowsInv`): the rows of a job that nobody disturbed are sound, and while a
thread is settling it they are as far apart as its place says (`Underway`). Two threads
cannot be underway on such a job, which `QueueInv` excludes.

*Promise.* `QueueProofs` shows that every step of `Queue` maps to a step of
`JobPromise` or a stutter. Only `Enqueue`, `CancelItem`, `CompleteItem`, `FailItem`,
`ProcessReturns` and the steps that disturb a job change what a client sees. The
mapping needs the invariants above (who completes has worked; who fails an undisturbed
job decides from the row's own count) and one more, `KnownInv`: whoever is on a job
found its row, with a count no larger than it is now, and rows do not go away. This
is what makes a dead letter after an overrun still one after more failures than
`max_retries`.

*RedisQueue.* A job is on track (`OnTrack`) until one of the named cases leads it astray.
`SoundInv` says that such a job is in one place: it has an entry in the set, or its
request or a thread is about to add it, or one worker has it in hand between `zrem` and
the claim by id, or one thread is at work on it; and its row is what that place asks
for. So a queued item without an entry is one somebody is about to list. For the
promise, `KeptInv` repeats what `QueueInv` and `KnownInv` say of a thread that keeps an
item until it has acknowledged it, and every step of `RedisQueue` maps to a step of the
promise or a stutter: the sorted set decides when a job is worked on, never what
becomes of it.

*Idempotency.* An answer stored is that of an executed request and is never
replaced; a request that was answered by another was answered by the one stored,
with the same body. The strengthening adds that a request about to store has run.
`AnsweredRunsOnce` counts requests that ran although an earlier one had been answered, and
allows one per fault. `FaultsExcuse` is the account behind the count: a set `A` of requests whose
lookup raised and a set `S` of those whose answer was lost, together no larger than the
faults, such that whoever runs outside `A` came after requests of `S` only, or met a row for
another body. Each faulty step adds one element to one of them.

*JobIntake.* The constraint makes a key name one job (`OneJobPerKey`), a handler that is
past its INSERT knows it (`HandlerKnowsJob`), and an answer that is about to be stored, is stored
or was given has a handler that is through (`StoringIsThrough`, `StoredIsThrough`,
`AnswerIsThrough`). For `RetryIsAnswered`, whoever arrives after an answer looks the job up
after it was made (`BeforeIsAnswered`, `NewHasNotLooked`), and without a fault who inserts a key
found none (`InsertsNewKey`).

*Publishing.* What a request knows when it acts lasts: an artifact has one creator until
it has an approval, the approval is never taken back, and reviewers and scopes once held
are never forgotten (`TablesSound`, `CallerSound`, together `ReviewInv`). The cap is honoured
because a thread that was granted the window counts until it has logged: `CapInv` adds up the
executions that were logged or whose log row was lost and the threads in `Logging`, and leaves
room for one more below the loosest cap, the number of threads and the faults together.

*TenantAccess.* What an admitted request was allowed for is decided in three reads at
three moments. The strengthening keeps what each read established: the history
covers the present while a request is on its way (`SinceCoversNow`), a request behind
the first gate had a reason to pass it (`PassedFirst`), and a policy that was read
without a fault was in force since the arrival (`ReadInForce`). History only grows, so
a write of an administrator breaks none of them. The assumptions say that there are
actors, the default tenant and the prefix `/`.

*RowScope.* The same history argument: while a query is under way the policy in force is
among those of its history (`SinceCoversNow`), and nothing is shown before the answer
(`NothingYet`). The policy that filters is one of them, or the default of the code, which shares
nothing: so it explains every foreign row. `ReportsAgree` is proved of every state in which
the policies are typed, by the cases of the two decision chains.

*WorkflowVersions.* Each request decides from a read and writes later. The
strengthening (`VersionsInv`) says what its read is still worth: the definition a
request is about to write fits what it read, a version that nobody raced for and
that a promote has let through is vetted (`GateHolds`), and a create that finds its
version published when it writes has raced or met a fault (`CreateMayWrite`). Of
promotes that do not cross at most one is between its two updates, and only then
may nothing be published although something is promised (`OneBetween`).

*Release.* What a caller whose tree was left alone has read is what the tree holds (`Fresh`), the
listing that it packs among it. If it judged the build publishable, the file at the path it will
deliver is `Deliverable`, written by whomever: it says that it was made from an edited tree, or
it is published and complete; or it is torn, and the caller contended. `Sound` carries this
through the places of a build and a delivery, and beside it that the file a caller has yet to
hash is its own, unless another wrote the path (`contended`). Who has the file open can tear it
in any later step, so the invariant needs to know them: whoever holds a file that somebody else is
writing is contended already (`Apart`), because one of the two has opened it beside the other.

*Lifecycle.* `EvidenceKept` is a bound on a cardinality, so the strengthening names
the set it bounds: `Lost` holds the letters that are gone without a copy or are
about to go after their copy failed, and has at most `faults` elements, because
only a failing copy adds one. A sweep that keeps no copy was told so
(`SweepsUnkept`). Retention needs three more facts: what was fetched was old
enough for the policy that was read (`FetchedIsOld`), that policy is the one
promised or the default after a restart or a fault (`ReadIsPromised`), and the
policy in force is the one asked for, with the same exception (`PolicyIsAsked`).

*Routing.* A registry may have any length, and what a search, a filter or a removal of
duplicates returns must be said without induction over it. A search is the least of a set
of places, which exists because the naturals are well-founded (`LeastPlace`, `FirstChoice`).
A filter numbers the places it keeps, and the numbering is onto because an injection
between finite sets of one size is (`RankOnto`, `KeptIs`). From these follows what each
part of `Resolve` returns (`ModelIsBest`, `FallbacksAre`, `AttemptsAre`, `PromptForAction`), in
`ResolvedIsBest`. `RouteIsBest` needs one fact about the registries: rows with one key are
one row (`Unique`), since a model is found again by its name; it is kept by registrations
and starts, and the seeds are assumed to be told apart. `AnswerIsRecorded` follows from what
the place of a request says of its records (`RecordsOf`), and a route stays that of what was
asked and read (`RoutedOf`).

*CircuitBreaker.* The claims are about servers that take turns with an answering
database, and policies of one threshold and cooldown (`Calm`); a step never leads back
there. Then `tripped` says whether the streak has reached the threshold, and
while nobody has an outcome to record the row agrees with it (`RowKnown`): an
open circuit has been open no longer than since the last failure, and one that is half open
has seen the cooldown pass. `At(s)` carries this across the steps in which an
outcome is known and not yet written, one clause per place in the handler.

The budget is about calls of every window, however long. `Matched` says for every age that
there are no more calls up to it than rows of the log, servers that have yet to write theirs,
lost statements and calls that broke off; `Bounded` that the calls of the window and those of the
servers that have counted and not yet called stay within the budget, its excuses and the other
servers that may have counted with them. Rows and calls are counted as sets of pairs (`UpTo`),
which the theorems about finite sets reach, where a sum over ages would need induction.

*Rollout.* A report is told from many readings. `Shape` says that what remains of its passes
and what was passed over make up the passes of its kind, one finding for each. On this
rest four claims: what a persistence report took for enough is enough still, or the cleanup has
emptied it since the report began (`FoundEnough`);
whoever is about to write metadata while a tenant relies on it, or might come to, carries the
truth (`Trustworthy`), and so do the rows that a calm request has written (`WrittenIsTrue`);
what a calm request has seen is the truth (`CalmSees`); and the steps told for an item are
coherent, whatever was read of it, by cases of the connector (`PlansCoherent`), so a bundle that
nothing disturbed tells one story (`BundlesTrue`).

Two definitions were wrong before their theorems could be proved, in a way no run had shown: the
branches of the delivery in `Release` and of the missing credentials in `Rollout` overlapped, so
that a CASE left open which one applied. They are disjoint now, in the order of the code.

Assumptions. Most type a constant (a bound is a natural number, a default is one of its kind, a
null is no member). Those that say more: the requests of `Idempotency`, the servers and the credential
keys are finite; requests with one body have one key (`JobIntake`); posts are no bundles; the
default retention is enabled, with days and a batch (`Lifecycle`); the cooldown is within
what the model tells apart of ages (`CircuitBreaker`); the catalog is a finite sequence whose
connectors each have an operation, and only known keys are missing (`Rollout`,
`MissingAssumption`); the seeds of a registry have distinct keys, and a model has no version
(`Routing`).

Only model-checked: liveness, `QueuedIsSettled` and `ListedIsSettled`. They need fairness and
ENABLED, which the prover does not reach. What `Resolve` computes is proved as far as
`RouteIsBest` says it; the rest of its order (which of several equal rows) is as defined.

## 5. What is not modelled

Left out for good: retrieval scores, text and SQL construction, HTTP request building,
encryption, token decoding, reports and metrics that no decision reads, the generated
n8n exports, and the scripts. Inside the modelled parts, heartbeats, events, audit rows and
counters nobody reads back are left out; `PROJECT.json` says so per component.

Bounds of faithfulness worth naming: the three scope reads of an approval are one step; a
pass over the tree, the copy of a file, its checksum and the keys of one service's metadata are
atomic (a copy or a checksum during which another build truncates the file comes to one of the
torn file just after); the files that come and go while a ZIP is written are in it or not as
they please, but one that is there throughout is in it; the release run never takes the
branches of the delivery for a webhook, a dry run or a missing bundle, nor publishes without
the preflight and the checksums (`strict`), all of which the theorems cover; one
tenant's registries are modelled; the number of crashes is bounded, so an item that kills
every worker that runs it, which is recovered for ever and never dead-lettered
(`worker.py:22`), is outside the runs.

## 6. Plan

Done: the modules above. Next, in this order:

1. Proofs: an abstract specification of what `Publishing` and `WorkflowVersions` promise, as
   `JobPromise` is for the queue, and its refinement.
2. `Lifecycle`: the other resources, and `lifecycle_runs`.
3. `TenantAccess` with `RowScope` behind it, one request through all three decisions.
4. Decision functions against reference tables: `compute_retry_delay_seconds`, the
   chunking of retrieval.
