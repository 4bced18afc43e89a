# Formal models of SCLib

SCLib is a library of superconductivity papers and materials: a FastAPI service
over PostgreSQL and Redis, an ingestion pipeline, a Next.js frontend, and a
private compute staging plane that hands calculations to remote nodes. Most of
the repository validates, transforms or renders scientific records. The parts
collected here are the ones where several processes, clocks and crashes meet:
who may work on what, what happens when an answer is lost, and what is true
after a restart.

`PROJECT.json` lists the components, the runs, the correspondence between
definitions and source lines (`map`), the hazards of the code with the
properties that cover them, the faulty variant that shows each property can
fail, and the theorems.

## Inventory

| Component | State it keeps | Operations | What makes it hard, and what correct means |
|---|---|---|---|
| Compute store (`scripts/sclib_compute/store.py`) | one SQLite file: nodes, jobs, attempts, claims, blobs, artifacts, accounting | register, enqueue, claim, heartbeat, upload, complete, fail, cancel, drain, reconcile | leases expire by the wall clock, read more than once in a transaction; nodes and operators race. One live attempt per job and per node, one accepted result, retries only after a grace period, every reservation counted once, every job ends |
| Compute API (`api.py`, `sclib_compute_service.py`) | none | HTTP routes, identity and grant checks | every route is one store call |
| Dummy worker (`worker.py`, `sclib_compute_dummy_worker.py`) | `state.json`, `worker.lock` | register, claim, execute, save the outbox, upload, complete, acknowledge | crashes between any two steps, lost answers, calls that arrive late. No lease is forgotten, bytes that were staged can be sent again, every claim is closed unless the store never takes its output |
| Native worker (`native_worker.py`, `native_supervisor.py`) | `state.json`, the attempt's directory, two further processes | claim, prepare, start a guardian, archive, send | worker, guardian and solver die independently. One launch per attempt, nothing archived that still runs, a solver that ends with its lease |
| PBEsol execution (`pbesol_*.py`) | custody files | prepare, run once, take custody | validation of files |
| Background job coordinator (`api/services/background_jobs.py`, `api/models/background_jobs_v1.py`) | `background_job_cycles`, a PostgreSQL session lock per job | take the lock, claim the due cycle, run the handler and record the result in one transaction, release | all API replicas poll; a process may die around COMMIT. Cycles succeed in order, their effects are committed exactly once, a crashed cycle is recovered |
| Job handlers (`stats_refresh`, `timeline_projection`, `audit_runner`, ...) | application tables | one SQL transaction each | atomicity comes from the coordinator. The projection must not miss a source that commits after it was read past |
| Materials NER queue (`ingestion/ingestion/materials_ner/store.py`) | SQLite jobs and attempts, a hold file | enqueue, claim, heartbeat, finish, supersede | lease expiry and late results, one-pass policies. An exclusive lease with an exact budget |
| Reviewed reader (`reviewed_reader.py`) | one directory of immutable files per attempt, a lock per job | run, recover, hold | crashes around a paid provider call. The call is made once and never denied |
| Ingestion pipeline (`ingestion/ingestion/`) | PostgreSQL, vector index, object storage | collect, parse, extract, embed, index | sequential; restartable batches |
| Index generations (`index_generations.py`, triggers) | generations, corpora and their partitions, validations, activation events | stage, validate, activate, roll back | compare-and-set on a pointer read earlier; corpora staged partition by partition; a second version takes over. One history, and only current papers |
| Publication queue and publisher (`retrieval_publication_queue.py`, `publisher/`, `retrieval_activation.py`) | jobs, claims, contents, builds, activation events | enqueue, plan, build, accept, activate, report, supersede | leases against slow publishers, shared contents, rollbacks. What is reported is served |
| Provider circuit breaker (`provider_resilience.py`) | failures and opening time per provider | call with timeout and retry, reset | shared by concurrent calls and abandoned threads |
| Quotas (`rate_limit.py`, `routers/deps.py`) | Redis counters | consume, read | keys named before midnight and counted after it, expiry |
| Release cache (`priority_release_cache.py`) | entries, bytes, verifications, waiters | read a verified file, clear | threads, replaced files, limits |
| Response caches (`catalogue_cache.py`, `routers/timeline.py`, `routers/materials.py`) | pages by revision, build locks | read, build, store | commits between the statements of a request |
| Authentication, search and ask, source tasks, research publication, discovery, ML governance | PostgreSQL rows | request handlers | mostly validation and append-only records |
| Frontend, migrations, operations | | | rendering, schema, deployment |

Interactions: a worker calls the compute API, which calls the store; an operator
calls the same API. The API replicas share PostgreSQL and coordinate background
jobs through it alone. The ingestion pipeline writes what search and ask read,
through index generations. The compute plane is kept apart from the production
database on purpose.

## Modules

| Module | Models | Uses |
|---|---|---|
| `ComputeStore` | the coordinator of the compute plane | |
| `ComputeStoreProofs` | its theorems: its invariants, what becomes of its jobs and attempts, the store as a lease | `ComputeStore`, `FiniteSumProofs` |
| `ComputeWorker` | dummy workers, lost and late calls, crashes, together with the store | `ComputeStore` |
| `ComputeWorkerProofs` | its theorems | `ComputeWorker`, `ComputeStoreProofs` |
| `BackgroundJobs` | the background job coordinator | |
| `BackgroundJobsProofs` | its theorems | `BackgroundJobs` |
| `ExclusiveLease` | abstract: what a durable queue promises its clients | |
| `NerQueue` | the materials NER queue | `ExclusiveLease` |
| `NerQueueProofs` | its theorems | `NerQueue` |
| `NerReader` | the reviewed reader with its files and crashes | `NerQueue` |
| `NerReaderProofs` | its theorems | `NerReader`, `NerQueueProofs` |
| `NativePublication` | publication queue, batch publisher, activation | |
| `NativePublicationProofs` | its theorems | `NativePublication` |
| `IndexGenerations` | first-version generations and corpora, and the takeover by the second version | |
| `NativeRun` | native worker, guardian and solver | |
| `BlobStore` | `put_blob` one system call at a time | |
| `ReleaseCache` | the cache of verified release files | |
| `CatalogueCache` | the response caches of two routes | |
| `TimelineProjection` | refresh, invalidation and readers of the projection | |
| `CircuitBreaker` | the boundary around provider calls | |
| `Quota` | the daily quotas | |
| `ServicesProofs` | theorems about the eight modules from `IndexGenerations` to `Quota` | these, `FiniteSumProofs` |
| `FiniteSumProofs` | lemmas: sums over finite sets | |
| `MCComputeStore`, `MCComputeWorker`, `MCBackgroundJobs`, `MCNerQueue`, `MCNerReader`, `MCNativePublication` | instances for TLC | |
| `MCServices` | instances of the eight modules from `IndexGenerations` to `Quota`, one service at a time | |

### ComputeStore

The variables are the tables (`job`, `att`, `claims`, `arts`, `blobs`, `reg`,
`drained`, `reserved`), the receipts (`rcpt`) and the clock (`now`). Every
mutating method runs in one `BEGIN IMMEDIATE` transaction, so it is one action.
A method that raises `ComputeError` rolls back everything, including the
reconciliation it began with, and is therefore a disabled action; a method that
returns commits that reconciliation. `Jobs(t1)` and `Attempts` are the tables as
the rest of a transaction sees them after `_reconcile`.

A transaction reads the clock several times. `now` is the reading of
`_reconcile`, `t1` and `t2` are later readings, each at most `Gap` after the
first: `t1` is the one of the deadline loop of `_reconcile` and, in most
methods, of the checks that follow; `t2` is the one of what is written (and of
`_live` in `complete`). `Gap = 0` is a store whose transactions are short against
the clock, `Gap > 0` one where time passes inside them. The clock never goes
back; `time.time` may, and the store makes no provision for it.

Abstractions: an artifact is a member of `Content` of `Bytes[c]` bytes. Uploads
meet four limits: the rule of the output (`limit`), one artifact (`MaxArtifact`),
all blobs (`MaxTotal`) and the bytes a job may return (`budget`), in the order of
`attach_output` and `put_blob`. A completion is a manifest and a verdict, which says whether it names the frozen input and runtime and stays
within the wall budget; a job has one input. Elapsed seconds, memory, the event
log and the read-only queries are left out. A node presents only fencing tokens
the store has issued, its own or not.

`PutBlob` is both `stage_input` and the first transaction of an upload; the
second one is `AttachOutput`, and it does not require a live attempt, as in the
code. The free space of the disk is not part of the store's state; `LowDisk` of
`ComputeWorker` is the refusal it leads to.

### ComputeWorker

`disk` is `state.json`, `pc` the place of the process in `one_cycle`. A step
that calls the store conjoins the store's own action; its answer leads on, is a
refusal (`HTTPStatusError`, the loop starts again), or is lost. `Crash` ends the
process between any two steps, and only `disk` survives. `GiveUp` is a timeout
on a call that has not reached the store yet: the call moves to `late` and may
be handled at any later time, after the worker has repeated it or gone on.
Crashes, lost answers and timeouts together are bounded by `MaxFaults`. The
answer to a claim is read from the store when it is persisted, which is the same
because the answer to a request id never changes. A refusal that the loop takes
for a contract error and a `WorkerStopped` both end the process, which its
supervisor starts again.

An upload is refused when it breaks a limit of the store (`NoRoom`: 413 or 507),
when its name is staged with other bytes (409), or when the disk is low (`LowDisk`:
507, at any upload, a repeated one included). Only 401, 403 and 422 stop a worker
(`sclib_compute_dummy_worker.py:41`); after any other status it sends the same outbox
again after at most a minute. Neither the rules nor the saved bytes change and the
store deletes no blob, so an output without room is sent for ever (`Unsendable`).
`ClaimsAreClosed` says that nothing else keeps a claim open. A low disk is a fault
and ends, as the other faults do. The excess over the job's output bytes cannot
happen, since a job's rules fit them (`contracts.py:70`, `StoreAssumption`).

### BackgroundJobs

One job, since every job has its own lock and rows. An invocation is identified
with the database session it runs on, and the session stands for `owner_id` and
`backend_pid`; an owner may thus come back, which gives the code less to
distinguish invocations by than its fresh UUIDs. `row` is the table, `lock` the
session lock, `applied` counts the commits of the handler's effects and is the
only variable the program does not have. `SelectCycle` is the claiming
transaction, `HandlerDone` up to just before COMMIT, `Commit`, `CommitInterrupted`
(cancelled after COMMIT), `Settle` (the `except` branch) and `Unlock` the rest of
an invocation. `Disconnect` is the loss of the process or of the connection in
any place: the session lives on at the server until `BackendExit`, with its lock,
and with a COMMIT that may still happen (`LateCommit`). `Replay` is a call with
`scheduled_for`, of the past or of the future.

The table's trigger is not part of the actions. `WritesPassGuard` states that it
would admit every write, so leaving it out changes nothing.

### ExclusiveLease, and what implements it

Both queues of the repository lease jobs with a token, lose leases to the clock
and accept late calls. `ExclusiveLease` is what a client may rely on: a job has
at most one holder, a holder is a token never used before, and one result is
accepted, from the holder. Its actions are `Acquire`, `Accept` and `Release`, each
after the release of any set of leases, since one transaction may sweep many.
`ComputeStore!StoreIsLease` and `NerQueue!QueueIsLease` are its specification under
a refinement mapping: the holder is the current attempt of a leased job (the
token of a running one), the result is the attempt of a returned job (the
receipt a reported outcome points at), the tokens issued are the attempts.

### NerQueue and NerReader

Every method of `Store` that writes is one transaction and one action. The hold
files are looked for before the transaction is opened (`PassGate`), and each
method reads the clock before it waits for the write lock, so its time is up to
`Lag` old when it commits. A claim first sweeps expired leases. Expiry asks for
`lease_until < now`, its users for `lease_until > now`.

`NerReader` runs the reviewed reader over this queue: the lock of the job, the
intent written before the call, the call, the receipt, and `_recover_locked`,
which settles what another process left. A file is present or absent and never
changes; a receipt is its state, its outcome and whether it was recovered.
`Drift` is a change of the pinned inputs between two derivations of a receipt.

### NativePublication and IndexGenerations

`NativePublication` follows a captured paper to what retrieval serves. A content
is the sequence of changes from the legacy content on, as its identity is a hash
of exactly these; two batches that plan the same changes share its construction.
Claims, results and activation events are append-only, and the conditions of the
triggers are guards. `IndexGenerations` is the first version: all calls run under
one database lock and are steps, and what an operator read before may be old.
A generation of single papers is staged at once from the current sources. A corpus
(`Corpus`) is planned at once and staged one partition after the other, each only
from the source its plan names; it can be validated when it is `Whole`. The two
differ at activation: a generation with a held paper is refused, a corpus keeps its
held papers, which the admission of each query leaves out
(`index_generations.py:350-358`, `index_corpus_v1.py:101-117`). Drift of a source
blocks both (`Current`).

### The services

* `NativeRun`: `disk` is `state.json`, `run[a]` all there is of attempt `a`: its
  guardian, its solver, its files, and what the store thinks of it (external). The
  store may refuse the upload, which is then sent again and again or, for a refused
  identity, stops the worker (`SendRefused`), until an operator acts.
* `BlobStore`: the temporary file, its bytes, the name, the directory and the
  row as separate pieces of state, with kills, I/O errors and losses of power.
* `ReleaseCache`: what runs under the condition variable is one step; the
  validator runs outside. Time is two events, a deadline and the end of a
  remembered failure.
* `CatalogueCache`: one step per await, the wait for the build lock included: a
  request finds nothing stored (`WaitForLock`), and what is stored or committed
  until it gets the lock (`TakeLock`) it sees when it reads the revision and looks
  again. `route` says whose pages these are. The timeline has one lock; the material
  list has one per revision and filters, fixed before the wait and shared by all
  pages of a list (`Filters` maps a page to them).
* `TimelineProjection`: a row becomes visible later than its `updated_at`, and the
  refreshing host's clock is `Ahead` or `Behind`. A paper carries the start of
  its transaction; a material is stamped by a trigger of its UPDATE, when the
  row's lock is already held
  (`alembic/versions/0041_timeline_projection.py:100-118`). The assumption is
  `MaxTxn + Ahead < Overlap`: a writing transaction ends within the overlap of five
  minutes (the aggregator commits every 200 rows,
  `materials_aggregator.py:1463`).
* `CircuitBreaker`: one provider, as circuits share nothing. Everything between
  two awaits is one step; an abandoned thread goes on by itself.
* `Quota`: a request names its key by the clock of its process and is counted when
  its pipeline reaches Redis.

These share no state and do not call each other in what is modelled. Seen by one
of them, a behaviour of all is a behaviour of that one, so `MCServices` lets one
of them run while the others rest (`part`), which is as much as running them
together and does not multiply their states.

## Runs

| Run | Instance | Checks |
|---|---|---|
| `retry` | 1 job of two attempts, 2 nodes, `Gap` 1, clock to 5 | `TypeOK`, `ActiveIsCurrent`, `RetryAfterGrace`, `SingleReturn`, `DecidedIsFinal` |
| `campaign` | 2 jobs of cost 1 or 2, 1 node, CPU budget 2, 3 claims | `OneActivePerNode`, `ClaimsAccounted`, `StoreIsLease` |
| `settle` | 1 job of two attempts, 2 contents, `Gap` 0, fair | `ReceiptBindsArtifacts`, `JobsSettle` |
| `stranded` | 1 attempt, `Gap` 1, fair | `LeaseNeverStrands`, violated |
| `worker` | 1 worker, 2 attempts, 2 faults | `NoForgottenLease`, `StagedIsOutbox` |
| `worker_live` | 1 worker, 1 attempt, 1 fault; 3 contents of 1, 1 and 2 bytes, room for 3 bytes, an output rule of 1 or 2 bytes; fair | `ClaimsAreClosed` |
| `jobs` | 2 sessions, cycles 1, 3, 5, two configurations, 2 faults, fair | `BTypeOK`, `SuccessInOrder`, `EffectOnce`, `OwnershipKept`, `WritesPassGuard`, `CyclesSucceed` |
| `queue` | 1 ordinary job and 2 audits of one identity, 2 workers, 2 tokens, budgets 1 and 2, `Lag` 1 | `QueueConsistent`, `QueueIsLease` |
| `reader` | 1 job, 2 readers and another worker, 2 crashes, 2 drifts, fair | `CallAccounted`, `ClaimedSettles` |
| `publication` | 2 papers, 2 batches, 2 jobs of two claims, 3 activations | `JobsAnswered`, `ServedIsWhole`, `ForwardOnly` |
| `services` | 2 files and 2 threads; 3 callers; a user and a guest over 2 days; each route with 2 requests for 2 pages of one list, 2 revisions, room for 1 page; 2 writers and 1 reader; a generation and a corpus of 1 paper, 2 activations; 2 native attempts and 2 faults | `CacheConsistent`, `BreakerConsistent`, `DailyCap`, `SharedScan`, `PagesExact`, `ServedIsLive`, `OneHistory`, `RunRecorded` |
| `progress` | 2 writers, a clock off by 1, an abort; a generation and a corpus of 2 papers, 1 activation; 2 contents and 4 errors; 1 native attempt and 3 faults; fair | `NothingMissed`, `ObjectsKept`, `ActivatesCurrent`, `UploadsLand`, `ClaimsClose`, `EndsWithLease` |

Several of these are conjunctions of named parts, each stated and commented where
it is defined: `ClaimsAccounted` (reservations, claims and retry counts),
`DecidedIsFinal`, `QueueConsistent` (types, running attempts, budget,
supersession, one audit), `CallAccounted` (at most one call, never denied, unknown
only under the hold, never settled behind a running reader), `JobsAnswered`,
`ServedIsWhole`, `CacheConsistent` (books, single flight, wake-ups, the file that was
found), `BreakerConsistent` (cause, bounded pressure, one operation), `OneHistory`,
`RunRecorded` (one launch, stopped when recorded, honest result), `PagesExact`,
`NothingMissed` (late commits and invalidations) and `ObjectsKept`.

Why the bounds are enough: the interesting conflict in the store is between an
old attempt and its successor, which takes two attempts and two nodes; the
deadline of the retry job lets a lease expire, the grace pass and the second
attempt be worked on. Budgets are met exactly and missed by one. The clock
reaches every deadline. A worker's second fault can hit the recovery from the
first. The sizes of `worker_live` make an output too large for its rule, or one for
which other blobs leave no room, or neither. Three cycles are an old one, one in work and a newer one; two faults are
a crash and a late COMMIT, or a failed recovery. Two tokens of the NER queue are
an expired attempt and its successor; a reader that crashes twice can crash in the
recovery of the first crash. Two publications are of one paper or of two, and three
activations are two promotions and a rollback. A third caller is the one that
arrives while two are at work; two requests are one that builds and one that waits,
with a commit while it waits or while it builds. Two native attempts are needed to see that
the second does not run beside the first.
Numbers beyond these repeat the same situations; for the properties below that
are proved there is no bound at all. Three situations are out of reach of these
instances and only in the proofs: `campaign` tries each job once, so that a retry
budget cut short would not show there (`BooksAgree`); a content of `publication` has
one partition (`PublicationsServed`); and with two threads the limit on waiters of
the release cache is never met (`CacheStaysConsistent`).

`MaxTime` and `MaxFaults` are horizons of the instances. `JobsSettle` needs the
last deadline before `MaxTime`. `CyclesSucceed` excuses a cycle whose retry, or
the retry of an older cycle it has to wait for, lies beyond the horizon.

Deadlock checking is off in four runs, whose bounds use up what drives them: the
activations and jobs of `publication`, the tokens and the clock of `queue`, the
only job of `reader` once it is settled, and the requests and the clock of the
quotas in `services`. The programs themselves go on.

### What `stranded` shows

`complete` reconciles with one clock reading and checks the lease with a later
one. If the lease ends between the two, the attempt is quarantined as
`stale_attempt` although it was current, and the job is left `leased`. Since the
attempt is not active any more, no reconciliation will ever see it expire; the
job keeps its status until an operator cancels it, and the attempts it has left
are not used. `docs/sclib_compute_staging.md` (lines 92-93) says "Expired leases
become lost, with a retry grace period before the job can be assigned again."
With `Gap = 0` the job settles (`settle`). In `fail` and `heartbeat` a second
reading only leads to a refusal or to `continue: false`, and the next
reconciliation sees the lease expired.

### What the models show beside the runs

These follow from the models and are not hidden by the properties, which say
exactly what remains true:

* `put_blob` adopts a name it finds without synchronising the directory
  (`store.py:160-162`). A kill after the rename, a second upload and a loss of power
  leave a row without its object. `WrittenIsDurable` excepts adopted rows.
* `claim` looks for the dispatch hold before its transaction
  (`materials_ner/store.py:95`), and nothing looks again before the provider call: a
  reader that passed in time calls under the hold. `UnknownIsHeld` is about
  retained outcomes.
* A receipt that a recovery retained and that differs from the one derived later
  is refused on every run (`Collides`), and the job waits for an operator.
* A publication job that used up its 100 claims cannot be claimed to be superseded
  (`retrieval_publication_queue_v2.py:104`), and `supersede_pending`, which selects it
  every time, then fails for all old jobs.
* The daily counters expire after a day (`rate_limit.py:115`), so the weekly sum of
  `get_user_week_used` usually lacks older days.
* `write_once` of the native worker fills a file under its final name
  (`native_worker.py:29-37`); a crash in between leaves a file every later cycle
  refuses (`Torn`), and `ClaimsClose` excepts it. A guardian killed between the start of the solver and
  `process.json` leaves a solver the worker does not know of; `RecordedIsStopped` is
  about recorded ones.
* The material list locks per revision and filters (`materials.py:155`). A request
  that waited while the revision changed holds the lock of the older one and may
  compute a page beside a request that holds the newer one's, or compute what that
  one has just stored. `SharedScan` excepts these (`Shifted`).
* That a follower of the release cache looks at its file again before it takes the
  leader's value is not covered by `CacheConsistent`, which speaks of the file found
  on entry.
* A material is stamped under its row's lock, so two versions of it carry stamps in
  the order of their commits and a point that passes the comparison is current.
  Papers are stamped with the start of the transaction: of two overlapping writers
  the one that began first may commit last and leave a paper whose `updated_at` went
  back. The projection therefore compares the paper itself (`PapersChanged`), and
  `NothingMissed` counts on it. A row that commits after a refresh with an earlier
  `updated_at` is absent from answers until the next refresh. The route reads the
  projection only when the catalogue revision is unavailable
  (`routers/timeline.py:254`).
* Every poll consumes one of `max_claim_requests`, a limit by design.
* An upload refused for its size or for want of room (413, 507) does not stop a
  worker: the dummy and the native worker send it again for ever, and their claim
  stays open until an operator acts. `ClaimsAreClosed` and `ClaimsClose` except it.
  The native worker checks sizes itself before it sends, so only 507 is left there.

## Fairness

* `FairSpec` (store): time passes, and somebody keeps reconciling. The store has
  no scheduler of its own; `POST /reconcile`, or any heartbeat, attempt query or
  claim that is answered, does it. Claims, completions and everything else a node
  does are not assumed to happen.
* `WFairSpec` (worker): the process keeps taking steps and is started again
  (`--serve` loops with a bounded pause, the service manager restarts it). Strong
  fairness of `SaveOutbox` says that the loop of an execution ends; it has
  `inputs.steps` iterations in the code and an arbitrary number here.
* `BFairSpec` (background jobs): time passes; `_run_periodic_job` polls at least
  every 30 seconds, in a process of every configuration; handlers are bounded by
  `asyncio.timeout` and by `statement_timeout`; PostgreSQL ends the backend of a dead
  client. Polling is strongly fair since a replay may hold the lock in between;
  replays are manual. Without a process of its configuration an unfinished cycle
  waits for an operator (`configuration_conflict`). Faults are finite in number and
  never fair.
* `RFairSpec` (reader): a reader that runs goes on, and an operator runs unsettled
  jobs again, as the recovery command of the campaign is meant for. Strong
  fairness, since another reader may hold the lock in between.
* `AllFairSpec` (services): a put runs on, and a client whose content has no row
  sends it again (the worker's outbox does). The native worker and its guardian run
  on, the service manager restarts the worker, and the wall time of a job ends;
  `EndsWithLease` does without the wall time. The operator who makes room for a
  refused upload is not assumed to act. Nothing is assumed of heartbeats, the
  solver or the provider.

## Proofs

TLAPS checks the theorems for every value of the constants that satisfies the
named assumptions, which TLC evaluates on every instance. They say that ids and
limits are of the kinds the code's classes and environment variables require
(`StoreAssumption`, `QueueAssumption`, `JobsAssumption`, `BreakerAssumption`,
`QuotaAssumption`, `PagesAssumption`, `CacheAssumption`, `BlobAssumption`, `RunAssumption`,
`GenerationsAssumption`, `PublicationAssumption`), and that a missing value is none
of the values (`RowsAssumption`, `WorkerAssumption`; `None` is no job, attempt, content
or process, and `"unclaimed"` no attempt). Two say more: `TimelineAssumption`, that
writing transactions take some time and end within the overlap, and
`ReaderAssumption`, that the jobs of the reader's namespace are readings.

### The compute store

`ComputeStoreProofs` proves `TypeCorrect`, `ActiveExclusive` (`ActiveIsCurrent`)
and `ReturnOnce` (`SingleReturn`), for any `Gap`: the second clock reading strands
jobs but never gives one to two nodes. `ActiveIsCurrent` is not inductive: that
completing an attempt leaves every other attempt consistent needs to know that a
job's current attempt is an attempt of that job (`CurrentKept`, `JobOfAttempt`),
that receipts and final statuses go together (`Receipted`), and that specifications
stay (`SpecKept`). The invariant `IInv` is `TypeOK` and the conjunction `Linked`
of these; it is stated of a pair of tables, because every operation first
reconciles and then changes the reconciled tables. `ReconciledLinked` carries it
over the first half, one lemma per action over the second.

The rest is proved from a summary of the actions: every step
from a state of `IInv` hands nothing out (`HandsNothingOut` says what it may do to
each row) or is a claim that does (`StepCases`). From it follow, for any number of
jobs, nodes and attempts and any `Gap`:

* `DecidedFinal` (`DecidedIsFinal`), an action property, directly from the summary;
* `RetryWaits` (`RetryAfterGrace`) and `NodeExclusive` (`OneActivePerNode`), from
  `OInv`, which adds `Ordered`: fences number the attempts of a job in the order of
  their starts, a queued job may be retried now (`QueuedRetriable`), and earlier
  attempts are spaced. That the grace has passed is decided when `_reconcile`
  queues the job and used when a later transaction claims it, so it has to be
  remembered in between;
* `ReceiptsBind` (`ReceiptBindsArtifacts`), from `IInv` alone: an answered attempt is
  not active, so nothing is attached to it or completed any more;
* `BooksAgree` (`ClaimsAccounted`), from `LInv`, which adds that the reserved CPU time
  is the sum over the issued attempts and that the claims name issued attempts only;
* `StoreRefinesLease` (`StoreIsLease`): the expired leases of the reconciliation are
  the set the abstract step releases, and at most one job is newly returned.

`FiniteSumProofs` supplies what a ledger needs: the fold of the community modules
does not depend on the order in which `CHOOSE` takes the elements (`SumRemove`), so
a booking adds its amount, a change of one amount changes the sum by the
difference, and sums are monotone. The library's induction theorems cannot be
instantiated here; each induction is an argument about a smallest counterexample,
which exists because strict inclusion of finite sets is well founded.

### The workers and the store

`ComputeWorkerProofs` proves `LeasesRemembered` (`NoForgottenLease`) and
`OutboxIsStaged` (`StagedIsOutbox`) for any number of nodes, requests, crashes, lost
answers and late calls, and `WorkersAreClients`: whatever the workers do, the store
takes steps of `ComputeStore` only, so every theorem of the previous section holds of
the two together. A step changes the store or one `state.json`, never both, and the
invariant `WInv` is what each side may rely on while the other moves. A store's step
is calm, answers a request, or stages outputs (`Calm`, `Records`, `Stages`); the
worker's own calls are about the request and the outbox in its file (`OwnStep`).
The two properties are about one idea, the attempt a file is about (`About`), which
is defined before the answer of the claim is saved too. A call under way, which may
arrive after its worker has crashed and come back, needs `LateKept`: it can claim only
while the file still asks for that request, and stage only bytes of the outbox. That a
second execution makes an outbox no earlier call disagrees with holds because an
upload is sent only once an outbox is saved, and a saved one is never replaced.

### The background jobs

`BackgroundJobsProofs` proves `JobTypeCorrect`, `CyclesOrdered`
(`SuccessInOrder`), `EffectsExactlyOnce` (`EffectOnce`), `OwnershipStable`
(`OwnershipKept`) and `TriggerNeverFires` (`WritesPassGuard`), for any number of
sessions and faults. Order is decided when a cycle is claimed and becomes visible
when it commits, so `SuccessInOrder` needs `Frontier`: while an invocation may
still commit, every older recorded cycle has succeeded and no newer one has. That
nobody changes this meanwhile follows from `LockHeld` (exactly the session with
an invocation, alive or dying, holds the lock) and `OwnershipKept`. The trigger's
condition on start times needs `StartedBefore`.

### The NER queue and its reader

`NerQueueProofs` proves `QueueStaysConsistent` (`QueueConsistent`) and
`QueueRefinesLease` (`QueueIsLease`) for any number of jobs, workers and tokens, any
budgets and any lag of the clock. The invariant `QInv` states consistency of a pair
of tables, as a claim first sweeps and then hands out; counting the attempts of a
job needs that they are a finite set, and a late delivery is harmless because the
worker's token was issued once (`HeldIssued`).

`NerReaderProofs` proves `ReaderAccountsCalls` (`CallAccounted`) for any number of
readings, readers, crashes, lost leases and drifts. Its parts are not
inductive by themselves. `ReaderKept` says what a reader may rely on at each step: it holds its
reading's lock, its attempt is one of that reading, no call was made before
`dispatch`, and what it is about to settle as unknown is under the hold already.
`CallKept` says the same of the call for whoever looks next: a call that was made
left an intent in every attempt of the reading, which is how a recovery knows not
to deny it. As a reading is tried once, the attempt a recovery finds is the one
that called (`OneAttempt`). `ReaderKeepsQueue` adds that the recovery's own
transaction, which asks for no lease, keeps the queue consistent.

### The publication of papers

`NativePublicationProofs` proves `PublicationsAnswered` (`JobsAnswered`),
`PublicationsServed` (`ServedIsWhole`) and `PromotionsGoForward` (`ForwardOnly`) for
any number of papers, batches, partitions, interruptions and activations. Nothing
is checked against the active content when a batch plans, and nothing against the
queue when a build is promoted, so what the three say has to be carried by the
contents themselves. `ContentKept` says that along a content the publications of
each paper increase: a batch adds a publication only while no newer one of its
paper is queued, and what it extends was planned earlier. A promotion adds one
change at most, so it never goes back. `SealedKept` says that all prefixes of a
sealed content are sealed and complete: a content is planned on a sealed base, and
whoever replays a partition of a complete one changes nothing. A superseded
publication has a newer one, and the newest of a paper has none, so it was not superseded.

### The services

`ServicesProofs` proves, each from an invariant of its own:

* `TimelineMissesNothing` (`NothingMissed`) and `TimelineServesLive` (`ServedIsLive`),
  for any number of materials, writers and requests and any clock offset the
  assumption admits. A row the refresh has read past is stamped after the
  watermark the refresh is about to set (`RefreshFollowed`), since the writer
  that stamped it is still within the overlap; a point or a copied row is what its
  source was when it had that stamp (`OnceThat`), as no material gets one stamp
  twice. The proof of this failed at first, because the model let a material carry
  the start of its transaction; the trigger of migration 0041 does not.
* `BreakerStaysConsistent` (`BreakerConsistent`), for any number of callers: what an
  open circuit has let through, and the retries its callers have left, are together
  at most the retries of all callers.
* `PagesStayExact` (`PagesExact`), for both lock policies: what a request has read so
  far is the catalogue of the revision it began with, if that is still the current
  one.
* `ScanIsShared` (`SharedScan`), for both routes: a request that computes holds the lock
  it waited for, and no two hold one lock. Behind the one lock of the timeline nothing
  is stored between the second look and the own `put`.
* `CacheStaysConsistent` (`CacheConsistent`), for any number of threads and files and
  any sizes and limits. `Books` says that keys are distinct, that the bytes are the sum
  of the sizes and that an entry that did not fail holds the value of its own key; it is
  carried through a removal from the middle, an eviction from the front and an append
  (`BooksWithout`, `BooksCut`, `BooksAdd`), from which each operation is put together. `Calls` says
  the same of the threads, the keys in flight and the waiters, for the three ways a thread
  moves: it changes nothing of these (`CallMoves`), begins to verify (`LeaderComes`), or
  ends and wakes everybody (`LeaderGoes`).
* `GenerationsOneHistory` (`OneHistory`), `GenerationsActivateCurrent`
  (`ActivatesCurrent`), `RunStaysRecorded` (`RunRecorded`: what the worker concludes
  from a dead guardian's files), `BlobObjectsKept` (`ObjectsKept`: where a put stands
  decides what its object and row are) and `QuotaDailyCap` (`DailyCap`: a key outlives
  its day).

### Only model-checked

Everything about liveness and fairness, which this prover does not reach:
`JobsSettle`, `LeaseNeverStrands`, `ClaimsAreClosed`, `CyclesSucceed`,
`ClaimedSettles`, `UploadsLand`, `ClaimsClose`, `EndsWithLease`. Every safety and every
action property of the runs is a theorem.

## Not modelled

See `components` in `PROJECT.json` for each part and the reason. In short: the
scientific content (parsing, extraction, ranking, contracts of records) is data
without control that a small model could say something about; the frontend
renders; migrations, deployment and monitoring are configuration. Within the
modelled parts: identities and certificates, checksums of files, the event log,
metrics, and the effects of individual handlers.

The repository holds some 218,000 lines of implementation, most of them
schemas, validators, parsers, exporters and planning and audit scripts. The mapped
lines are a small share of that, chosen where processes, clocks and crashes meet.
What is left of that kind are the append-only event tables of source tasks,
research publication and ML governance and the one-shot custody of the PBEsol
execution.

## Plan

Further modules, if wanted, each with its runs and theorems: the stages of
`run_one`, research publication and withdrawal, source tasks, PBEsol custody.
