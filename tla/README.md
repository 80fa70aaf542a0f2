# A TLA+ verification of the XINGESTIONV2 control plane

XINGESTIONV2 collects social media posts. Its core is a durable control plane: tasks live in
PostgreSQL, an outbox carries them to a Redis stream, workers lease and run them with sessions
from a shared pool, and retries, dead letters and replays end what failed. This directory models
that core in TLA+, checks it with TLC on small instances and proves its main invariants with TLAPS
for every size. Around the core it models what the workers store (observations and rollups), how
they plan and collect, the timers of a delivery, and the daemons that read the results.

Paths are relative to the repository's root (`src/` in the file names of `PROJECT.json`).

## 1. Inventory

| Component | State | Operations | Correct when | Status |
|---|---|---|---|---|
| Task ledger (`xingestion/control_plane.py`, `schema_analytics.sql`, `migrations/`) | `worker_tasks`, `task_outbox`, `worker_dead_letters` | create, lease, complete, schedule retry, dead-letter | no task lost, every failure counted once, finished is final | modelled, proved |
| Outbox dispatcher (`xingestion/outbox.py`, `dispatcher.py`) | a claimed batch in memory, claims in `task_outbox` | claim, XADD, mark published, record failure | an event is visible only after ENQUEUED is committed; every due event is published | modelled, proved |
| Redis stream (`RedisStreamQueue`) | stream, last-delivered id, pending entries | read, reclaim, touch, ack | acknowledged means settled; pending entries drain | modelled (no dataset loss) |
| Worker (`worker.py`) | a delivery and a `TaskLease` | lease, run, complete or fail, ack, cancel | one fenced executor; no stale write | modelled, proved |
| Lease guard (`xingestion/lease_guard.py`) | heartbeat and operation tasks | renew, touch, release | a live lease is ended by its holder only | modelled, proved |
| Dead-letter replay (`xingestion/replay.py`, `task_replay.py`) | `worker_dead_letters.replay_task_id` | replay a batch | a dead letter is replayed at most once | modelled, proved |
| Cleanup daemon (`db_cleanup.py`) | none | delete DONE tasks | only finished work disappears, contributions go with their feed row | modelled |
| Migrations (`scripts/apply_migrations.py`) | none, no history | apply every file | a re-run loses nothing | modelled (0001 re-run), violated |
| Session pool (`TokenRepository`) | `service_tokens`, `service_token_leases` | checkout, success, release, cooldown, recovery | slots respected, leases kept, cooldowns end | modelled, proved (the slots are not respected: their excess is bounded) |
| Session failover (`IngestionExecutor`) | a `TokenLease` | primary, second session, recovery adapter | every lease is returned or expires | modelled |
| Token recovery loop, refresh service (`worker.py`, `token_refresh_service.py`) | the rows selected for repair | recover, repair, revoke | benched sessions come back, revoked ones do not | modelled |
| Seeding (`bulk_account_seeder.py`, `seed_test.py`) | none | upsert sessions, create tasks | | modelled (their upserts) |
| Observations and rollups (`analytics_parser.py`, `migrations/0002`) | `social_insights_feed`, observations, contributions, hourly rollups | `upsert_insight_record` with its bucket rebuilds, retention | contributions are those of the stored text, counters are maxima, rebuilds do not deadlock, a rollup equals its contributions | modelled, proved, the last violated |
| Capability planner (`xingestion/capabilities.py`) | none | read a payload, validate, choose a route, clamp | no filter ignored, every limit kept, a stored request plans the same way | modelled, proved |
| Collection loop (`IngestionExecutor.collect`) | plan, cursor, page number | primary page, failover, recovery | pages follow each other, the collection ends | modelled, proved |
| Source adapters (`collectors/`) | none | fetch a page | every error is one the loop knows | their cursors and errors, in the collection loop |
| Settings (`xingestion/config.py`), backoff (`worker.py:81`) | none | validate, delay | accepted intervals keep leases alive | intervals and limits modelled, proved; the delay is "some time" |
| Briefs and alerts (`analytics_briefs.py`, `analytics_alerts.py`) | `executive_briefs_history`, `system_operational_alerts` | brief the last hour, scan the rollups | no false alert, no post briefed twice by one run of the daemon | modelled, proved |
| API server (`api_server.py`) | none | read-only queries | | not modelled |
| Legacy `OutboxDispatcher` (`control_plane.py:469`) | | | used by nothing | not modelled |

How they interact: a producer writes the task row and its outbox row in one transaction. A
dispatcher claims due outbox rows, commits their tasks as `ENQUEUED`, and only then does XADD; a
crash in between publishes again later. A worker reads an entry, leases the task row (a
conditional UPDATE), runs under a heartbeat that renews the lease and touches the pending entry,
commits an outcome under the fence (id, generation, owner, RUNNING), and acknowledges. A retry opens
the next `delivery_generation` and its outbox row in the same transaction. While it runs, a worker
checks sessions out of the pool; the recovery loop and the refresh service work on the same rows. What
it collected it stores document by document, one transaction each, before it completes the task; the
daemons for briefs and alerts and the API read those tables.

What is hard: any process may die at any await; deliveries are at least once; leases, claims and
pending entries time out while their holders are merely slow; replies are lost after commits;
cleanup, replay, migrations and operators' scripts run at any time. `PROJECT.json` lists the hazards
one by one, at their lines, with the properties that guard against them.

## 2. Modules

    TaskLedger      PostgreSQL side: each operator one transaction of the source
    RedisStream     the stream and its consumer group
    ControlPlane    EXTENDS both: dispatchers, workers, lease guard, producers, clock
    TaskLifecycle   what a client is promised; ControlPlane implements it (LifecycleSpec)
    ControlPlaneInvariant   the inductive invariant IInv and lemmas about data
    ControlPlaneProofs      theorems about ControlPlane
    LifecycleProofs         ControlPlane implements TaskLifecycle, as a theorem
    SessionPool     the session tables: each operator one transaction or statement
    SessionFailover EXTENDS SessionPool: collectors, recovery loop, refresh service, scripts
    SessionLending  what the pool promises a borrower; SessionFailover implements it (LendingSpec)
    SessionProofs   theorems about SessionFailover, that one included
    Observations    the analytics tables as concurrent transactions write them
    ObservationProofs       theorems about Observations
    CapabilityPlanner       payloads, the contract, routes and clamping, as operators
    Acquisition     EXTENDS CapabilityPlanner: collect(), page by page
    AcquisitionProofs       theorems about planning, limits and pages
    LeaseTiming     lease, heartbeat and reclaim intervals as clocks
    LeaseTimingProofs       theorems about them, for all settings
    Monitors        the brief and the alert daemon over an hour's posts
    MonitorProofs           theorems about them
    MCControlPlane, MCLiveness, MCMigrations, MCSessions, MCObservations, MCAcquisition,
    MCLeaseTiming, MCMonitors   model checking

### Task ledger, stream, control plane

`tasks[t]` is the row of `worker_tasks`; `outbox[e]` the row of event `(task, generation)`, unique in
the schema; `deadLetters` the archive in the order of its ids. Time is kept only as what a WHERE
clause sees of it: `due` (`next_run_at <= NOW()`), `live` (`lease_expires_at > NOW()`), `fresh`
(`claim_expires_at > NOW()`), `idle` (long enough pending to be reclaimed). Each of them may change
at any moment, heartbeats or not, so no result depends on the configured intervals or on clocks that
agree. Every row is written not due; a row that is due at once is one whose backoff elapses at once.

A worker's `pc` names the await it is at. `Lease`, `Complete`, `TransitionFailure`, `Release`, `Ack`
and the others are one await each; an action named `...Error` is the same call raising, after or
before its effect. A lost reply that is not spelled out leads to the same place as a successful call
followed by the failure of the next one. Some decisions worth knowing:

* `claim_ready` is one step, at its snapshot. Its UPDATE of the tasks repeats the status condition,
  so what commits in between is as if it came after.
* A dispatcher holds one batch and forgets it when it dies, so its identity stands for the random
  claim token.
* Which of several claimable rows come first (priority, age) is left open; any batch is allowed.
* A deleted task keeps its id in the model as `PURGED`: serial ids are never reused, and the audit
  rows keep the number.
* `db_cleanup.py` deletes where `leased_at IS NULL`, a column nothing writes: every DONE row goes.
* A run cancelled inside `run_guarded` releases its lease twice (`lease_guard.py:224`,
  `worker.py:443`); when the first release raises, the handler records a failed attempt and the worker
  may go on, which the model allows also when it was to shut down.

`SoleFencedExecutor` assumes a worker name per worker. Worker ids repeat in each process
(`worker.py:606`), the repository knows the ambiguity that follows (`architecture.md:245`,
`plan.md:105`), and everything else is proved without that assumption.

### Sessions

`session[s]` is the row of `service_tokens`, with `last_error` reduced to whether the refresh
service's patterns match it; `leases` are the rows of `service_token_leases`. `checkout_token` is two
steps, because that is where READ COMMITTED shows: `BeginCheckout` is the SELECT's snapshot, with the
number of live leases as of then; `Checkout` is the row lock, which sees the newest row version
(status and cooldown are evaluated again) but not a newer count, with the INSERT and the commit.
`NoSession` is always possible, since SKIP LOCKED passes over any row that another transaction
happens to be updating. The outcome of a request chooses between `record_success`, `mark_cooldown`
and `release_lease`; a cancellation leaves the row behind (`Abandon`). The failover chain is that of
`collect()`: second session after a session fault, then the recovery adapter if there is one. Serial
ids are reused in the model once no row and nobody's memory holds them, which nothing can observe.
Adapters that need no session (`MOCK_MODE`) do not touch the pool and are left out.

`SessionLending` is the pool as a borrower sees it: fit sessions, their loans, a number of slots. A loan
begins on a fit session that has a slot to spare, for an owner who has no other loan of it; loans end one at
a time; whatever else happens to a session takes no loan away. Under the mapping a session is fit when
`checkout_token` may choose it (ACTIVE, not cooling), and its loans are its rows in
`service_token_leases` that have not expired: snapshots, sweeps, expired rows and ids disappear. The
slots of the abstraction are `max_concurrency` plus one less than the number of collectors, which is
what the code grants (section 6); with checkouts in turn they are `max_concurrency`.

### Observations and rollups

A writer is one call of `upsert_insight_record` by `persist_documents`, one transaction. Everything
before the rollups touches rows of one object under the lock of its feed row, so `Store` is one step
that fixes what the transaction will have written; what others see of it comes with `Commit`. Each
bucket then takes two steps, because the code takes two statements: `Aggregate` counts what is
committed, and its own; `WriteRollup` waits for the row lock and writes that count. A rollup is kept
as the set of objects it counts with their likes, finer than its columns, so that two wrong
counts cannot cancel out. `Abort` is any failure; `Retire` the retention of `db_cleanup.py` with its
cascade. Nothing fences the writers: a worker that lost its lease and the one that took over are simply
two writers, and a repeated delivery stores under the same observation key. Likes stand for both
counters; author, sentiment and the hash of the text are left out.

### Planning and collecting

`CapabilityPlanner` keeps JSON values with their type, because the code's checks are about types: `True`
is no page count, a string of white space is empty, an absent input differs from a null one. What
raises in the code is a predicate that fails. `Acquisition` is the loop of `collect()`: the payload with
the setting filled in, the plan, then pages. A page is its number and a cursor names a page, so that
order and gaps show and contents do not. The recovery adapter opens the live page whatever the cursor
and returns none, as `browser_adapter.py` does. Of `correlation_id` only the type check is kept (`capabilities.py:326`):
a plan carries it along and nothing depends on it. The sessions leased on the way are in `SessionFailover`.

### Timers

`ControlPlane` lets any timer run out at any moment. `LeaseTiming` lets them run, for one delivery: the
lease, the idle time of its pending entry, the heartbeat loop with its two awaits (renew, touch), the
idle worker's poll. Settings come from the environment through `from_env`, defaults and checks included.
The environment may delay each heartbeat by `late` ticks, and what is asked of the system is stated
for the slack the settings leave.

### Briefs and alerts

Time, in ticks of a part of an hour, and the ingestion time of each post. Rollups are those of a
clock hour, as `upsert_insight_record` truncates. The brief daemon queries, calls the language model for
any length of time, and waits an hour after that; either daemon may be late, and the brief daemon dies of an
error in its query, which is outside its `try`. Restarts are left out: `main()` briefs at once, so a second run of
the daemon looks back over the hour the first one may have briefed, and `BriefedOnce` is about a single run. A
post is ingested at one moment here; the code takes its time from the worker's clock, a little before the commit
that shows it, so a query may miss a post whose time it already covers (the posts a brief or a scan does see are
those of the model).

## 3. Runs

| Run | Instance | Shows |
|---|---|---|
| `workers` | 1 task, 2 workers, 1 dispatcher, 2 attempts, 2 stream entries | types, no lost task, no early ack, one fenced executor, attempts, visibility after commit, no reopening, live leases respected |
| `replay` | 2 task ids and keys, 1 worker, 1 attempt, batches of 2 | archive and replay lineage exact; the inductive invariant; ControlPlane implements TaskLifecycle |
| `liveness` | 1 task of 1 or 2 attempts, 2 workers, 2 dispatchers, a fault of a worker or dispatcher, which then may stay down | every task ends, the pending list drains |
| `sessions` | 2 collectors of one name, 1 session with 2 slots, recovery adapter | pool records stay right, every cooldown ends, overbooking is bounded; SessionFailover implements SessionLending |
| `observations` | 2 writers, 2 objects, 2 words, 2 windows, 1 delivery | contributions, maxima, no deadlock, exact solo rebuilds, no loss without an overlap |
| `acquisition` | about 4000 payloads, 3 settings, 3 routes, a source of 3 pages | filters, limits, repeatable plans, page order, a bound on the requests, end of the collection |
| `timing` | leases of 1 to 3 s in ticks of a third, all heartbeats and reclaims up to twice and three times that, lateness 0 to 2 | leases and deliveries kept, recovery in time |
| `monitors` | 4 ticks to the hour, 9 ticks, 3 posts | true alerts, no post briefed twice by a daemon that is not restarted; the inductive invariant |
| `migration_rerun` | 1 worker, fairness, migrations applied again | violated: see section 6 |
| `session_slots` | 2 collectors, 1 session with 1 slot | violated: see section 6 |
| `revoked_sessions` | 2 collectors, 1 session with 2 slots | violated: see section 6 |
| `overlapping_rebuilds` | 2 writers, 2 objects with one word | violated: see section 6 |

Bounds. `TaskIds` bounds the tasks ever created; `MaxAttempts` the generations; `MaxMessages` the
stream, at two entries for one duplicate delivery (each of two workers then holds one), and at three in
`liveness`, which one fault cannot exceed; `MaxFaults` and `Unreliable` the faults of the fair run, which
no retry scheme could survive unbounded; `MaxLeases` the lease rows and remembered leases, never reached
in the runs (one session and one name allow two rows, two collectors remember two). Tasks interact only
through the batch of a dispatcher and the batch of a replay, which `replay` exercises with two. Two
workers are enough for a lease to be taken over and for its former holder to come back. The captures
of `observations` differ in words, likes and window, so a bucket is shared, left, joined and emptied;
two buckets for each of two writers are what a deadlock needs. The payloads of `acquisition` take each
input missing, null, at its default, at another good value and at a bad one; the parameters of a
capability request and the inputs of a legacy task come in every combination, cursor and page size
over a few parameters. `timing` has leases small
enough for every relation between the three intervals, with the default of each; the shipped default
lease of two minutes is covered by the theorems only. `MaxTime` and `MaxPosts` of `monitors` give two briefs
and a spike across the turn of an hour. The safety results do not depend on these bounds where a theorem
covers them (section 5). Deadlock is checked except in `acquisition`, whose collections end, and in
`monitors`, whose time does. Symmetry is used in runs of invariants and action properties only; `observations`
has none, because `LossNeedsOverlap` speaks of whole behaviours. That property assumes `RebuildsInTurn` throughout,
which leaves the two writers every order in which they rebuild different buckets at once or one bucket after the
other, with aborts, changes of text and retention in between.

## 4. Fairness

`MCLiveness` assumes that a process that is up keeps running and that its calls return or fail
(worker loop and dispatcher loop run until shutdown), and that time passes: backoffs elapse, leases
and claims that nobody renews run out, pending entries become idle. It does not assume that a
crashed process is restarted, nor that a heartbeat is on time. Leases and claims with a running
holder expire only as one of the counted faults, as the heartbeat (a third of the lease) and the
claim time provide. One worker and one dispatcher are reliable. `SessionFailover`
assumes only the recovery loop (every 30 s in each worker process, its errors caught) and that
cooldowns elapse; collectors, the refresh service and operators owe nothing. `migration_rerun`
adds that processes are started again after the maintenance window. `Acquisition` assumes that an adapter
answers or raises in the end (the library's and the browser's timeouts).

## 5. Proofs

`ControlPlaneProofs` proves, for any tasks, keys, workers, dispatchers, batch size and worker
names (shared or not), from `LedgerConstants` and `ControlPlaneConstants` alone:

* `Invariance`: `Spec => []IInv`. `IInv` (in `ControlPlaneInvariant`) strengthens the properties into
  an inductive one. The properties speak of one generation; a step that opens a generation or writes
  a row needs to know that nothing of the future exists yet (`Unborn`, no outbox row and no stream entry
  beyond the current generation), that what a dispatcher holds was claimed for an ENQUEUED task or is
  outdated, and that each holder of a `TaskLease` works on a delivered entry.
* From it `TypeCorrect`, `TasksAreNotLost`, `AcksAreFinal`, `EnqueuedBeforeVisible`,
  `AttemptsAreCounted`, `ArchiveIsExact`, `LineageIsOneToOne`, and as action properties
  `FinishedStaysFinished` and `LiveLeasesAreRespected`.
* `OneFencedExecutor`: `SoleFencedExecutor`, under the assumption `UniqueNames`.
* `ImplementsLifecycle` (in `LifecycleProofs`): `Spec => LifecycleSpec`. A transaction of a lease holder,
  a submission, a replay and the retention each map to one step of `TaskLifecycle`; dispatchers, stream
  and clock map to stutters. The invariant is needed where a client's view depends on more than one row:
  a failure is within the budget by `Accounts`, and what a replay copies is a dead task, replayed
  nowhere else, by `DeadLetterArchive` and `ReplayLineage`.

The proof abstracts every step to how it moves one task (`TaskMove`), the stream and the outbox, and
preserves each part of `IInv` by those moves, so that it does not repeat one case per action and part.

`SessionProofs` proves from `PoolConstants` and `FailoverConstants`, for any collectors, sessions and
names: `SessionTypes`, `ReasonsAreKept` (inductive together with the types), `LiveLeasesAreKept` and
`GrantsAreCurrent`. Two more say how bad the missing recheck of `checkout_token` is (section 6).
Call a collector a chooser of a session from the SELECT that saw a free slot to its row lock. A SELECT
sees less than `max_concurrency` live leases, and taking the slot turns a chooser into a lease, so live
leases and choosers together stay below `max_concurrency` plus the largest number of choosers there
has been at a time (`BookedWithin`, inductive; the leases alone are not):

* `OverbookingIsBounded`: less than one lease too many per collector, without any assumption, as each
  worker loop runs one checkout at a time.
* `SlotsAreKeptInTurn`: in a behaviour where no two collectors choose the same session at a time,
  `NoDuplicateLeasing` holds. Serialising the checkouts of a session is all that is missing.

The same bound gives the refinement. `ImplementsLending` (`Spec => LendingSpec`) classifies every step by
what it does to the leases (`LeaseCases`): a checkout lends, with room because the collector itself is one of
the choosers `BookedWithin` counts, and to an owner with no other loan because of the UNIQUE constraint; a
lease that runs out ends a loan; the end of a collection ends at most one, of the session the collector
works with, since rows of one owner and session are one (`OneLeasePerOwner`) and a row with the collector's
id is of the session it holds (`RowIsHeld`); anything else only judges sessions. `LendsInTurn` is the same
with `max_concurrency` slots, in behaviours where checkouts of a session take turns.

`ObservationProofs` proves, from `ObservationConstants`, for any objects, words, windows, documents and
writers, finitely many of them at a time: `TypeCorrect`, `ContributionsFollow`, `MaximumKept`, `NoRingOfWriters`
and `SoloIsExact`. Its
invariant adds what the properties do not say of transactions under way: the row a writer is about to
commit extends the one it locked (`Extends`, `Pending`), no two writers have the same object
(`OneWriterPerObject`), the buckets a writer has written come before those it has yet to do
(`Ordered`), and what a writer that met no other has counted is still what there is (`Undisturbed`). `WaitingIsOrdered` (who
waits, waits for a holder that waits for a later bucket, if at all) is read off `Ordered`. `NoRingOfWriters`
(`NoDeadlock` for groups of any size) takes the writer of a group that is at the last bucket in order: it would
wait for one at a later bucket. That
there is a last one in a finite group is proved by well-foundedness of strict inclusion (`LastBucket`),
since the library's induction over finite sets is out of reach.

`NoContributionLost` is refuted by `overlapping_rebuilds`; two theorems say what that run's overlap is
responsible for, and that it is all. `RebuildsInTurn` says that no two open transactions have begun to rebuild
the same bucket, which a lock on the bucket before its SELECT would bring about.

* `RollupsCoverInTurn`: then every rollup counts every contribution with its likes, at any time. The
  invariant (`CoverInv`) adds that what a transaction has rebuilt or is about to write covers what there
  will be when it commits; a commit of another transaction cannot spoil it, because the contributions it
  changes are in buckets it has itself begun with (`CommitCovers`), and a retention only takes
  contributions away (`FewerToRebuild`).
* `NothingIsLostInTurn` (`LossNeedsOverlap`, which `observations` checks): then `NoContributionLost` holds. A count says something of finite sets only, so
  the proof needs that feed and rollups are finite at any time (`FiniteInv`), which is invariant because each
  transaction adds one object, and not an assumption on how many objects there are.

Without the hypothesis there is no bound to prove, unlike for slots: however many transactions commit
contributions to a bucket between the SELECT of one and its INSERT, that one overwrites them all.

`AcquisitionProofs` proves, for any contract, payloads, environment, further routes and source:

* `PlansAreRepeatable`, because validating a validated request changes nothing, and
  `PagesFollowEachOther`, by an invariant (`PagesInOrder`) that ties the cursor to the last page.
* `NothingIsIgnored`: a collection has the plan of its task on the legacy route (`Planned`,
  `LegacyPlan`), whatever other routes compete with it, since a finite set of routes has a first one
  (`FirstRoute`, again by well-foundedness) and only the legacy route has the worker's executor. What
  that route accepts beyond query, product and pages is null or the default, and a default is filled in
  again.
* `LimitsAreKept`: the limits of a plan are the smallest of contract, route and settings (`PlanLimits`),
  and the loop has a page left as long as it runs (`PagesLeft`).
* `RequestsAreBounded`: every step of `collect()` uses up at least one of the steps that are left
  (`StepsLeft`, at most 31: a plan, and three answers for each of ten pages), so no order of errors and
  failovers makes it go on for ever. It is the part of `CollectEnds` that the prover reaches; the rest is the
  fairness that adapters answer at all.

Its assumptions are what the code's inputs are: the contract is sound (`ContractIsSound`: defaults pass
their own checks) and JSON (`ContractIsJson`, `PayloadsAreJson`, `NoneIsNoValue`), it bounds `max_pages`
by 1 and 10 (`PagesOfContract`), routes have priorities and distinct ids (`RoutesInOrder`). The run
evaluates each of them on the shipped contract.

`MonitorProofs` proves, from `MonitorConstants`, for every length of an hour, scan interval, threshold and
duration of a brief: `AlertsAreNeverFalse`, because a clock hour begins no later than the posts in it,
and `BriefsAreDisjoint`, for a daemon that is not restarted. The invariant (`MonitorInv`, checked by `monitors`) adds where each brief has looked
(`History`) and that each begins more than an hour after the beginning of those before it (`Apart`),
which holds only because the wait is counted from the end of a brief and a brief takes time.

`LeaseTimingProofs` proves, for every lease, heartbeat and reclaim interval that `from_env` accepts,
any lateness and polling: `TypeCorrect`, `HeartbeatsKeepTheLease`, `WorkIsNotReclaimed`,
`RecoveryIsBounded`. The invariant relates the clocks: `LoopInTime` (how long the loop may have been
waiting), `LeaseLeft` and `IdleBound` (what that leaves of lease and idle time), `RunsDown` (a dead
worker's lease, then its idle time, then one poll).

Every safety invariant and action property of a passing run is the statement of a theorem. Model-checked
only is liveness (`EventuallySettled`, `EventuallyAcked`, `CooldownEnds`, `CollectEnds`): liveness under
fairness and ENABLED are outside what TLAPS proves.

## 6. What the checks found

* **Re-running the migrations strands tasks** (`migration_rerun`). `apply_migrations.py` keeps no
  history. The second run of `0001_control_plane.sql` returns RUNNING rows to PENDING, whose outbox
  row is already published; nothing claims, leases or redrives them. With that step removed from the
  specification `HardCrashRecovers` holds.
* **One session slot can be leased twice** (`session_slots`). The slot count of `checkout_token` is
  older than its row lock. `OverbookingBound` says how far it can go: the leases and the checkouts under
  way exceed the slots by less than one per collector. Everything else the pool promises stands
  (`LendingSpec`).
* **A revoked session can come back** (`revoked_sessions`). `mark_cooldown` looks at neither the
  status nor its lease.
* **Overlapping rebuilds lose contributions** (`overlapping_rebuilds`). Two transactions count a bucket
  before either commits; the second overwrites the first one's count. The bucket stays short until
  some later post of its word and hour rebuilds it; `SoloRebuildExact` shows that this is enough, and
  `LossNeedsOverlap` that nothing but such an overlap makes a bucket short.

The source lines and the sentences they contradict are in `PROJECT.json`.

Known divergences that no run of its own is spent on; the models contain the behaviour:

* The recovery adapter ignores the cursor (`browser_adapter.py:135`): as the answer for a later page
  it collects the first one again, and the collection ends as if complete. `CursorProgression` therefore
  excepts its batch (`contracts/capabilities.v1.json:31` demands CURSOR_PROGRESSION of the capability).
* Where a post's link is not found its id is a hash of its text (`browser_adapter.py:109`), so equal
  texts become one object; `architecture.md:436` forbids that. Contents are not in the models.
* `COLLECTOR_MAX_PAGES` above 10 makes every legacy search without `max_pages` fail for good
  (`config.py:106`, `worker.py:158`): the setting is filled in before the contract's maximum is checked.
* Stale entries are reclaimed only when a read finds nothing new (`worker.py:485`), so under a steady
  stream of submissions a crashed worker's delivery waits; `RecoveredInTime` is stated without such
  traffic, and no property covers this (`implemented.md:97` makes no such exception).
* The alert scan compares the start of a clock hour with an hour back from now (`analytics_alerts.py:37`),
  so it adds up the current clock hour only, and misses a spike over its turn. `AlertsAreTrue` says
  only that an alert is never false.
* The brief daemon waits an hour after a brief is finished (`analytics_briefs.py:117`) and looks back an
  hour from the next one's beginning: posts that come in while a brief is written are in none.
* A repeated delivery stores its observation under the key of the first, which stays
  (`analytics_parser.py:255`): larger counters reach the feed row and no observation.

Known limits of the system that its own documents state, and that are no findings here: ABA of
shared worker ids, loss of the Redis dataset, the untrimmed stream.

## 7. Not modelled

The API server only reads. The legacy `OutboxDispatcher` is used by nothing. Of the adapters, the
network, the browser's page and the mock data are left out: nothing of them outlives a request. The
keyword extraction and sentiment of `analytics_parser.py` are a function of the text, which the model
takes as the set of its words. Loss of the Redis dataset, XAUTOCLAIM's scan window and the untrimmed
stream are questions of operation and capacity. Of the migrations, `0002_observations.sql` also changes data: it
fills in timestamps of the feed, empties the rollups and rebuilds them and the contributions from the feed, on
every run; that is left out, as are the schema statements. The retention and the purge of the cleanup daemon are
one transaction in the code and two steps here: both touch `social_ingestion_observations`, but the purge only
clears `ingestion_task_id` there (ON DELETE SET NULL), which no model keeps.

## 8. Plan

What was planned is modelled, checked and proved. If the code changes, the places to start from are:

1. A lock on the bucket in `_rebuild_rollup_bucket`, or one statement instead of two: `RebuildsInTurn` then
   becomes an invariant, and `overlapping_rebuilds` a passing run.
2. A count of leases under the row lock in `checkout_token`: `OverlapWithin(1)` becomes an invariant,
   `session_slots` a passing run, and the mapping of `LendingSpec` loses its extra slots.
3. A unique lease token per worker run (`plan.md:105`): `SoleFencedExecutor` then needs no distinct names.
4. A redrive after the loss of the Redis dataset, once there is one: `RedisStream` has to lose its state.
