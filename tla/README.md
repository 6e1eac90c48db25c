# A TLA+ verification of fraiseql

fraiseql is a compiled GraphQL engine in Rust: a CLI compiles a schema, and a
server answers queries and mutations by SQL against views and functions of a
database, with caches, federation, observers and subscriptions around it. The
code is a workspace of crates under `src/crates/`.

This directory holds TLA+ modules for the parts whose correctness depends on
interleavings, failures and orders of calls, TLC configurations for small
instances of them, and TLAPS proofs for all instances. `PROJECT.json` maps each
definition to the lines it models.

## Inventory

| Component | State | Operations | Interacts with | What is hard | What makes it correct |
|---|---|---|---|---|---|
| Row cache, `cache/result.rs` | moka store, view, list and entity indexes, byte counter | put, three invalidations, clear, eviction listener, expiry | every request thread, moka's maintenance | no lock spans two of these structures; the listener runs inside other calls | indexes and store agree, an invalidation misses nothing, charges are released once |
| Cascade graph, `cache/cascade_invalidator.rs` | forward and reverse dependency maps, statistics | add_dependency, cascade_invalidate, reachability queries, clear | the adapter, which calls it under a mutex | work lists over arbitrary graphs | acyclic graph, exact closure, termination |
| Response cache, `cache/response_cache.rs` | moka store, view index | get, put, invalidate_views | executor | as the row cache | an invalidated view is not served |
| Query and mutation protocol, `runtime/executor/{query,mutation}.rs`, `cache/adapter/` | both caches and the database | get, read, fill; commit, bump, invalidate | all of the above | commit, invalidations and fills interleave; a committed mutation can end in an error | no stale row after a mutation returned |
| Sagas, `fraiseql-federation/src/saga_*` | two PostgreSQL tables, one flag per recovery manager | execute, compensate, recover, clean up | any number of processes, through the tables only | crashes, lost replies, overlapping calls, unconditional updates | steps in order, all or nothing, no saga forgotten |
| Fact table versions, `cache/fact_table_*.rs` | cached version per table | read, bump, fill | database, other instances | versions cached for a second | an aggregate is not older than its version |
| Federation circuit breaker, `fraiseql-server/src/federation/circuit_breaker.rs`, `routes/graphql/handler.rs` | breaker per entity type | check, record_success, record_failure | request handler | a probe whose outcome is never recorded, outcomes of another phase | few probes at a time, recovery possible |
| Outbox bridge, `fraiseql-observers/src/transport/bridge.rs` | change log, marks, checkpoint row, cursor | fetch, publish, mark, save | database, NATS, other bridges of its name | ids committed out of order, a stop between publish, mark and checkpoint | every committed row is published |
| Event consumers, `transport/nats.rs`, `deduped_executor.rs`, `dedup/redis.rs`, `executor/` | acknowledgements, claims, dead-letter counter | deliver, acknowledge, claim, run actions with retries, un-claim | NATS, Redis, endpoints | redelivery, expiring claims, crashes after the acknowledgement | no event dropped, actions once per claim |
| Job queue, `fraiseql-observers/src/queue/` | six Redis keys, worker tasks | enqueue, dequeue, four mark operations, start, stop | Redis, other processes | each operation is several commands, any of which may be the last | a job is run once, and never out of sight |
| Observer listeners, `fraiseql-observers/src/{listener,checkpoint}` | leases, checkpoints, heartbeats | poll, acquire, renew, fail over | database, Redis | pauses past the lease, ids committed out of order | no event lost, one listener at a time |
| Second job queue, `fraiseql-observers/src/job_queue/` | lists in Redis | dequeue, acknowledge, fail | Redis | crash between two commands | its executor is a placeholder so far |
| Persisted queries, `apq/` | bounded store | register, look up | Redis | capacity | a registered query is found or reported missing |
| Authentication, `fraiseql-auth` | one-shot states, sessions, rate windows | create, consume, refresh | Redis, PostgreSQL | concurrent consumption, window edges | a state is consumed once |
| Secrets, `fraiseql-secrets` | key versions, leases | rotate, refresh | vault | rotation during use | no data under a lost key |
| Wire client, `fraiseql-wire` | connection state, stream channel | query, stream, pause, close | PostgreSQL | back-pressure, early close | legal protocol states |
| Subscriptions, `fraiseql-server/src/subscriptions` | subscribers | subscribe, deliver, complete | websockets | slow consumers | order per subscriber |
| Compiler, SQL generation, CLI, SDKs, arrow and webhook adapters | none, or none shared | translation, I/O | | | pure functions or plain I/O |

`PROJECT.json` lists these components with their status, and under `hazards`
what is hard to test in them, at the line where it bites.

## Modules

Each component `X` has a module `X` (state, actions, properties), `MCX`
(constants of the TLC instances) and `X_proofs` (theorems; those about the event
consumer are in `ObserverPipeline_proofs`, since the pipeline extends it).
`ChangeFeed` and `JobLife` are abstract specifications. Mutated versions of
actions, marked "Mutant" in a comment, stand before the action they vary; they
are in no specification and show that the properties can fail.

### QueryResultCache

`put_arc` is a sequence of actions: the early returns (`Admits`, in `PutStart`),
registration in the view, list and entity indexes, the charge, the insert. The
three invalidations share their second half: collect keys index by index,
then remove key by key. `clear` is five actions, one per statement. Any number
of threads run these.

moka is external and modelled from how the code uses it. A key's value is
*live*, or *dead* (expired, or cleared: `get` does not return it, moka still
holds it), or absent. The eviction listener runs when a value physically leaves,
which includes being replaced by an insert; it runs synchronously on the thread
that caused it (`result.rs:554`) under moka's lock for the key, so it is part of
that action. Registration in the view index, and that in the list index, is one
step over all views of the key: an invalidation collects each view on its own,
so a finer grain only adds states that differ in the views not yet collected.
Memory is counted in units of `entry_overhead()`, the only amount ever added or
subtracted, modulo `Wrap`. Rows are abstracted to their number, their entity
references and their size. Metrics are left out.

History variables (`kind`, `targets`, `fresh`, `stripped`, `lossy`, `drift`)
are read by properties only. `lossy` marks a value that was registered while
another value of its key was removed or the cache cleared: the code loses its
index entries then, and the properties excuse exactly those values. The run
`row_cache_refill` shows that the excuse is needed.

### CascadeInvalidator

One action per iteration of each work list (`can_reach` inside
`add_dependency`, `cascade_invalidate`, `get_transitive_dependents`,
`has_dependency_path`), with a set for the queue, which covers every visiting
order. The average in the statistics is left out.

### MutationCoherence

Composes the two cache tiers with the database. A cache call is one step here;
what its inside can leave behind, by QueryResultCache, is kept: a fill over a
value still held, or one that a removal overlaps, ends outside the indexes
(`indexed` false). A query goes response cache, row cache, database, row fill,
response fill; a mutation goes commit, fact-table bump, and then up to four
invalidation calls. Rows are versions. `Faulty` lets a committed mutation end in
an error before its invalidations, which is what the code does when the result
row is missing or malformed or the bump fails.

Which calls a mutation makes is decided as in `mutation.rs:398-450`, by its
definition (`invalidates_views`, and the view of its return type) and by what its
result row names: nothing, an `entity_id` alone, or `entity_id` and
`entity_type`. Whether it created, changed or deleted the row plays no part. Both
columns lead to eviction by entity, of row entries that hold the entity and of
responses over the view of the type. A missing `entity_id`, or declared views, lead
to eviction by view: of list entries without an `entity_id`, of all entries with
one; over the declared views if there are any and over the view of the return type
if not. `CachedDatabaseAdapter` adds dependent views (`Expanded`), the response
cache does not. The targets of each call are operators of their own
(`EntityRowTargets`, `ViewRowTargets`, `EntityResponseTargets`,
`ViewResponseTargets`).

A mutation therefore misses entries it made stale. `suspect` (history, in every
slot and for every reader) are the entities for which what is held may be out of
date: because a mutation committed whose own calls do not name the slot
(`RowsMissed`, `ResponsesMissed`), because it ended in an error, or because it
overlapped the read the rows come from. The code offers nothing for these; the
properties say that everything else is up to date once the mutation returned, in
every interleaving of the calls of several mutations with reads and fills. The
mark is set at the commit and goes with the slot, so a refill starts clean.
Queries do not share slots and invalidations treat each slot on its own, so the
instance has one list query, over a view that a second, declared view is related
to by the cascade only; the theorems are about any number.

### Saga

Store, executor, compensator and recovery loop in one module, because the tables
are all they share. Each store call is an action with an outcome: applied and
acknowledged, applied with the reply lost, or not applied. Consecutive reads
without a write between them are one action. A call may crash between any two
actions. The subgraph mutations are placeholders in the code, so a step's recorded
result stands for its effect. Cleanup deletes what `saga_store.rs:867-871` deletes,
completed and compensated sagas. The recovery loop is split at every point where it
reads or writes shared state; its count of executing sagas changes nothing and is
left out. Time appears as a free choice of what is stale.

### CircuitBreaker

A breaker per entity type with its three states, and any number of requests
around it: `execute_graphql_request` checks the entity types of an `_entities`
request one after the other, resolves the tenant, executes, and records the
outcome type by type. Every early return is there (`Reject`, the error in
`Resolve`), and so is the future that is dropped while it awaits the execution.
`check`, `record_success` and `record_failure` hold the breaker's mutex and are
one step each. History: `holder` is the request whose check last set
`probe_in_flight`, `abandoned` says it left without recording, `probes` are the
requests a half-open phase admitted, `strays` counts outcomes that other requests
recorded in it.

### NatsBridge and ChangeFeed

`NatsBridge` has the transactions that write the change log, which take ids when
they insert and commit in any order, and any number of bridges that share one
checkpoint row. One action per database or NATS call; each may fail, and a
failing call may have been carried out. `passed` (history) are the rows that were
uncommitted when a fetch returned a later id: the cursor goes past them, and the
properties excuse exactly those.

`ChangeFeed` is the abstract specification: committed rows are delivered in any
order, any number of times, and the position a restart resumes from never stands
after a row that may still have to be delivered. `ImplementsFeed` states that the
bridge implements it, with `stream` for the feed and `checkpoint` for the
position.

### EventConsumer

The workers of one process: delivery by the durable consumer, the filter, the
acknowledgement (which comes *before* the event is handed out), the raw
dead-letter push of what cannot be decoded or belongs to another tenant, the
claim with `SET NX`, fail-open when the store gives an error, the actions with
retries and failure policies, the dead-letter cap, the un-claim after a failure.
A message that is not acknowledged may be delivered again, and a claim may expire,
at any time. `lapsed` (history) marks messages handled without a claim of their
own, `interrupted` those a crash took from a worker. `runs` counts successes under
the current claim and stops at 2.

`run_with_transport` (`retry.rs`) itself calls the plain executor; the factory
hands the deduplicating one out for the same interface, and the loop with that
executor is the pair modelled. A plain executor behaves as the model does when the
store gives an error. A dead-letter push that returns an error may have been stored
(`PushDlqFails`); the code does not count it. `pushed` (history) counts the entries
of failed actions, `unconfirmed` those of them whose push returned an error, at
most `MaxUnconfirmed` per process. Raw pushes go to the same queue, are not subject
to the cap and are in neither.

### ObserverPipeline

Extends `EventConsumer` and puts the bridge, by INSTANCE, in the place of its
publisher: the two share the stream. A row becomes a message per publication, with
a fresh event id each time.

### JobQueue and JobLife

`RedisJobQueue` and its worker pools, in `queue/`. (The factory wires the other
queue, `job_queue/`, whose executor is a placeholder; this one is complete and
exported by the crate, `lib.rs:141`, for callers to wire.) Every operation of the
queue is a sequence of single Redis commands, so each command is an action, and
after each one the operation may stop: the command failed, was applied and its
reply lost, or the process died. Job data and completed records are written with a
TTL of a day, and `Expire` takes either at any time; the field `expired` (history)
keeps the jobs whose completed record went. `abandoned` (history) records the
command at which a job was left. The order of the pending set, the backoff and the
counters nobody reads are left out.

`JobLife` is the abstract specification: what a client may rely on whatever fails.
A job has a status (those of `JobStatus`, before them *new*, *left* for a job
whose operation stopped half way, and *forgotten* for a success whose record
expired) that never goes back. Its action is executed at
most once, only while it is processing, and a result is recorded only after that.
A job that waits for retry is never taken up again, which is what the code does.

## Runs

| Run | Instance | Shows |
|---|---|---|
| `row_cache` | 2 threads, 1 key reading 2 views, 2 rows, TTL on and off, budget of 1 entry, clear | `TypeOK`, `MemoryConserved`, `IndexesNoDangling`, `IndexComplete`, `InvalidationComplete`, `BudgetOvershootBounded` |
| `row_cache_refill` | 1 thread, 1 key | violated: `EveryLiveEntryIndexed` |
| `cascade` | 4 views, 2 cascades counted | `TypeOK`, `Acyclic`, `CascadeExact`, `PathExact`, `TraversalEnds` |
| `coherence` | 3 rows, 2 views, 1 list query, 2 mutation definitions, 1 reader, 2 writers, versions up to 3, faults | `TypeOK`, `NoOldRow`, `ListsComplete` |
| `saga_concurrent` | 1 saga of 2 steps, 2 workers, 1 loop, faults, crashes | `TypeOK`, `StepsInOrder`, `CompletedHasAllResults` |
| `saga_sequential` | 2 sagas of 2 steps, 1 worker, 1 loop, faults, crashes | `CompletedKept`, `CompensatedClean`, `CleanupLosesNothing`, `CallsReturn` |
| `breaker` | 2 entity types with thresholds 2 and 1, 2 requests | `TypeOK`, `ProbeHeld`, `ProbesBounded`, `Recovers` |
| `bridge` | 2 bridges, 3 rows, one of them not convertible, batches of 2, 3 messages | `TypeOK`, `NoLoss`, `Delivered`, `ImplementsFeed` |
| `consumer` | 2 workers, 1 message of 5 kinds of event, 2 actions, 2 attempts, cap 1, 1 unconfirmed push | `TypeOK`, `OncePerClaim`, `OneRunner`, `DlqBounded`, `NoneDropped`, `Handled` |
| `pipeline` | 1 bridge, 1 worker, 2 rows, 2 messages, no actions | `EndToEnd` |
| `pipeline_once` | the same with 1 action | violated: `RowActionsOnce` |
| `job_queue` | 2 jobs, one on its last attempt, 2 pools of one worker | `TypeOK`, `OneOutcome`, `InSight`, `Settles` |

**Bounds.** All races of the row cache are between two calls on one key, so two
threads on one key reach them; two views make an invalidation collect index by
index, and a budget of one entry lets two concurrent puts overshoot it. `Wrap` is
8, larger than any number of charges outstanding at once, as a 64-bit counter is.
Four views give diamonds, chains of three edges and every cycle they could close.
Three rows let a cached list of two miss a created third; two definitions, one that
declares a view and one that does not, with three kinds of result row, give every
branch of the invalidation code, and a second view the cascade; three versions let
one row be created, changed and deleted while the others change. Two steps give an
earlier and a later one; two sagas exceed the batch of one. Two requests are a
probe and an outcome of an earlier phase; a second entity type is needed for the
request that is rejected after it became a probe. Three rows in batches of two let
a row commit behind the cursor and the next batch begin elsewhere; two bridges
overwrite each other's checkpoint; `MaxPublish` leaves room for one republication.
Claims, redeliveries and runs of different messages do not meet, except in the
dead-letter counter, so one message with two workers reaches the races, the counter
included (the message is delivered twice); one unconfirmed push is enough to
overrun the cap uncounted. The pipeline leaves the actions to `consumer` and keeps
the way of a row to its end. Jobs share nothing but the pools, so two are enough.
`MaxCascades`, `MaxWrites`, `MaxRow`, `MaxPublish`, `MaxMsg` and `MaxUnconfirmed`
bound what only grows. `saga_sequential` has one worker because its properties fail
when calls overlap on a saga; the theorems need no more than that they do not.
Symmetry is used over threads, workers, writers and rows, in runs with invariants
only.

**Fairness.** `TraversalEnds` assumes that a call which holds the mutex goes on
with its loop. `CallsReturn` assumes that tokio polls every task and that each
store call ends, with a result or an error; nobody is obliged to call the API,
and calls may crash. `Recovers` assumes that time passes and that requests are
polled; that requests keep arriving, that the subgraph is healthy and that no
probe is abandoned are its hypotheses. `Delivered` assumes that transactions end
and that a stopped bridge is started again; its hypothesis is that from some point
on no call fails. `Handled` and `Settles` assume that a worker which can go on is
scheduled; the hypotheses are that crashes and failing acknowledgements end, and
that some worker stays in its loop.

## What the violated runs show

- `row_cache_refill`: an entry expires, a query refills it. `put_arc` registers
  the key and inserts; the insert replaces the expired value, and the listener,
  run for the *old* value, removes the key from the indexes. The new value is
  served until its TTL, whatever is invalidated. `docs/modules/cache.md:100`
  promises that invalidation removes it.
- `pipeline_once`: the column `nats_event_id` is set together with the mark, after
  the publication. A bridge that stops between the two, or whose publication is
  stored and its confirmation lost (the shorter trace), publishes the row again
  under a fresh event id, and the deduplicating executor, which claims by event
  id, runs the actions of both messages. `deduped_executor.rs:14-17` promises
  that there are no duplicate side effects.

Further disagreements that the models make visible and that have no run, because
the properties above are stated around them:

- `clear` zeroes the byte counter while moka still holds the values; their later
  removal is subtracted from zero (`drift` counts it).
- A list query that returned no row or one row is not a list for the cache, so a
  create does not evict it (`ListsComplete` is about longer lists).
- The comments at `mutation.rs:385-391` and `417-418` equate a missing `entity_id`
  with a create: "View-level ensures list queries return the new row". The code asks
  only for the column. A create whose row carries an `entity_id` and that declares no
  views evicts no list; one that returns the id without `entity_type`, as the
  function of `grpc_transport_e2e_test.rs:744-751` does, evicts nothing. An update
  that returns no `entity_id` evicts lists only.
- Declared `invalidates_views` replace the view of the return type
  (`mutation.rs:421-432`): with the definition of
  `tests/fixtures/golden/05-security-inject-cache.json:59`, lists over the type's own
  view stay. `schema/compiled/mutation.rs:87-92` says that all entries of the
  declared views are cleared; without an `entity_id` only lists are.
- Cascading to dependent views happens in the row cache only; responses over a
  dependent view stay until their TTL.
- The header of `saga_recovery_manager.rs:23` says "Completed/Failed ──[Age
  Threshold]──> Cleaned". `cleanup_stale_sagas` (`saga_store.rs:867-871`) deletes
  completed and compensated sagas and keeps failed ones for good.
  `CleanupLosesNothing` holds because of that; with the documented behaviour, its
  mutant, a failed saga is deleted with steps that nobody undid.
- `executor/mod.rs:56` and `config/runtime.rs:57` speak of the maximum number of
  entries the dead letter queue may hold. The cap counts the pushes of one process
  that returned Ok: workers that pass the check together, pushes stored in spite of
  an error and raw pushes (`deduped_executor.rs:277`, `retry.rs:213`) go beyond it,
  and a restart begins at zero. `DlqBounded` says by how much for failed actions.
  Moreover only `new_with_dlq_limit`, which nothing but tests calls, sets a cap: the
  other constructors leave it `None`, and the `max_dlq_size` of the configuration
  reaches no executor.
- `queue/mod.rs:173` says that dequeue "atomically marks job as processing". It pops,
  reads and marks in three commands; `InSight` names the window. A completed job is
  known for a day (`queue/redis.rs:168`), after which nothing tells it from one that
  was never submitted.
- Two overlapping executions claim the same saga step, and the saga may end
  completed with a step that is executing; `CompletedHasAllResults` is what
  survives. Sagas left executing by a crash are counted and never resolved. Stop
  and start within one interval leave two recovery loops running.
- The comment at `circuit_breaker.rs:71-72` speaks of one probe at a time; an
  outcome of a request admitted earlier clears the flag of a running probe.
  `ProbesBounded` says how many run. A probe that leaves without recording leaves
  the breaker half-open until such a stray outcome comes.
  Its `consecutive_failures` are all failures since the breaker closed: a success
  in the closed state resets nothing.
- `bridge.rs:20-23` says "Zero data loss"; a row that commits after a later id was
  fetched is passed over.
- `retry.rs:196-197` says that a message is acknowledged after processing;
  `nats.rs` acknowledges it before it hands the event out.
- In `queue/`, nothing takes jobs out of the retry set, and `stop` waits for tasks
  whose loop has no return.
- `docs/modules/cache.md:73` says that a TTL of 0 stores nothing; `put_arc` stores
  such an entry without expiry, as its comment says.

## Proofs

All theorems hold for every value of the constants under the named assumptions
of each module: finite sets of threads, keys, views and entities, a counter
wider than the charges outstanding at once, a finite set of jobs, at least one step
per saga, a batch, a retry limit and a dead-letter cap of at least one.

- **QueryResultCache_proofs.** `TypeCorrect` carries `CallsOK`, which says what a
  call's locals hold at each step. `NoDanglingIndexes` is inductive with it, index
  by index. `IndexComplete` is not inductive: `RegistrationInvariant` adds what a
  put in progress has registered so far unless a removal struck
  (`stripped`). `InvalidationIsComplete` adds that a matching value is, at each
  point of an invalidation, still to be collected, collected, or new.
  `MemoryIsConserved` counts: each action changes the number of values and the
  number of charged puts as it changes the counter; `DriftBounded` keeps what
  `clear` forgot below the counter's width. `OvershootIsBounded` follows from it,
  since a thread passes the gate only while the counter is below the budget.
- **CascadeInvalidator_proofs.** `LoopInvariants` gives each traversal its
  invariant: the visited set is closed but for the queue, and lies in every
  closed set that contains the start. Exactness of the three answers follows,
  and from the answer of the cycle check, `GraphAcyclic`: an edge whose target
  does not reach its source leaves every set of views with a member that
  depends on none of them.
- **Saga_proofs.** `StepsRunInOrder` and the two theorems about results rest on
  `ForwardInv`: a worker past the claim of a step knows that every earlier step
  left a result, and results are never taken back to none. It needs no
  assumption on how calls overlap. `CompletedIsKept`, `CompensatedIsClean` and
  `CleanupKeepsOrUndoes` do: the store's updates are unconditional, so two
  overlapping calls can each undo what the other did. Their hypothesis is
  `[]OneCallPerSaga`: any number of workers, no two of them on one saga at once;
  recovery loops overlap with everything. `ExclusiveInv` says what a call that has
  its saga to itself knows at each point: an execution, that every earlier step is
  completed with its effect there; a compensation, that every step is undone,
  still to be undone or counted as failed. A recovery loop may set the saga back
  to executing at any of these points, and the invariant is stated so that it
  survives that. `OneWorkerSuffices` discharges the hypothesis for the instance of
  `saga_sequential`.
- **MutationCoherence_proofs.** One inductive invariant, `Coherent`, carries both
  properties: `RowOK` for each row slot, `ReaderOK` for what a reader is about to
  cache, `ResponseOK` for each response slot. Each says that what is held differs
  from the database (an old version, or a row a list lacks) only for entities that
  are suspect or that a mutation still under way is going to evict there: the sets
  `OldPending`, `ListPending` and `ResponsePending`, computed from the same targets as
  the calls. It is needed because the properties alone say nothing while a mutation
  is under way, and a response is filled from a row slot that is about to go.
  `NoOldRowServed` and `ListsAreComplete` follow, for every set of definitions, views
  and dependents.
- **CircuitBreaker_proofs.** `ProbeIsHeld` and `ProbesAreBounded` rest on an
  invariant that ties the history to the requests: a probe of the current phase
  is a request with that entity type in hand, not yet recorded, and a flag without
  such a request means it was abandoned.
- **NatsBridge_proofs.** `NothingLost` needs an invariant about every cursor,
  not only about the checkpoint: what a bridge has gone past, or would save, is
  published, excused or not committed; a row below it that is still open is in
  `passed`. `BridgeImplementsFeed` is the refinement: `Init` maps to the feed's,
  `End` to a commit, a publication to a delivery, a fetch to an excuse, each write
  of the checkpoint to a move (allowed because of the same invariant), and the
  rest to stutters.
- **ObserverPipeline_proofs**, the consumer: `OneRunnerPerClaim` says that a
  message that has not lapsed and is being run has its key in the store;
  `OneSuccessPerClaim` adds that actions from the current one on have not succeeded
  yet. `NothingDropped` adds that a claimed message without a runner was finished
  or interrupted. `DlqIsBounded` counts the workers between check and count: the
  entries pushed are those counted, those of workers about to count and the
  unconfirmed ones, and only the last have no bound but their own number. The
  pipeline: `EndToEndHolds` is compositional. Every step of it is a step or a
  stutter of each component, so the invariants of the two carry over, and the
  property follows from `NoLoss` and `NoneDropped`.
- **JobQueue_proofs.** `OneOutcome` and `InSight` rest on `QueueInv`. `HolderOK`
  says what a worker's position implies for the job it holds: nobody else holds
  it, whether it was executed, and which keys it is in. `JobOK` says that a job
  that is not yet pending, or still is, was touched by nobody; the proof that a pop
  hands it to one worker rests on this. `Resting` says that a pool that is down has
  no worker in its loop, so a start finds none at work. `Touch` and
  `Forgets` reduce each command to the one worker and the one job it is about.
  `TypeCorrect` includes the bound on the success counter, which needs `CountInv`:
  the counter is at most the number of jobs completed, expired records included,
  that no worker holds, since
  the increment is the last command and gives the job up. `QueueImplementsLife` is
  the refinement: `Status` reads a job's status off the keys, the worker's hands
  and `abandoned`; each command moves one job along one edge of `JobLife` or none,
  a crash leaves all jobs of its pool at once, and an expiring completed record is
  the step from success to forgotten. The refinement and both
  invariants were model-checked on the instance of `job_queue` as well.

Only model-checked: liveness (`TraversalEnds`, `CallsReturn`, `Recovers`,
`Delivered`, `Handled`, `Settles`), which is beyond the prover. Every invariant of
a passing run is stated by a theorem. No operator is defined by RECURSIVE, and no
theorem needs induction over data.

## Not modelled

Metrics and logging; the contents of rows beyond identity and version; hashing of
cache keys (two queries with one key are out of scope); authorization and
projection; relay queries, which bypass the response cache; queries that filter by
column values, whose membership an update can change (listed as a hazard); the
internals of moka, PostgreSQL and Redis. The components marked `not_modelled` in
`PROJECT.json` carry the reason.

## Plan

1. Action properties of `Saga` (what a step row may never return to) and of the
   breaker's phases, as theorems.
2. Observer listeners: leases and failover, as another implementation of
   `ChangeFeed`.
3. Response cache internals as a module of their own, and `MutationCoherence`
   shown to abstract it and `QueryResultCache` by refinement.
4. Fact table versions over several instances.
5. Queries that filter by column values in `MutationCoherence`.
6. Bounded stores: persisted queries, one-shot states and rate windows of the
   authentication crate, the wire client's stream channel.
