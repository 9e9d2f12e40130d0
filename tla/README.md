# Verification of active-ts

active-ts is an Active Record style data layer: models are written through pluggable
stores, read through an entity cache, and mirrored into search indexes by an outbox and
workers. This directory holds TLA+ models of the parts whose correctness depends on the
order of events, the TLC runs that check them on small instances, and proofs that TLAPS
checks for every instance. Paths below are relative to `src/src/`.

## 1. The system

| Part | State | Operations | Talks to |
| --- | --- | --- | --- |
| Outbox plugin (`core/outbox-plugin.ts`) | none | append an event from afterCreate/afterUpdate/afterDelete | outbox, transaction of the write |
| Store outbox (`core/outbox-store.ts`, `outbox-protocol.ts`) | event rows (version, lease token and expiry, attempts, availableAt, dead letter), search revision rows | append, lease, isLeaseCurrent, reserveSearchRevision, renewLease, release, retry, deadLetter, ack, drain, requeue | a store with optimistic locking and/or transactions |
| Search-sync worker (`core/outbox-worker.ts`) | the leased batch, the delivery in progress, failures to settle | runSearchSyncWorker | outbox, stores, hooks, search adapters, dead-letter sink |
| Search backends (`adapters/search/*`) | documents and accepted revisions | index, delete, search | the worker, models |
| In-memory outbox and recovery (`core/outbox-memory.ts`, `outbox-recovery.ts`) | an array of events | drain, requeue, recovery of failed drains | the worker |
| Entity cache (`core/context.ts`, `cache-versioning.ts`, `adapters/cache/*`) | cache entries and versions, epochs per key, poisoned keys | load, fill, invalidate | stores, model lifecycle |
| Transactions (`core/context.ts`) | attempt, deferred tasks, dirty keys, savepoint stack, tracked operations | transaction, transactionResult, savepoint, reuse, afterCommit, afterRollback | stores, entity cache |
| Function cache (`core/function-cache.ts`) | two cache levels, epochs, pending writes, in-flight computations | get, peek, set, invalidate, refresh | cache adapters |
| Batch loader, execution budget (`core/batch-loader.ts`, `execution-budget.ts`) | queued ids; attempts and deadline | load, flush; run, backoff | stores |
| Stores (`adapters/store/*`) | rows, transaction snapshots | CRUD, query, transaction, savepoint | SDKs |
| Datastore id repair (`adapters/store/datastore-id-repair.ts`) | migration checkpoint | scan, plan, apply | Datastore |
| Models, hooks, metadata, queries, relations, validation, schema, CLI | mostly none of their own | | |

What is hard in it: workers that race for leases, lose them while a request is under
way and act on stale snapshots; requests that time out and land later; commits whose
outcome is unknown; cache fills that race invalidations; callbacks that a store runs
twice; failures of the clean-up after a failure. What makes each part correct:

* search synchronisation: no committed write is lost for the index, a late or repeated
  mutation never makes a document that is up to date wrong again, every write gets
  through in the end, and the outbox does not silt up;
* entity and function cache: after an acknowledged write no reader of the process is
  given a value older than it, whatever fills were under way;
* transactions: deferred tasks run exactly when the attempt they belong to committed,
  evictions also run when the outcome is unknown;
* stores: committed transactions are serialisable as far as the adapter claims;
* batch loader and budget: every caller gets its own row; no more than the permitted
  attempts, and none after the deadline;
* middleware, hooks and models: a write is made at most once and reported as it went,
  an instance never overwrites a version it has not seen, a bulk is all or nothing;
* queries, relations and search reads: a query stays in its scope whatever hooks add,
  pages neither skip nor repeat rows that nobody touches, a result belongs to the owner
  and the rows it was computed from;
* schemas and id repair: who is told applied has what was declared, also next to other
  deployers; a repair loses no entity while the application writes.

The hazards behind these are listed line by line in `PROJECT.json`.

## 2. Modules

One module models one mechanism of the code: its state as variables, one action for each
handler, or for each piece of a handler between two awaits. `PROJECT.json` maps every
definition to its lines.

| Module | What it is | Code |
| --- | --- | --- |
| `OutboxStore` | the outbox tables and the effect of every operation of the leased contract | `outbox-store.ts`, `outbox-protocol.ts` |
| `SearchSync` | `OutboxStore` composed with writers, workers, the search backend, the network in between, clocks and faults | `outbox-worker.ts`, `outbox-plugin.ts`, `search/memory.ts` |
| `IndexContract` | the abstract specification: what search synchronisation promises | |
| `OutboxDrain` | delivery without leases: drain, deliver, requeue, recovery; row-by-row acknowledgement | `outbox-memory.ts`, `outbox-recovery.ts`, `outbox-store.ts` |
| `EntityCache` | loads, fills, writes and invalidations through the entity cache, local and distributed | `context.ts`, `cache/*` |
| `FunctionCache` | the two-level function cache: single flight, refresh, set, invalidate, stale values | `function-cache.ts` |
| `BatchLoader` | loads collected in a turn and flushed in chunks | `batch-loader.ts` |
| `ContextTransaction` | attempts, savepoints, deferred tasks, deferred evictions, tracked models, lost answers | `context.ts` |
| `SavepointGate` | the guard of an open store transaction: operation tracker and savepoint gate | `store-options.ts` |
| `ExecutionBudget` | attempts and backoff under one deadline and one abort signal | `execution-budget.ts` |
| `MiddlewareWrite`, `MiddlewareRead`, `MiddlewareTransaction` | application layers around writes, reads and transactions of an adapter | `adapter-middleware.ts` |
| `HookPipeline` | lifecycle hooks and the soft-delete plugin | `hooks.ts`, `soft-delete*.ts` |
| `ModelWrites`, `ModelBulk` | save, delete, create and update of a model; bulks in a transaction | `model.ts` |
| `QueryBuild`, `QueryPages` | from builder calls to the plan a store runs; pages, cursors and changes in between | `query.ts`, `query-utils.ts`, `cursor.ts` |
| `RelationLoad`, `Preload` | lazy relations and their promise slots; `include()` on lists | `lazy-ref.ts`, `relation-*.ts`, `query.ts` |
| `SearchRead`, `SearchPaging` | hits against rows that change; search cursors of the backends | `query.ts`, `search-utils.ts`, `search-cursor.ts`, `search/*` |
| `SearchRevisions`, `SearchTasks` | revision-ordered writes of Elasticsearch/OpenSearch; tasks of Meilisearch | `elasticsearch-shared.ts`, `meilisearch.ts` |
| `MemoryStore` | direct writes and snapshot transactions of the in-memory store | `store/memory.ts` |
| `PostgresTransaction`, `MongoTransaction`, `SqliteConnection`, `FirestoreTransaction` | one transaction, session or connection of each store | `store/*.ts` |
| `RowWrites` | guarded writes of one row by several clients and what they are told | `store/*.ts` |
| `SchemaApply`, `SchemaPlans`, `SchemaCommand` | deployers applying schemas; plans deployed by hand; the command line | `store/*.ts`, `schema-utils.ts`, `context-schema.ts`, `cli.ts` |
| `DatastoreTransaction`, `DatastoreRead`, `DatastoreSnapshot`, `DatastoreBulk` | buffered transactions; portable reads; reads of several requests; batches | `datastore-runtime.ts`, `google-query-constraints.ts` |
| `IdRepair` | inventory, manifest and repair of drifted Datastore ids | `datastore-id-repair.ts` |
| `MCCaches`, `MCModels`, `MCStores`, `MCProgress` | instances for TLC (section 3) | |
| `SearchSyncProofs`, `EntityCacheProofs`, `SavepointGateProofs`, `StoreProofs`, `OutboxDrainProofs` | the theorems (section 4; `StoreProofs` has those of `PostgresTransaction`, `RowWrites`, `MongoTransaction` and `FirestoreTransaction`, `OutboxDrainProofs` also those of `SearchRevisions` and `SearchTasks`, `EntityCacheProofs` also those of `BatchLoader`; those of `SqliteConnection`, `DatastoreTransaction` and `MemoryStore` are at their ends) | |

How they fit together: a model write (`ModelWrites`, `ModelBulk`) runs its hooks
(`HookPipeline`), passes the layers of its adapter (`MiddlewareWrite`), reaches a store
inside or outside a transaction of the context (`ContextTransaction` over
`MiddlewareTransaction` over `SavepointGate` over one of the store modules), evicts the
cache (`EntityCache`, `FunctionCache`) and appends an outbox event (`OutboxStore`,
`OutboxDrain`), which a worker brings to a search backend (`SearchSync`,
`SearchRevisions`, `SearchTasks`). A read is built (`QueryBuild`), paged (`QueryPages`,
`DatastoreRead`), checked on its way back (`MiddlewareRead`), followed along relations
(`RelationLoad`, `Preload`) or begins at a search (`SearchRead`, `SearchPaging`). Each
module takes the neighbour's contract as its environment: the layer above calls in any
order the code permits, the layer below fails in any way its documentation permits.

### OutboxStore

A row is a record with the fields that the code compares in `isOutboxSnapshotCurrent` and
that its operations change. Time is not a number: a row whose `leaseExpiresAt` has passed
is in the set `lapsed`, a row whose `availableAt` is still to come is in `delayed`, and the
environment moves rows in and out of these sets. Since a renewal increments `version`,
comparing records decides the same as comparing every field of the event.

`created` is the `createdAt` of the row. An event of a write has its own (`created = id`);
a repair row repeats the one of the event it repairs, so it sorts *before* younger events
of the document, as in `outboxListQueryPlan`.

### SearchSync

`runSearchSyncWorker` is cut at its awaits. A worker's `pc` says which call comes next:

| `pc` | next call | lines of `core/outbox-worker.ts` |
| --- | --- | --- |
| idle, claim | `outbox.lease` (scan, then claim row by row) | 80; `outbox-store.ts` 124-188 |
| event | lease check of the next event | 156-179 |
| reserve, bump, revalidate | `reserveSearchRevision` | 195-216; `outbox-store.ts` 206-279 |
| read | `resolveSearchSyncMutation` | 217-228 |
| repair | `enqueueSearchSyncRepair` | 229-231, 668-700 |
| before | lease check, `beforeIndex`, lease check, mutation sent | 240-251 |
| await, lost | the mutation and the renewal timer | 251-294, 702-773 |
| ack, ackRepair | `afterIndex`, lease check, `ack` | 295-316 |
| cleanup, discard | the catch block before a mutation was started | 317-343 |
| settle, sinkAck | `settleSearchSyncFailures` | 345-467 |

Faults are actions that count up to `MaxFaults`: a store or hook call that throws with or
without having taken effect, a lost or late answer of the backend, a release that fails, a
lease that lapses under a run at work, a crash. Sending a mutation and the backend
processing it are separate, and a mutation whose caller gave up may stay on its way.

An entity is its version number. Update and delete are both a new version, the document
in the index is the version it was built from, and `reconcileFromStore` (which the plugin
and the repair rows set) makes the worker read the current version instead of the payload.

`base` and `last` are history variables used by the properties only.

### EntityCache

An operation of a task is cut at its awaits, and `op[t].pc` says which call comes next:

| `pc` | waits for | lines |
| --- | --- | --- |
| write | the store | `core/model.ts` 482-571, 1424-1442 |
| written, drop, dropped | `performInvalidate`: first bump of the epoch, the delete, its answer | `core/context.ts` 2430-2460 |
| get, got | the cache, then `afterCacheGet` | 1988-2050 |
| recover | the version of a failed key | 2051-2068 |
| read | the store | 2069-2093 |
| fill, set | `afterInstantiate`, then `beforeCacheSet` | 2094-2161, 3509-3559 |
| setting, stored, refused | `setMany` or `setManyVersioned`, then its answer | 3560-3616 |
| hook | `afterCacheSet` | 3638-3646 |
| undo, undone | the delete of a fill that an invalidation overtook | 3618-3637 |
| poison, poisoned | the delete of `poisonCommittedCacheSet` | 3653-3674 |
| return | the load resolves with `op[t].val` | 2162 |

A row is its version number, which every committed write raises; `Miss` is no entry. A
deleted row is a version as well, since a cached miss is a cached value.

Three mechanisms keep outdated rows out. The *epoch registry* (`held`, `epochs`,
`defaultEpoch`) belongs to a process: an invalidation raises the epoch of its key before
and after the delete, and a fill compares the epoch that its load captured. The *failure
registry* (`failures`, `poisoned`, `recovered`) makes loads bypass keys whose delete
failed. The *version tokens* (`tag`, `fresh`) live in the cache: with
`consistency: 'distributed'` a set names the token its load saw, and every invalidation
replaces it. Both registries have a limit and forget; `EpochLimit` and `FailureLimit` are
constants, so the runs make them overflow with two keys.

`Sync` distinguishes the memory adapter, whose `setMany` takes effect before it returns a
promise, from a cache server, where the request is on its way (`setting`) while other
operations go on. A set whose caller gave up joins `late` and may land at any time.

`acked`, `known`, `need` and `own` are history: the newest version whose write was
acknowledged, or ended in a process with or without an error of its invalidation, and
what these were when a load began.

### What EntityCache and SearchSync leave out

*Of the entity cache:*

* An operation has one key. `loadManyNow` handles each id of a batch by itself; what a
  batch shares is that one failure marks or cleans all its keys.
* With `negativeTtl` unset a miss is not cached; the models cache every row.
* Loads in a transaction bypass the cache, and invalidations wait for its commit
  (`dirtyCacheKeys`): in `ContextTransaction`.
* Custom cache keys with their owners, and hooks that change the rows they are shown.
* A delete that takes effect after its caller gave up only removes an entry, and a
  versioned one replaces a token: neither makes a row older.
* Which key is the oldest of a registry is left open: any but the one just used.
* The exhaustion of the epoch counter at 2^53.

*Of search synchronisation:*

* `lease` reads pages; the model scans all rows at once and then claims one by one.
  Rows that appear while the pages are read are found by the next scan.
* `release` and `retry` of several rows are one step; each row is changed independently of
  the others, so splitting the step adds no outcome for one document.
* An event belongs to one document. The order-key aliases of Datastore identities
  (`outboxEntityOrderCheckKeys`) and the deferral of a second event of one entity inside a
  batch are not modelled: `lease` hands out at most one row per document.
* The counter starts at 0 instead of a clock value; only its order matters.
* Writers share one clock, so `createdAt` orders events of one document as they commit.
* One search route per model. Adapters without `revisionWrites` need
  `allowUnsafeUnfencedSearchWrites`; that mode has no fence to verify.
* Writes append their event in their own transaction. Outside a transaction, and with a
  deferred append, a crash between write and append loses the event by design.
* The acknowledgement of stores with optimistic locking but without transactions, and
  the drain/requeue path of the worker: in `OutboxDrain`.

### Transactions of a context and their guard

`ContextTransaction` and `SavepointGate` are the two halves of a transaction. The first
follows what is deferred: a task, a cache eviction and a tracked model belong to the
attempt or savepoint in which they were registered, move to the scope around it when the
savepoint is released, and are dropped, or turned into rollback tasks, when it is rolled
back; if the outcome is unknown only the evictions run. The second follows what may run
at the adapter: an item is one tracked call, a piece of work or a savepoint; scopes are
the transaction and the bodies of savepoints. `Misbehave` lets the callback forget calls
and go on after it returned; `Reentrant` lets an operation open a savepoint and wait for
it. A reentrant callback can wait for a savepoint that waits for it (a deadlock its author
writes, not one of the gate), so the liveness instance has no reentrance.

`MiddlewareTransaction` wraps the transaction of a store and its retries; `ExecutionBudget`
decides whether another attempt begins. Middleware is application code and trusted in one
respect: what it returns is what the caller is told, once the checks of
`runRequiredMutationMiddleware` and of the read path have passed.

### Models, hooks and queries

`ModelWrites` has one versioned row, one or two instances of it and other processes that
write it; the store may lose an answer. `NoBlindOverwrite` exempts a row that was deleted
and created anew: a version starts again then, and the code cannot tell it from the old
one. `ModelBulk` is a bulk in a transaction whose callback starts bulks it does not wait
for. `HookPipeline` has the order of plugins and models, payload merging and the rule
that keys cannot be changed; the soft-delete guard means what `filterRows` makes of a
missing or null field. A hook that removes branches of a query is not protected against,
and none of the properties says so. `QueryBuild` has a root condition that is normalised
to *where and (one of the branches)*. `QueryPages` covers keyset cursors and offset pages;
an offset page without a sort gives no guarantee, and none is stated.

`RelationLoad` takes a snapshot of the owner's key and of the result around every hook,
as the code does; `Preload` deals chunks of rows out to owners, copies where owners share
a row, and refuses a nested include over a shared target (the code throws). The lazy-load
warnings are left out.

### Stores

The stores are modelled from the calls the adapters make and from what these rely on:
commits that apply all or nothing, answers that may be lost, statements that abort a
transaction at the server. What differs between them:

* `MemoryStore`: a transaction conflicts if a row it read *by id* changed; reads inside a
  savepoint that was rolled back are not checked (the code restores the read set).
* `PostgresTransaction`: nested statement scopes, `COMMIT` of an aborted transaction
  answers `ROLLBACK`, a client goes back to the pool clean or not at all.
* `MongoTransaction`: an operation whose error the callback handles does not roll the
  transaction back, so one whose answer was lost may be committed; `CommittedMeansAll`
  speaks of operations that succeeded.
* `SqliteConnection`: one connection, a tail of calls, a transaction that owns it. A root
  call made by the callback of the transaction on the adapter it holds is refused.
* `FirestoreTransaction`: the SDK runs the callback again on contention; after an attempt
  that was completed and may have been committed the outcome is reported as unknown.
* `RowWrites`: MongoDB and PostgreSQL ask a second time for the reason of a zero count.
  "Conflict" may be told of a row that was deleted and created anew in between.
* `SchemaApply`: `ToldApplied` (unique indexes of SQLite) speaks of the moment of the
  answer; later deployers with another version may change the database. Deployers crash
  in their first `CrashTries` tries and try at most `MaxTries` times.
* `SchemaPlans`: an index name is a tuple of parts instead of a joined string.
* `SchemaCommand`: `generate` takes the same path as `diff` and differs in its output.

*Datastore.* `DatastoreTransaction` abstracts a payload to whether it satisfies the
condition of the query and has one snapshot per attempt; a query without a resolver that
meets a buffered entity below an ancestor is refused. In `DatastoreRead` arrays are
indexed by element, entities without the sort field are left out of a native sort, pages
end anywhere, and the emulator repeats its last cursor. In `DatastoreSnapshot` one scan
aggregate without `readAt` may mix moments (the code documents this) and is excluded from
`AggregatesOfOneMoment`. A failed batch of `DatastoreBulk` was applied in any part.

### Search and outbox

Search engines are external. `SearchRevisions` models `version_type: external` and the
tombstone writes that make deletes comparable; `SearchTasks` models the task queue of
Meilisearch; Algolia's writes do not wait for their task and make no promise.
`OutboxDrain` numbers events in the order of their appends; both outboxes without leases
and the acknowledgement on a store without transactions are one module, because they
share the recovery of what was taken out. Where a row goes by its sequence (`Placed`) is
written without sorting: the rows before it, the row, the rows behind it.

`FunctionCache` has three modes: memory (a call to the adapter takes effect at once), remote
(when it arrives) and distributed (versioned adapter, several processes). On a remote
server without versions only `NoStalePersistent` is checked, and without faults: the mark
of a failed delete may be cleared by the answer of another delete, as in the entity cache
(section 3), and a value published by `set` may be overwritten by an overlapping read.

## 3. Runs

Eleven runs. Seven check one module each; four check components *side by side*: an MC
module instantiates every component several times, `part` says which instance a
behaviour belongs to, and the slots `s1`, `s2`, ... hold its variables. A step is a step
of the instance in `part` and leaves the unused slots alone; a property of such a module
says for each part what the component's own properties demand, so that a violation shows
in the trace which component and which instance failed. This only saves runs: instances
do not interact.

Each of the four also EXTENDs one component, which is a part like the others but keeps its
own variables and constants: `MCCaches` the `OutboxDrain` (rows, 3 events, 1 worker, 2
faults), `MCModels` the guard `SavepointGate` (2 items, re-entrant calls, a callback that
forgets them), `MCStores` the `PostgresTransaction` (3 statements, 2 savepoints) and
`MCProgress` the `SqliteConnection` (2 root calls, 1 transaction, 1 statement). Properties
of these four are checked under their own names, and the theorems of section 4 speak of the
very same definitions.

| Run | What is checked | States |
| --- | --- | --- |
| `search_sync_tx` | 2 documents, 1 worker, batches of 2, lease transactions, external sink, 2 faults: `NoLostUpdate`, `OutboxBounded`, `ImplementsContract` | safety, refinement |
| `search_sync_live` | 1 document, 2 workers, optimistic locking, 2 writes, 1 fault, fairness: `Inv`, `Converges` | liveness |
| `search_sync_regress` | 1 document, 2 workers, 3 writes, no renewals: `NoRegression` | violated |
| `entity_cache_versioned` | versioned cache, 1 process that may crash, 2 tasks, 1 key, both limits 1, 2 calls, 1 fault: `NoStaleRead`, `CacheInv`, `NoOvertakenHit` | safety |
| `entity_cache_cleared` | versioned cache, 1 process, 2 tasks, 1 key: `FailedKeysProtected` | violated |
| `entity_cache_recovered` | versioned cache, 2 processes with 1 task each, 1 key: `FailedKeysProtected` | violated |
| `caches` | `OutboxDrain` and 17 instances of `FunctionCache`, `EntityCache`, `BatchLoader`, outboxes without leases and search backends | 1.3 million |
| `models` | `SavepointGate` and 32 instances of transactions, budget, middleware, hooks, writes, queries, relations and search reads | 2.3 million |
| `stores` | `PostgresTransaction` and 31 instances of the stores, schemas, Datastore reads and the id repair | 2.8 million |
| `progress` | `SqliteConnection` and 7 instances under fairness: `CallersAnswered`, `RetriesEnd`, and the safety of the connection | liveness, safety |
| `datastore_read_sort` | `DatastoreRead`, 2 rows, an equality on an untyped field sorted by an undeclared one: `PortablePageExact` | violated |

*Bounds of search synchronisation.* Documents interact only through a worker's batch, so races are explored with one
document and two workers, and batches with two documents and one worker. Two faults are
needed for the deepest cases (a lease lost while the mutation is under way, and the
clean-up failing as well); three writes are needed for two overlapping deliveries that
both go stale. `MaxRows = 8` leaves room for the events and a repair row for each
delivery. `MaxAttempts = 2` gives one retry before the dead letter.
`MaxVersion` bounds renewals, which otherwise could go on for ever.

*Bounds of the entity cache.* Keys meet only in the two registries, which overflow with two
keys when their limits are one. A race needs a load, a write and a fault between or after
them, in two tasks: a task starts its next operation when the last one has ended. A call is
a write, an explicit invalidation or an expiry; loads are not bounded.

*Bounds of the other components.* They are the constants of the instances in the MC
modules; the table says what makes them large enough.

| Component | Bounds | Why |
| --- | --- | --- |
| `FunctionCache` | 3 calls, 1 or 2 keys, registry limit 1, 2 versions of the source, 1 fault | a stale value needs a computation, an invalidation that overtakes it and a reader; two keys overflow the registry |
| `BatchLoader` | 3 callers, 2 ids, chunks of 2, 1 write | two callers of one id and one more fill a chunk and a half; a third flush would repeat the second |
| `SavepointGate` | 2 items with reentrance and forgotten calls | an operation and a savepoint at the gate, or one inside the other; more items: section 4 |
| `ContextTransaction` | 2 attempts, savepoints 2 or 3 deep, 1 task, key and model | keys, tasks and models do not interact; depth 3 tests passing on twice |
| `ExecutionBudget` | 2 callers, deadline 5, timers of at most 2 | delays cut in two, one ends at the deadline |
| `Middleware*` | 2 layers, 3 frames; 2 changes of an answer; 2 operations, 2 attempts | a layer that calls `next()` twice inside one that does not wait |
| `HookPipeline` | 2 hooks next to the guard, 3 for writes | before, between and after the guard |
| `ModelWrites` | 2 or 3 operations on one instance, 1 foreign write, 1 lost answer, 3 versions | a foreign write between the read and the write of either operation |
| `ModelBulk` | 2 rows, 2 bulks, 1 edit by a hook | a bulk left running when the other one fails |
| `QueryBuild`, `QueryPages` | 2 builder calls and 1 hook step, or 1 and 2; 3 rows and 1 change, 5 rows and none | rows decide one by one; a change before, at or behind the cursor |
| `RelationLoad`, `Preload` | 2 keys, 2 loads; 2 or 3 owners, chunks of 1, 1 change | two owners share a row, a third does not; a change in each await |
| `SearchRead`, `SearchPaging` | 2 entities, 2 writes; 9 or 5 results, pages of 2, 3 faults | entity and document may both change; Algolia's window ends inside the results |
| `MemoryStore` | 2 transactions on one row, 1 on two rows, 1 savepoint, revisions up to 3 (2 where transactions meet) | write skew is on rows read by id; the revision counter is exhausted |
| Store transactions | 3 writes, 2 savepoints, 3 attempts | a failure in the inner, the outer scope and after both |
| `RowWrites` | 3 clients, 2 versions | the writer asked about, and two that come in between |
| `SchemaApply` | 2 deployers with 1 or 2 indexes, 2 tries each | a crash between two statements while the other one applies |
| `OutboxDrain` | 2 to 4 events of two entities, 1 worker with up to 2 faults or 2 workers without | failure of the delivery and of the return; an event in front of and one behind the failed one; more: section 4 |
| Datastore modules | 2 or 3 entities, 2 or 3 calls, up to 3 attempts, pages that end anywhere, 1 or 2 writes | values of each type class the contract tells apart |
| `IdRepair` | 3 rows for the inventory, 2 rows with 2 appliers, 1 write and 1 fault | text equal to another row's key is the case a repair may overwrite; the fault is with the policy `payload-wins`, which moves rows |

*Fairness.* The search synchronisation assumes that workers are run again and again (they
are cron-like jobs), that the backend answers, and that clocks advance: retries fall due
and the leases of dead workers expire. Nothing is assumed of faults, of renewals or of
writes, and a lease under a run at work expires only by a fault. `progress` assumes of
each component what a single-threaded runtime and its libraries grant: microtasks run,
promises of an adapter settle, a call that can take its next step takes it (`FairGate`,
`FairFunctions`, `FairLoader`, `FairWriting`), the callback of a SQLite transaction that
waits for nothing returns (`FairSqlite`), deployers go on and run a failed apply again
(`FairSchema`), the search engine executes what it received and workers send a failed
write again (`FairEngine`; strong fairness for the answer, which may be lost again and
again but not for ever), a loop over a query goes on (`FairReading`). Writers, faults and
crashes have no fairness.

*Deadlock.* Checking is on in every run. Where callers may simply stop calling, the MC
module says so with `MayStop`, for the parts named there and no others: every other
component that stops is a deadlock TLC would report.

*What they show.* No interleaving of crashes, timeouts, late mutations, failed releases
and takeovers loses an update; every row that is left over is due to a fault; and once
faults cease every document converges. `search_sync_regress` contradicts a comment of the
worker: reserving the fence before reading does not keep an older snapshot from having the
newer fence, because two rows of one document can be leased at once (a late repair row
sorts before the event that is already leased), and then the order of two reservations
need not be the order of the two reads. The document goes back one version, until the
event that is still in the outbox puts it right; this is why `IndexContract` promises
monotonicity only for documents that are not owed.

The entity cache keeps its promise where it has the means: a load that begins after an
acknowledged write never gives an older row with the memory adapter (a fill takes effect
in the same turn in which its epoch was compared) and with versions (the cache itself
refuses an outdated fill). A cache server used without versions cannot promise that: a set
sent before an invalidation may land after its delete, and is visible until its answer
makes the filler take it back; `NoStaleResidue` checks that it always does.

`FailedKeysProtected` says what the failure registry is for. It holds for operations that
do not overlap, overflow of the registry included. Two runs show where it fails:

* `entity_cache_cleared`: `performInvalidate` clears the mark of its key when its delete is
  answered. If that answer arrives after a later invalidation of the key has failed, the
  mark of the failure goes, although nothing has removed the entry since. The docs promise
  protection until a *later* successful delete or fresh write.
* `entity_cache_recovered`: a load of a failed key reads its current token, fills the row
  under it and clears the mark. Another process may hold a fill of the older row with the
  same token, which the cache then accepts. The function cache invalidates first for this
  very reason (comment in `core/function-cache.ts` 491-492); the entity cache does not.

In both the write was reported as committed with a failed side effect
(`ActiveTsCommittedWriteError`); `NoStaleRead`, which speaks of acknowledged writes, is not
affected.

`datastore_read_sort`: a Datastore query with a condition on a field of undeclared type fetches
candidates and filters them itself. For such a query the check that the sort field is
declared is skipped, yet the sort is sent to Datastore, which leaves entities without the
field out: the page lacks rows that match and says that there is no more
(`docs/adapters.md` 1258 promises the check). With the field declared (`candidates` of the run `stores`) the pages are exact.

The properties of the four joint runs, in the order of a request:

* `SavepointIsolation`, `ScopeDrained`, `NoLostFailure`, `CommitKnown`,
  `SettledStaysSettled`: the guard of an open transaction (proved in section 4);
* `TransactionsFollowOutcome`, `NothingAfterOutcome`: what a caller was told of a
  transaction, a savepoint or a mutation is final, and deferred tasks, evictions and
  tracked models follow the outcome that happened;
* `InterceptorsHonest`, `SavesTruthful`, `NoBlindOverwrite`: application code around a
  write can neither repeat nor fake it, and a save never overwrites what it has not seen;
* `QueriesExact`, `RelationsUnshared`, `SearchExact`: reads are what was asked for although
  rows, hooks and indexes change underneath;
* `CachesFresh` (the entity cache's `NoStaleRead`, `CacheInv`, `NoStaleResidue` and
  `FailedKeysProtected`, each in the instances that promise it, and the freshness of the
  function cache), `WaitersServed`: caches and loader;
* `NoSilentLoss` (proved in section 4), `EventsKept`: outboxes without leases and search
  backends;
* `CommitIsWhatCallbackSaw`, `ErrorMeansNothingCommitted`, `PoolStaysClean`: a PostgreSQL
  transaction; `RootWritesAreTheirOwn`, `AllOrNothing`, `CloseWaits`: the SQLite connection
  (both proved in section 4);
* `TransactionsTruthful`, `CallsInOrder`, `RowsGuarded`, `AnswersWereTrue`: each of the
  other stores tells the truth about its transactions and rows, with lost answers and
  retries;
* `SchemaApplied`: deployers; `ReadsPortable`, `EntitiesKept`: the Datastore store and its
  repair;
* `CallersAnswered`, `RetriesEnd`: nobody waits for ever.

## 4. Proofs

`SearchSyncProofs` proves, for all values of the constants that satisfy
`OutboxAssumption` and `SearchSyncAssumption`:

* `Invariance`: `Spec => []Inv`;
* `UpdatesAreKept`: `Spec => []NoLostUpdate`;
* `Refinement`: `Spec => ImplementsContract`;
* `RepairsAreBounded`: `Undivided => (Spec => []OutboxBounded)`.

`NoLostUpdate` is not inductive. What carries it is *fencing*: a revision reserved after
the last write of a document (`r > base[d]`) only ever goes with that write's version
(`Fenced`), for mutations on the network, for deliveries in progress and for the document
itself. `InvEntity` adds that a written entity is recorded (its last event is a row, or
sunk) or has landed (a fenced mutation was accepted). To keep that when an event is
acknowledged, `InvJob` says that a delivery of the last event has a fence beyond `base`,
and that its mutation was processed before its `pc` is `ack`. `InvUnique` (two deliveries
never share a revision) is what makes "processed" imply "accepted, or overtaken by a newer
fence". The proof goes action by action, with one lemma for each group of actions, and the
refinement maps every step to `Write`, `Land`, `Record` or a stutter.

`OutboxBounded` counts, and its invariant `CountInv` is an account. On one side stand the
faults so far; on the other the `Surplus` (repair rows no delivery holds) and the `Debtors`
(deliveries that lost their lease before they had a guard, and may still append one). A
delivery holds its guard while its lease is current: the event then stands before the guard
in the order of the outbox, so no scan offers the guard to anybody (`GuardsWait`), and
acknowledging both takes it away. When the lease lapses, the fault that took it pays: for
the guard, which becomes surplus, or for the debt, which becomes a surplus row when the
guard is appended after all. `Turn` says what a worker may do to rows, and so why it
touches nobody else's lease or guard (`OthersHold`). `Undivided` is "one worker, or
`OptimisticLock`": a store without optimistic locking acknowledges the event first, and
between its two acknowledgements another worker can claim the guard. If that one then
crashes, two repair rows have cost one fault; TLC finds this with two workers, one write and
one fault, so the hypothesis cannot be dropped. Nothing is lost by it (`NoLostUpdate` needs
no hypothesis), the outbox only holds one more row to deliver.

`EntityCacheProofs` proves, for all values of the constants that satisfy
`EntityCacheAssumption`:

* `CacheInvariance`: `Distributed \/ Sync` implies `Spec => []CacheInv`;
* `NoStaleReads`: `Distributed \/ Sync` implies `Spec => []NoStaleRead`;
* `NoOvertakenHits`: `Sync` implies `Spec => NoOvertakenHit` (the versioned cache in one
  process keeps it too, by the run `entity_cache_versioned`);
* `NothingOutdatedStays`: with versions, or without them in one process,
  `Spec => [](faults = 0 => NoStaleResidue)`.

`NoStaleRead` speaks of loads that have their row. For it to be inductive the cache must
not hold a row older than the acknowledged writes, and for that no fill that is still to
be accepted may carry one: `FillsFrom` and `HoldsFrom` say so of a key and a version, for
fills with the current token (`Distributed`) or the current epoch (`Sync`) and for late
sets. `InvWrites` states them for the acknowledged version and for each write whose delete
was processed but not answered yet; an invalidation establishes them by replacing the
token, or by raising the epoch before the delete. `InvRegistry` is what makes these fences
work: tokens are new, and epochs never fall, not even when a key is evicted from the
registry and gets the default epoch (lemmas `EpochGrows` and `BumpFences`). The step is
proved with one lemma for each action; `CalmStep` says once which moves of the shared
state are harmless, and `CacheStep` applies it to actions that touch the cache only.

`NoStaleResidue` is promised as long as no call fails: a write that takes effect in the
store and then throws is passed on without an invalidation, and leaves the old row behind.
`CalmInv` holds until the first fault. Whatever is outdated in the cache has somebody who is
going to delete it (`Removes`): a writer before its delete, or a fill that an invalidation
overtook and that takes itself back. Whoever may still fill a key has its current row, or
the write that replaced the row has not withdrawn the permits yet (`Fences`): with versions
the delete withdraws them, without versions the bump of the epoch does (`BumpEnds`), which
reaches one process only. `QuietStep` says once what a step without a fault has to show.

The same module proves the two safety properties of the batch loader (the parts of
`WaitersServed`), for any callers, ids, `maxSize` and both kinds of results:

* `WaitersAreHeldOnce`: `Loader!Spec => []Loader!EveryWaiterHeldOnce`;
* `LoadsAreOwnAndFresh`: `Loader!Spec => []Loader!OwnFreshValue`.

Their invariant `LoaderInv` says where a waiting caller is: in the queue or in one chunk of
one flush (`ApartOk`, `NoneLost`), under the id it asked for (`AllWaitIn`), and that rows
already read for a chunk are not older than the calls of its waiters (`ReadFor`). The steps
that settle a chunk share `SettleStep`. The flush is the hard one: it flattens the queue and
cuts it. `FlattenSeq` is a recursive function, so `FlattenLaid` shows by the least
counterexample that it lays every element of every sequence out at one place (`Laid`), and
`ChunksAreOk`, `ChunksApart` that the arithmetic of `chunkItems` loses no place and puts none
in two chunks.

`SavepointGateProofs` proves, for any number of items, with and without re-entrance and
for adapters that break the savepoint protocol:

* `GateInvHolds`, the inductive invariant, and from it `SavepointsIsolated`, `ScopesDrain`,
  `FailuresSeen` and `CommitsKnown` (the four safety properties of the guard);
* `SettledFrozen`: `Spec => SettledStaysSettled`, an action property.

A savepoint is isolated because the gate admits it when nothing runs beside it, and nothing
is admitted while it is held. Neither half is inductive: an operation is exempt if the
savepoint was requested on its own call chain, so the invariant has to know the shape of
the call tree (`ancestors` of an item contain its parent's, parents are started before their
children, open savepoints form a chain), that a running callback holds its savepoint, and
that whoever waits at the gate is not waited for by something that has ended. What a settled
scope drained stays drained since no item is ever added to a settled scope. Inductions over
the call tree are done without the library's induction theorems, by the least
counterexample (`HasLeast`): the smallest item number that violates a statement exists, and
its parent has a smaller one.

The end of `SqliteConnection` proves, for any set of root calls, transactions and statements
(`SqliteConnectionAssumption`): `ConnectionSafe`, the inductive invariant, and from it
`RootWritesSafe`, `AllOrNothingHolds` and `CloseIsLast`. One call owns the connection; the
tail holds every other admitted call once, with the close last. A call that owns the
connection is the only one that can move the database, and the invariant relates the levels
of the open transaction (what each savepoint would give back) to the statements its client
was told of. `CloseIsLast` follows since the tail is served from the front and the close is
never overtaken.

The first part of `StoreProofs` proves, for any number of statements and savepoints nested to
any depth (`PostgresTransactionAssumption`): `TransactionSafe`, `CommitSafe`, `ErrorSafe`
and `PoolSafe`. The client keeps a stack of scopes and the server a stack of levels, and any
query may fail, abort the transaction at the server, or lose its connection. What carries
the proof is `LevelsInv`: *while no scope around has failed*, the server has a level for
every scope of the client, with the same writes in it; a failed scope is never released, and
rolling it back brings the two stacks together again. There is one lemma for each action.

Its second part proves, for any number of clients that create, update and delete one row of
MongoDB, PostgreSQL, SQLite or Firestore and any range of versions (`RowWritesAssumption`):
`RowSafe`, `AnswersStayTrue`, `GuardedWritesOnce` and `NothingRevives`, which are the parts
of the stores' `AnswersWereTrue` and `RowsGuarded` about single rows. A call keeps what the
row was while it ran (`seen`), and a write by another client adds to that; so a guarded
write that matched nothing has seen a row it did not expect (`Mismatch`) before it looks for
the reason, and may tell "conflict" or "not found" by what it finds then. That one guarded
writer wins is not inductive: `LifeInv` adds that the version it replaced is not seen again
before the row is deleted and created anew, for versions only grow in one life. It holds for
`expected < MaxVersion`, where the bound does not stop the version from growing.

Its third part proves, for any set of MongoDB writes that a callback starts without waiting:
`SessionSafe`, `OneCommand`, `SessionRollbackSafe` and `SessionCommitSafe`, which are the
MongoDB parts of `CallsInOrder` and `TransactionsTruthful`. The tail of the session holds
each operation that has been called and not started, once; while it is not empty its head
waits for the one before it, so that two commands never share the session; once the session
is closed nothing starts, and what an outcome says of the database stays true.

Its fourth part proves, for any documents, calls of the callback that overlap in any order,
and attempts of the SDK: `DocumentSafe`, `DocumentsReadFirst`, `LastMutationWins`,
`OwnMutationsSeen` and `AttemptsApplyOnce`, the Firestore parts of `CallsInOrder` and
`TransactionsTruthful`. A call that has begun has no unfinished mutation of its document
before it (`WaitedInv`), so a mutation that is registered comes after every one of its
document that succeeded; hence the buffer holds the last of them (`BufferedInv`) and the SDK
holds them in the order of the calls (`RegisteredInv`), although updates read first. What a
get has to see was buffered when it was called, and a get that goes to the SDK had nothing
to see (`DocumentCallOK`). An attempt whose writes may have been applied is one whose
callback completed and wrote, and that one the adapter does not run again (`AttemptsInv`).
With these every conjunct of `CallsInOrder` and of `TransactionsTruthful` is proved of its
module, for every value of the module's constants; TLC checks them on the instances of
`stores`.

The end of `DatastoreTransaction` proves, for any finite set of entities, any calls of the
callback that overlap in any order, and any number of attempts
(`DatastoreTransactionAssumption`): `DataSafe`, the inductive invariant, and from it

* `SerialSafe`: gets and refused mutations agree with a serial execution
  (`CallsAreSerial`);
* `BufferSafe`: the buffer holds the net effect of the calls (`BufferIsNetEffect`);
* `QueriesSafe` and `CountsSafe`: queries give the page of the transaction's own world,
  counts count all of it (`QueriesSeeWrites`, `CountsAreWhole`);
* `AppliedSafe`: writes are applied once at most, over all attempts (`AppliedOnce`).

These are its parts of `TransactionsTruthful`. The world before a call is what the snapshot
becomes by the mutations called before it that succeeded; the buffer knows only the present.
`NowIs` joins the two: a call that waited for the mutations of its entity, and which later
mutations wait for, sees the present as its own past, so `TurnInv` and the mutations' place
in the list carry the proof. `Leads` says what the one buffered mutation of an entity does
to the snapshot (a create over nothing, an update over something), and every row of `Folded`
keeps it. A query waits for all entities (`QueryNow`), and the rows it laid the buffer over
are those of its world. That a finite set of keys has a sorted list (`SortedExists`) is no
induction over data: a smallest set without one would get one from what is left when its
least key is removed.

`OutboxDrainProofs` proves, for any number of events, workers and faults, any entities of
the events, both kinds of outbox, with rows that are drained or acknowledged
(`DrainAssumption`):

* `DrainSafe`, the inductive invariant;
* `EventsAreKept`: `Spec => []NoSilentLoss`;
* `RefusedAcksRestore`: with leases and one worker, `Spec => []RefusedAckRestores`, the
  part of `EventsKept` about acknowledgements;
* `OneWorkerKeepsOrder`: without leases and with one worker, `Spec => []EntityOrder`, the
  part of `EventsKept` about the order in which the events of an entity arrive.

`NoSilentLoss` counts an event as kept when a worker has it in its hands, also in fields the
worker no longer looks at, and so it is not inductive: a step may drop an event from such a
field. `KeptInv` counts only what the worker will still bring somewhere (`Mine`: the batch,
what goes back, and the rows an acknowledgement has deleted so far), and `ShapeInv` says of
each step of the worker what its fields hold: what was delivered of the batch is settled or
goes back, what is undone was reported, an acknowledgement deletes only rows of its page. `Moves` says once what a step of one worker has to show; each
action has a lemma. The sequences are treated as sets of their elements; what `Without`
computes is proved by the least position at which the claim would fail, as in the proofs of
the guard. The acknowledgement of several workers that share rows stays with TLC.

`EntityOrder` speaks of what was delivered; `OrderInv` adds what is still on its way. Per
entity, everything delivered is ahead of everything in the worker's hands and of everything
in the outbox (`Ahead`); the outbox, the page and the batch stand in the order of appending
(`InOrder`). The step that could break it is a delivery after a failure, or a row taken
behind one that was left: so a row of the page that is still in the outbox behind the
worker's position belongs to a blocked entity (`Paged`), and what goes back to the outbox
belongs to one too (`Delivers`). With two workers the property is false, and its run has one.

Its end proves what `EventsKept` says of the search engines:

* `NewestWriteWins`: for any positive revisions of which one is the newest, any number of
  attempts and with `requireRevisionWrites`, `LatestWins`;
* `NotBehindAcked` and `WrittenUnderOurKey`: for any number of writes and of changes an
  operator makes, `NeverBehindAcked` and `OnlyUnderOurKey`.

`EngineInv` bounds what was answered and what was acknowledged by the revision of the stored
document; a write of a script without a revision counts that up or forgets it, which is why
the option must be on. `IndexingInv` follows the task queue: tasks stand and run in the order
of their writes (`QueueInv`), an acknowledged write has a task that succeeded, and the
document is not older than any such task unless a later one deleted it (`NotBehind`).

The end of `MemoryStore` proves, for any number of rows, transactions, versions and
revisions and savepoints nested to any depth (`MemoryStoreAssumption`): `StoreSafe`, the
inductive invariant, and from it

* `RevisionsAgree`: the revision maps agree with the rows, and of a deleted row nothing is
  left once no transaction runs that began before the deletion;
* `ConflictsHaveAWriter`: a refused commit has another writer (`NoSpuriousConflict`);
* `CommittedReads`, `CommittedWrites` and `CommittedVersions`, the action properties
  `ReadsUnchanged`, `CommitPublishesView` and `ExpectedVersionHolds`.

They are the memory store's parts of `TransactionsTruthful` and `RowsGuarded`. Two facts
carry the proof. `Follows`: the rows that changed under an open transaction are exactly
those whose revision is after its snapshot. To keep that, a deletion must leave a revision
while such a transaction runs and compaction must not take it away too early (`Compaction`
has the one lemma for both ways a transaction ends), hence `CountInv`: the counters of
snapshots count the running transactions. And `NetChange`: after any sequence of creates,
updates, deletes and savepoints, the one change the transaction keeps of a row leads from
the row it found to the row it sees, and carries the version its first write relied on
(`MarkCreated`, `MarkUpdated`, `MarkDeleted`). Private steps share `PrivateStep`, direct
writes `MutateStep`.

`CacheInv` and `Inv` are also invariants of the runs `entity_cache_versioned`, `caches` and
`search_sync_live`; the invariants of the later proofs were checked with TLC on the
instances of the joint runs before they were proved.

Only model-checked: `FailedKeysProtected` of the entity cache,
the properties of the components without a proof module, all liveness (`Converges`,
`CallersAnswered`, `RetriesEnd`; `ENABLED` and fairness are beyond TLAPS here), and what is
violated (`NoRegression`, `FailedKeysProtected` with overlapping operations,
`PortablePageExact` with an undeclared sort field). The models of query building, pages and
Datastore reads use folds over sequences, whose results for every input are inductions over
data; they are checked over all inputs of a bounded size.

## 5. Not modelled

* Metadata, decorators and model definitions (`metadata.ts`, `decorators.ts`,
  `define-model.ts`): declarations, built once and sequentially.
* Validation, codecs, intrinsics and error classes: sequential checks of inputs without
  state. The same holds for the option and shape checks of the adapters.
* Outbox validation and routing: shape checks and the choice of a search adapter.
* SQL, BSON, Firestore and Datastore request bodies: string and object building. Where a
  property depends on what a condition means to a store (Datastore's treatment of arrays,
  missing and null values, the type order of cursors), the conversion is modelled.
* Ownership of custom cache keys (`cacheKeyOwners`), warnings about lazy loads, logs.
* The close guards of adapters (`adapter-lifecycle.ts`): the context disposes once, which
  is part of `SchemaCommand`, `SqliteConnection` and `SavepointGate`.
* `testing/`: contract suites and harnesses for adapter authors.
* Algolia's writes, which are acknowledged before they are executed, and search adapters
  without revisions, whose documents have no fence to verify.

## 6. Plan

Done: the components of section 2, and the proofs of the leased outbox with its refinement,
the entity cache, the transaction guard, the transactions of all six stores (the shared SQLite
connection, PostgreSQL, MongoDB, Firestore, Datastore and the memory store), the writes of one
row, the outbox without leases, the writes of the search engines and the batch loader. What
is left, in this order:

1. An abstract transaction (a set of writes, applied once or not at all, told truthfully)
   that the store modules implement.
2. `ModelWrites` composed with `EntityCache`, so that the cache of a model that is saved
   and read at once is checked with both modules' steps.
