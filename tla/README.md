# OverGraph: a TLA+ verification project

OverGraph is an embedded graph database in Rust: a log-structured storage engine
(`src/src/engine/mod.rs`, `write.rs`, `memtable.rs`, `source_list.rs`, `wal.rs`,
`wal_sync.rs`, `manifest.rs`) under a query layer (GQL, planner, executor) and language
bindings. This project models what makes the engine hard to test: its threads, its
crash recovery, and the files and counters that must agree after any failure.

Paths below are relative to the directory that holds `src/` and `tla/`; `mod.rs` is
`src/src/engine/mod.rs`.

## 1. Inventory

| Component | State | Operations | Interacts with |
|---|---|---|---|
| Storage engine core (`EngineCore`) | active memtable, immutable epochs (newest first), open segments (newest first), counters, in-flight flags, pipeline error | plan and apply writes, freeze, enqueue, adopt, retry, sync, close, open | WAL, manifest, workers through three channels, published snapshot |
| Flush pipeline | work, built and event channels; cancel flag; the publisher's job | build a segment, publish it in the manifest, retire the WAL generation, report | core (events), manifest, disk |
| Compaction | at most one background job, flush counter | choose inputs, merge winners, replace inputs in the manifest, clean up | core, manifest, readers |
| WAL (`wal.rs`, `wal_sync.rs`) | frames, buffered bytes, error count, poison, shutdown flag | append, batch, fsync, timer, blocking at the hard cap, replay, truncate | core, sync thread, file system |
| Manifest file (`manifest.rs`) | `manifest.current`, `.tmp`, `.prev` | write, load with fallback, read-only load | every component that changes what exists on disk |
| Runtime shell (`DbRuntime`) | open state and read counter (atomics), lifecycle record under a mutex, command queue, coordinator | admit, submit, followup, barrier, lifecycle batch, close | clients, coordinator, background jobs |
| Published snapshots | source list and sequence number behind an `ArcSwap` | publish, pin, read, release | core, readers |
| Graph structure (`write.rs`, `graph_ops.rs`) | node and edge records in memtables and segments, prune policies | upserts, labels, deletions and their cascades, invalidation, batches, patches, prune, lookups, neighbors | sources, compaction |
| Degrees | overlay of each memtable, sidecar of each segment | collect deltas, fold, answer degree() | every edge write, compaction |
| Paginated reads | cursors held by clients | merge the sources' sorted lists a page at a time | sources |
| Transactions (`txn.rs`) | snapshot, staged intents, overlay | begin, stage, read, commit with conflict check, roll back | core writes |
| Secondary indexes | declarations in the manifest and at run time, memtable registrations, sidecars, job queue | declare, drop, retry, build, finalise, fail, repair after a query | manifest, flush, compaction, runtime queue |
| Label catalog and schemas (`RuntimeLabelCatalog`, `schema_management.rs`, `schema.rs`) | label ids and the WAL generation of each, schema entries in the manifest and compiled | resolve, create and stage labels, set, alter and drop schemas, validate data and writes | WAL, manifest, replay, every write, indexes, prune policies |
| Query layer, GQL, vector search, segment formats, bindings | none beyond one snapshot | pure functions of a snapshot | snapshots |

What is hard, by component:

* **Core and pipeline.** Five threads (clients, coordinator, build, publish, compaction)
  work on one manifest and one list of epochs; events arrive in any order, a failure may
  hit one epoch and not the next, a retry follows. Correct means: reads are the latest
  commits, recovery at any instant finds exactly the durable commits, counters never
  repeat, every frozen epoch reaches a segment, flush and close return.
* **WAL.** An append or an fsync fails and the log goes on; the power fails inside a
  frame or a batch; the sync thread races writers at the hard cap. Correct means: a
  promised write is recovered, a write is recovered completely or not at all, blocked
  writers return.
* **Manifest file.** Six file operations, each of which may be the last. Correct means:
  an acknowledged manifest is never lost.
* **Runtime.** Admission by atomics, two condition variables, a bounded queue, a barrier
  and a close that waits for everybody. Correct means: mutual exclusion, one reply per
  command, nothing reaches a closed core, nobody sleeps for ever.
* **Graph structure and degrees.** A record, its key, its adjacency and its contribution
  to a degree lie in different sources, the older ones stale. Correct means: lookups,
  neighbors, degrees and pages agree with a recount over the newest versions, maintenance
  is invisible, a deletion leaves no edge behind.
* **Transactions.** What is staged is interpreted twice, by the overlay that answers the
  transaction's reads and by the commit that plans against a newer state. Correct means:
  the two agree while nobody else writes, and a commit never overwrites what changed.
* **Secondary indexes.** Declaration, flush, compaction, the index worker, queries that
  find a damaged sidecar and recovery all write the same states, each under another lock.
  Correct means: an index that says Ready misses nothing, and none stays Building.
* **Labels and schemas.** The id of a label is created in memory, logged with the write
  that needed it, and copied into manifests by rules that depend on the WAL generation;
  records, indexes and schemas keep only the id. Schemas are validated once against all
  data, then only against what a write changes. Correct means: an id never changes its
  meaning, and a published schema holds.

`PROJECT.json` lists every hazard at its line, with the properties aimed at it, and every
component that is left out with the reason.

## 2. Modules

| Module | Models | Used by |
|---|---|---|
| `OrderedIds` | duplicate-free ordered lists of ids (`Vec` of segments or epochs) as a set and the pairs in order | `StorageEngine` |
| `StorageEngine` | core, flush pipeline, compaction, recovery, snapshots | `EngineRefinement`, proofs |
| `DurableStore` | the abstract promise: reads are the latest commits, a crash forgets at most what was not durable | `EngineRefinement` |
| `EngineRefinement` | the refinement mapping | `MCEngine` |
| `Wal` | one WAL generation, both sync modes, sync thread, replay | `MCWal`, `WalProofs` |
| `ManifestFile` | the three manifest files | own runs, `ManifestFileProofs` |
| `Runtime` | `DbRuntime`: clients, coordinator, barriers, close | `MCRuntime`, own runs |
| `GraphStore` | nodes, edges, cascades, batches, patches, pruning, lookups, neighbors, degrees over the sources; the merge of compaction | `Pages`, `Txn` |
| `Pages` | the paginated reads over `GraphStore`'s sources | `MCGraph` |
| `Txn` | write transactions over `GraphStore` | `MCTxn` |
| `SecondaryIndex` | the lifecycle of declared indexes with flush, compaction, worker, queries and recovery | own run |
| `Catalog` | label tokens from resolution to recovery, schema publication, validation of writes | `MCCatalog` |
| `MCEngine`, `MCWal`, `MCRuntime`, `MCGraph`, `MCTxn`, `MCCatalog` | model values, fault models, workloads, endpoint pairs and symmetry for TLC | runs |
| `StorageEngineProofs`, `ReadProofs`, `WalProofs`, `ManifestFileProofs`, `RuntimeProofs`, `SecondaryIndexProofs`, `CatalogProofs`, `GraphProofs` | theorems | |

The models meet at their seams. `StorageEngine` takes from `Wal` that a generation
recovers to the set of versions whose commit was fsynced plus a prefix of the others, and
from `ManifestFile` that a manifest write is atomic, fails before the rename, or fails
after it (`LateFaults`). `Runtime` takes from `StorageEngine` that background jobs end
and report. `GraphStore` takes from `StorageEngine` that the source list is what was
committed, in order, and looks inside the records; `Txn` extends it and takes the
stability of a pinned snapshot from `PinnedReadsStable`; `SecondaryIndex` takes the
atomic manifest update from `ManifestFile` and reduces a source to whether its data is
found through an index; `Catalog` takes from `Wal` that a crash keeps a prefix of the
batches, and from `GraphStore` what a write makes of the records.

### StorageEngine

A record, node or edge, is an id; a version of it is `[id, seq, del]`. A memtable and a
WAL generation are sets of versions, a segment has at most one version per id,
`Option<T>` is a set with at most one member. Variables carry the names of the fields
they stand for: `imm` is `immutable_epochs`, `segs` the open readers, `manifest` the
manifest on disk, `view` the published snapshot, `workQ`, `built` and `events` the three
channels, `compact` is `bg_compact`. Actions correspond to code as the map says; the
important ones:

* `Write` is `execute_core_write_command`: planning, the commit in the WAL and the
  memtable, the freeze when the threshold is reached and the publication. A crash
  between commit and freeze is covered because `FlushThreshold = 0` separates the two
  (`FlushBarrier` freezes).
* `FlushBarrier`, `FlushReturns`, `SurfaceFlushError`, `RetryFlush`, `EnqueueFlush` are the
  turns of `execute_flush_barrier` and the error handling of the pipeline. The properties
  name one constellation of it, `FailureMasked`: while a flush() waits, an epoch fails behind
  an older one whose error is still remembered, and `record_flush_pipeline_error` drops the
  newer error.
* `BuildSegment`, `PublishReceive`, `PublishManifest`, `RetireWal` are the two workers,
  each with its failures; `AdoptFlush` and `FlushFailed` process their events. The event
  channel is bounded: `EventCap` is `max(MaxImmutable, MinEvents) + 1` with `MinEvents = 4`
  in the code, and a worker blocks in `send_bg_flush_event` until `EventRoom`. The two
  receivers that wait for a worker instead of the channel are a close_fast, which joins both
  workers before it drains, and the handler of a failure, which has taken one event out.
* `CompactBuild`, `ApplyCompact` are the background compaction, `Compact` the explicit
  one; `Deleted` and `Compacted` are the merge with its union of tombstones.
* `Open` is recovery: segments in the manifest's reverse order, one epoch per pending
  generation, replay of the active one, the counters from all of them.
* `Crash` loses the memory and any part of what is not fsynced.

Simplifications: the operations of one commit share a sequence number (`Wal` has one per
operation); the deferred removal of a directory happens or not, once; the fast merge path
is the general merge; a write held up by backpressure does not keep the coordinator from
other steps (an over-approximation; `Runtime` has the waiting command); memory is
sequentially consistent; `freeze_memtable` does not fail half-way (planned).

### Wal

A frame is one unit of bytes and knows the attempt it belongs to. `ReadLoop` and
`ReplayLoop` give the state of the loops of `read_path` and of the replay behind each frame,
`ReadPath` and `Recovered` what they end with. A `process`
crash keeps what the system holds but does not make it durable; a `power` crash keeps a
prefix no shorter than what was fsynced, the next frame possibly torn. `soft_trigger_bytes`
only changes when the sync thread wakes, which the model leaves open. Every `Open` chooses
a sync mode from `Modes`, as the options given to `EngineCore::open` do. A history follows
one of the `FaultModels`: `PromisedSurvive` and `AckedBecomesDurable` speak of the one
without half-written appends and process crashes (`CleanFaults`), the others of all. The
file header is left out.

### ManifestFile

Manifests are numbered in the order in which they are written; a file holds a number,
nothing, or a part that does not parse. `durable` is the set of directories a power
failure may leave: a journalling file system keeps directory operations in order and an
fsync of the directory ends the uncertainty. Every step of `write_manifest` is an action
and may return an error. A second process runs `load_manifest_readonly`, one file at a
time. Normalisation and validation of the contents are left out; a rewrite of a
normalised manifest is a write like any other.

### Runtime

Every section under the lifecycle mutex or the core mutex, and every atomic operation, is
one step. `asleep` and `drainAsleep` are the wait sets of `lifecycle_cv` and
`read_drain_cv`; there are no spurious wakeups, which could only repeat a test (and could
hide a lost wakeup). The core is reduced to its background jobs: running, finished with
an event to drain, about to notify. A compaction waits until no job is outstanding; a
flush() waits for its target epoch, of which the reduced core knows only that it is done
when no job is outstanding and may be done before (`Inspect`). A progress callback that calls back into the handle is
not modelled.

### GraphStore

A source is a function from node ids and one from edge ids to slots (absent, tombstone,
live record) plus its degree overlay. Every write of the API is a `Plan...` operator, the
planning function of the code, and `Commit` applies the planned operations to the active
memtable with their degree deltas: `UpsertNode`, `AddNodeLabel`, `RemoveNodeLabel`,
`UpsertEdge`, `DeleteNode`, `DeleteEdge`, `InvalidateEdge`, `BatchUpsertNodes`,
`BatchUpsertEdges`, `GraphPatch`, `Prune`. `Freeze`, `Flush`, `StartCompact`,
`FinishCompact` and `CancelCompact` are the maintenance; `Merge` has the choice between the
fast path and the general merge, the winners, the policy and the removal of edges without
endpoints. Reads are operators in the code's own shape - `KeyLookup` and `TripleLookup`
search source by source, `NeighborsRaw` merges adjacency lists and filters with global
tombstones, `FastDegree` sums overlays - and the properties compare them with the
definition over `Newest`. `edge_uniqueness` is chosen at the start, and a history starts
with an empty database or with a star of three nodes and two edges, the latter with or
without a prune policy. Two history variables serve the properties only: `dangled`, the
nodes that were ever given an edge to a deleted node, and `pruned`, the nodes that a
compaction left out of its output for a policy.

Simplifications: all edges have one label; a node's properties are `low`, whether it
matches the prune policy; an edge is valid for ever or not at all; degrees are counted in
both directions together, without weights; the operations of a commit share a sequence
number; a write that returns an error or plans nothing is no step.

### Pages

`MergeSortedPaged` is the heap merge of `merge_sorted_paged`; `NeighborsPaged` fetches
chunks until a page is full, as the code does when tombstones or policies thin a chunk out.
`AdjacencyLists` is the set of the lists the sources may hand to the merge, for a direction:
a frozen memtable's hash map may give any order, a segment its outgoing list followed by its
incoming one. `PagesExact` follows the cursors from the first page to the last; for
neighbors_paged it speaks of ascending lists. The module uses a
RECURSIVE operator for the heap loop, so nothing is proved about it or in modules that
extend it.

### Txn

A transaction is its snapshot, the staged entries and the overlay. `Stage` appends an
intent and runs `Apply`, the overlay's meaning of it; `TxnCommit` runs `PlanTxnCommit`, the
fold of `PlanTxnIntent` over the entries against the current sources, with the conflict
checks where the code has them, and fails or commits through the same path as a direct
write. Direct writes, freezes, flushes and compactions go on while it is open
(`DirectWrite`, `Background`). Nodes are named by id, by (label, key) or by the entry that creates them, edges by
id or by their ends. Left out: local aliases, properties and the schema checks of a commit.

### SecondaryIndex

A part is a memtable that may become a segment; every part holds a record that every
index must find. Core operations take several steps where the code releases the manifest
lock between them (`EnsureIndex`, `SyncCatalog`, `SeedMemtables`...), and the worker, the
flush threads and the compaction run in between. `Damage` makes a sidecar unreadable or
loses it, `Query` meets it, falls back to a scan and queues the followup that
`ApplyFollowup` turns into a rebuild. `Restart` is the reconciliation of `open`. The history
variable `overtaken` holds the indexes that a retry took out of a memtable which a flush
builder had found complete and was still reading.

### Catalog

A token is a pair of a label and its id. The program keeps the id; the label beside it is
the one the caller named, so that the properties can say what the id must still mean.
`Resolve`, `ApplyNodeLabels`, `Stage`, `ApplyToManifest` and `ApplyCheckpointed` are the
operations of the catalog; every planned write goes through `Write`, every call that writes
the manifest through `WriteManifest`, each with the failure that leaves the file changed
and memory not. `Recovered` replays the generations on top of the manifest, batch by batch,
and fails where `open` does. The loops of the code over labels, batches and generations are
recursive functions (`ResolveLoop`, `FlushLoop`, `ReplayLoop`, `RecoveryLoop`). A schema is its label rules: a node with one label must not carry another, the
`from` end of an edge must have a label, the `to` end must not. `ValidateOps` is the
validation of a batch by its own records and the incident edges; `ExistingOk` the scan of a
publication.

Simplifications: two nodes and one edge of one label; a batch is its final effect (the code
folds it into one too, `SchemaWriteOverlay`); a record's other fields and the rules on them
are left out; the checkpoint merge of the index worker and of compaction is the one
`PublishFlush` uses. Calls are logged only in workloads that have crashes.

## 3. Runs

Every passing run finishes in less than four minutes on two workers.
`CHECK_DEADLOCK FALSE` everywhere: the histories are bounded and end, and an embedded
database may be left alone.

| Run | Bounds | Shows |
|---|---|---|
| `EngineCrash` | 2 ids, 3 commits, 2 generations, 2 faults, 2 restarts, both backpressure limits, group commit | recovery, listed segments, retries after failed flushes, fresh counters, and that `StorageEngine` implements `DurableStore` |
| `EngineCompaction` | 1 id, 4 commits, background compaction after every flush, 1 fault (late too), a reader | the running engine never shows an older version, pinned snapshots are stable |
| `EngineLiveness` | 3 commits, 2 faults, 4 of both together (`MaxWork`), 1 restart, background compaction, 2 immutable memtables, an event channel of 3 (`MinEvents = 0`, so that the limit decides and not the minimum) | both kinds of close return; flush returns, and every frozen epoch is flushed while flush() is called again and again, unless a failure is masked |
| `Wal` | 2 faults, 2 restarts, hard cap 3, poison after 2, both sync modes, writes of 1 or 2 operations; 4 of them with power failures, 3 with appends torn by an error and crashes of both kinds | promised writes survive, batches are atomic, no holes, blocked writers return, acknowledged writes become durable |
| `RuntimeSafety` | 3 clients (symmetric), 4 calls, queue of 2, 1 job | exclusion, exact counters, one reply, no missed wakeup |
| `RuntimeProgress` | 3 clients, 3 calls (queries with followups, writes, flushes, compactions, close), queue of 1, 1 job | every call returns, close() returns |
| `ManifestFile` | 4 manifests, 2 faults, 2 crashes, an inspector | acknowledged manifests survive, an inspector never gets one older than was current when it began |
| `GraphStore` | 2 labels, 2 keys, 3 nodes, 3 edges between nodes 1 and 2 in both directions, 3 commits or policy changes (the star counts one, a batch or patch two), 2 frozen or flushed sources and one more while compacting, all directions, any order of a frozen memtable's list, pages of 1 or of any length | lookups, neighbors, degrees and pages are exact, the latter for sorted lists, maintenance is invisible but for edges at pruned nodes, a deletion reaches every visible edge |
| `Txn` | 1 transaction of up to 3 intents, 3 intents and commits together, 1 key with 2 labels, an empty database or two nodes with an edge | first committer wins against writes, flushes and compactions but for swept records, cascades are complete, a transaction reads what its commit will store |
| `SecondaryIndex` | 1 declaration, 4 memtables or compaction outputs, 1 failing build, damaged sidecar or restart | Ready indexes miss nothing, Ready in the manifest is covered, but for overtaken indexes, Building ends |
| `Catalog` | 2 labels, 3 generations; 4 calls and 2 restarts of each crash workload, 3 calls, 1 restart and 1 failure with Immediate sync, any number of calls without crashes | label ids keep their meaning, schemas hold, incremental validation is exact |

Why the bounds are enough: two ids tell a record and its neighbour apart; three or four
commits fill the active memtable, a frozen one and two segments with versions of one id,
which is what lookups and merges order; two generations and three segments let a flush, a
second flush and a compaction overlap; two restarts let a recovery itself be interrupted
and its result be used; two faults let a failure hit a retry or a second epoch (`EngineLiveness` counts commits
and faults together, so that its three epochs against a limit of two immutable memtables and
its two failing epochs fit one run). In the runtime, three clients let one hold the barrier or the queue, one wait for it and one
close. In the graph, three nodes and two edges at one node let a page end between two
edges and a cascade reach a neighbour's neighbour; three commits over two sources put an
update, its older version and a deletion into three different sources, which is what the
merges must order. Restricted instances with the star, a policy, upserts, edge writes and
deletions and up to six commits found nothing against `MaintenanceInvisible` either. Pages are asked with a
chunk as long as a page (four pages in the code), so that a filtered page needs several
chunks. In `Txn` the transaction races direct writes, freezes, flushes and compactions,
which is all the commit can see of other transactions; two labels with one key make the key change
hands. In `SecondaryIndex` an id is never used again (`MaxIndex = 1`: declaring the index
again after a drop takes a new id and is not explored), and four parts let a flush and a
compaction overlap a build. In `Catalog` two labels are enough for one id to be lost and
taken by the other label; four calls allow a write, its manifest entry, the crash between
them and the write that takes the id again; the workload without crashes is unbounded and
its state space finite. `MaxSeg` is larger in the liveness run
because every retry takes a new id. `RuntimeProgress` states its properties of one client:
the clients are interchangeable.

Fairness: weak fairness of each background thread, of the coordinator as a whole and of each
client thread inside a call - the operating system runs every thread that can run, and each
loop takes its next step when there is one. Nothing is assumed of the application, of faults
or of crashes; `FrozenEventuallyFlushed` alone has a premise, that the application keeps
calling `flush()` (`KeepsFlushing`). The WAL thread's fairness is its timer.
`SecondaryIndex` assumes the same of the operation that holds the core (`CoreStep`), of the
flush threads, of the index worker and of the coordinator's followups; nothing of queries,
compactions, failures or clients.

The type invariants of `Wal` and `Runtime` are stated in their modules and hold; the runs
spend their time on the properties above, and `INVARIANT TypeOK` added to a cfg checks them.

### Disagreements with the documentation

`ManifestOrder` checks one property and TLC finds the behaviour of the code that breaks it:
a flush published during a background compaction ends up in front of the compaction's
output in the manifest; a reopen reads the list the other way round and shows the old
version. The finding in `PROJECT.json` quotes the line.

The models show more, for which no run is kept; each row names the change that reproduces it.

| Change | What TLC then shows |
|---|---|
| `EngineLiveness`, `[]~FailureMasked =>` removed from `FlushEventuallyReturns` | two failed epochs, one remembered error: flush() waits for ever (`mod.rs` 9869), although `mod.rs` 9386 and `src/docs/api-reference.md:6945` promise that it returns |
| `EngineLiveness` with `MaxImmutable = 0`: `CloseEventuallyEnds` | without a limit on immutable memtables the event channel fills, and close_fast waits for a publisher that waits for room in it (`mod.rs` 9505, 9906; in the code when six epochs have finished and none is adopted yet) |
| `Wal`, `~model.torn /\` removed from `CleanFaults`, `crashes` of the second fault model reduced to `{"power"}`: `PromisedSurvive` | an append that fails half-way hides every later, fsynced write from recovery (`wal.rs` 147; `src/docs/api-reference.md:440`) |
| `RuntimeProgress` with `Kinds = {"read", "close"}`, `MaxJobs = 0`, `MaxCalls = 2`: `CloseReturns` | `close()` misses the last reader's notification (`mod.rs` 4048; `src/docs/api-reference.md:299`, `src/src/engine/tests/lifecycle.rs:16292`) |
| `EngineCompaction` with `DeleteUnknown = TRUE`: `PublishedReadsLatest` | deleting an id that does not exist yet leaves a tombstone (`write.rs` 1375), although `src/docs/api-reference.md:904` calls it a no-op; compaction applies it to the record that gets the id |
| `EngineCompaction`, with `ListedSegmentsExist` | a manifest write that fails after its rename makes the compaction remove a segment that the manifest lists (`mod.rs` 10103) |
| `EngineCrash` with `LateFaults = TRUE`: `EpochsRetryable` | the same in the publisher: the epoch is no longer pending on disk and every retry of it fails (`mod.rs` 11551) |
| `Wal`, `CleanFaults == ~model.torn`, `torn` of the second fault model `FALSE`: `PromisedSurvive` | `sync()` after a process crash does not fsync what was replayed (`mod.rs` 9273) |
| `ManifestFile` with `RunningManifestSurvives` | a manifest renamed by a process that died is used without an fsync (`manifest.rs` 61) |
| `ManifestFile` with `InspectorFindsManifest` | the read-only load of a live database may find no manifest (`manifest.rs` 250) |
| `GraphStore`, `s.valid /\` removed from `CascadeReachesLive` | delete_node, graph_patch and prune leave invalidated incident edges behind, because the cascade asks `neighbors_raw`, which hides them; `src/docs/api-reference.md:870` "Cascade-deletes all incident edges", and the comment at `graph_ops.rs` 4976 says the cascade "must see ALL incident edges". A transaction deletes them |
| `GraphStore`, `pruned'` replaced by `{}` in `MaintenanceInvisible` | a compaction with a prune policy drops the edges of a node whose newer version, still in a memtable, no longer matches the policy (`mod.rs` 11977; `src/docs/api-reference.md:6847`). A longer history does the same without such an update: a compaction with a policy is started, an edge to the low node is written again and flushed, the low node is relabelled in the memtable, the compaction finishes, the policy is removed, and the next compaction drops the live edge, because its inputs no longer hold the node. In both the edge is at a node that a compaction has left out, which is what `MaintenanceInvisible` excepts |
| `GraphStore`, `\ dangled` removed from `DegreesExact` | the fast path of degree() counts edges to deleted nodes that neighbors() hides (`mod.rs` 9070, `graph_ops.rs` 428), although `src/docs/architecture-overview.md:122` says it "uses the same visibility rules as neighbors()" |
| `GraphStore`, the premise on ascending lists removed from `PagesExact` | neighbors_paged takes its lists to be "sorted by edge_id" (`graph_ops.rs` 5430), but in both directions a segment gives its outgoing edges and then its incoming ones (`segment_reader.rs` 1807) and a frozen memtable gives hash-map order (`memtable.rs` 3511): pages repeat and lose edges |
| `Txn` with `StagedTargetsUnchanged` | a compaction drops the tombstone by which the commit would have noticed that its target was deleted; the conflict that `src/docs/api-reference.md:1454` promises is not reported |
| `Txn`, the last conjunct of `ReadsAre` without `~unique =>` | with edge_uniqueness, get_edge by id after invalidate_edge returns the old record (`src/docs/api-reference.md:1458`) |
| `SecondaryIndex`, `\ overtaken` removed from `ReadyCovered` | a retry takes the index out of a memtable that the flush builder has found complete and still reads: an empty sidecar counts as maintained, and the Ready index misses the segment for good |
| `SecondaryIndex`, `core.pc # "seed"` removed from `LookupsComplete` | a retry unregisters the index from memtables that the published view shares before it publishes a view without it (`write.rs` 2064; a drop does the same at 2115): concurrent queries are incomplete, although `src/docs/api-reference.md:2619` calls the results index-transparent |
| `Catalog`, `~faulted =>` removed from `LabelsKeepMeaning` | a write whose fsync fails leaves its label token in the log and not in memory; the id is given to another label and open fails on the conflict (`mod.rs` 9222, 745). A manifest write that fails after its rename does the same through the manifest |
| `Catalog`, `~lost /\` removed from `SchemaHolds` | with group commit a violating node is deleted, the schema published and durable, and a power failure brings the node back (`schema_management.rs` 1028); `src/docs/api-reference.md:2280` says that schemas "validate existing matching live data before publishing" |
| `Catalog` with the invariant that every `DeleteNode` of a live node passes `ValidateOps` | a node with an invalidated edge cannot be deleted under an endpoint schema: the cascade does not see the edge (`write.rs` 1380), the incident scan does (`write.rs` 739) and refuses |

Four more were seen while modelling and have no formula of their own: a prune policy that
is removed while a compaction runs is still applied by it; `upsert_edge` accepts ids that
do not exist and compaction later removes such an edge; in one transaction, deleting a key
twice and then upserting it shows a new node while the commit revives the old id; and
`rebuild_secondary_index_catalog` (`mod.rs` 8598) runs after the manifest lock is released,
so that a finalisation in between is overwritten in the shared entries.

Where a property of a passing run and one of these concern the same behaviour, the formula
says which histories or states it speaks of:

* `FlushEventuallyReturns` and `FrozenEventuallyFlushed`: no failure is masked while a
  flush() waits (`FailureMasked`);
* `PromisedSurvive` and `AckedBecomesDurable`: `CleanFaults`; `CloseEnds`: a close() whose
  reads have drained;
* `CascadeReachesLive`: valid edges; `DegreesExact`: nodes that never had a dangling edge
  (`dangled`); `MaintenanceInvisible`: not the edges at a node that a compaction has left out
  for a policy (`pruned`); `PagesExact`: pages of neighbors from ascending lists;
* `FirstCommitterWins`: not the deleted records whose tombstone a compaction has dropped too
  (`Swept`); `ReadYourWrites`: get_edge by id after an invalidation without edge_uniqueness;
* `LookupsComplete`: not during a drop or in the window of a retry (`core.pc = "seed"`); it
  and `ReadyCovered`: not an index whose retry overtook a flush builder (`overtaken`);
* `LabelsKeepMeaning` and `SchemaHolds`: no half-failed write before; `SchemaHolds`: no
  acknowledged write lost.

Three triggers are switched off by constants that stand for options or for faults of the
file system: `EngineCrash` has no background compaction (`CompactAfterN = 0`) and no late
faults, `EngineLiveness` has a limit on immutable memtables, as the code has by default, and no
run deletes ids that were never handed out.

## 4. Proofs

TLAPS proves, for every value of the constants allowed by the `ASSUME`s
(`ConstantsAssumption`, `WalAssumption`, `ManifestAssumption`, `RuntimeAssumption`,
`IndexConstantsAssumption`, `CatalogAssumption`, `GraphConstantsAssumption`: the bounds are
naturals, large enough for the databases a model starts with, the switches Booleans, the
coordinator is not a client):

**Storage engine** (`StorageEngineProofs`, with recovery and the flush pipeline, and
`ReadProofs` on top of it).

* `TypeCorrect`: `Spec => []TypeOK`, one lemma per action, the seven parts of `TypeOK`
  separately. Lists of ids are sets with an order, so that the lemmas on `PushFront`,
  `PushBack`, `Without` and `Reversed` need no induction.
* `RecoveryInductive`: `Spec => []RecoveryInv`, and from it `NoReuseAfterCrash`:
  `Spec => []RecoveredCountersFresh`. That a recovered counter is ahead of every durable
  commit is not inductive by itself: a step may move a version from the WAL to a segment
  (then the manifest must already have recorded the counter), remove a generation (then
  nobody may need it) or commit with a counter that recovery computed before. The
  strengthening says so: a closed engine has left nothing behind, a running one is ahead of
  its whole history, nothing stored anywhere is uncommitted or unsynced, and the
  generations in use are distinct.
* `PipelineInductive`: `~LateFaults /\ Spec => []PipelineInv`, and from it `NoSegmentLost`
  (`ListedSegmentsExist`) and `FlushesCanBeRetried` (`EpochsRetryable`). Neither is
  inductive: whether the publisher may list a segment depends on where its job was before.
  The strengthening follows every job from the queue to the adoption: jobs are in the order
  of their epochs and segment ids in every queue and from queue to queue, an epoch in
  memory is pending in the manifest or its job has been published, a listed segment is open
  or its adoption is due, and every directory a job relies on exists. The hypothesis is
  needed: a manifest write that fails after its rename leaves the manifest ahead of memory.
* `DataInductive`: `~LateFaults /\ CompactAfterN = 0 /\ ~DeleteUnknown /\ Spec =>
  []DataInv`, and from it `NothingSyncedLost` (`CrashRecoversSynced`), `ReadsAreLatest`
  (`PublishedReadsLatest`) and `PinsAreStable` (`PinnedReadsStable`). Its first part defines
  when sources (memtable, epochs, segments) are a *snapshot* of a history at a sequence
  number: they are layered, newest first, hold only versions of the history, and hold the
  newest version of each record or nothing of a deleted one. It shows that the early-exit
  lookup through such sources finds what a scan of the history finds (`SnapshotReads`), and
  that freezing, flushing, committing and compacting keep sources snapshots. `DataInv` says
  that four sets of sources are snapshots at every instant: the files on disk (of the
  durable history), the core, the published view and each pinned view (of the committed
  history). It also says what makes that inductive: memtables and WAL generations hold the
  same, a built segment holds what its epoch shows, epochs are published oldest first, and
  nothing a view refers to is still to be filled.
  The three hypotheses are the conditions under which the code promises it. Background
  compaction appends its output to the manifest's list while a flush may be in flight, so
  that segment ids no longer order the list (the run `ManifestOrder` shows it); a late fault
  leaves the manifest ahead of memory; and the delete of an id the engine has not handed
  out yet lets compaction drop a record that is created later. The explicit `Compact`
  remains, as do errors of builds, publishes and enqueues, crashes, group commit and
  restarts. Outside the hypotheses the run `EngineCompaction` checks `PublishedReadsLatest`
  with background compaction and late faults on a small instance.
* `EngineImplementsStore`: under the same three hypotheses `Spec => ImplementsDurableStore`,
  the refinement of `DurableStore`. That what clients read is what the abstract store
  computes from its commits is `ReadsAreLatest` (`PublishedIsStore`); then every action is
  mapped: `Write` to a commit, `Crash` to a crash that forgets a part of what was not
  durable, `Close` and `CloseFast` to a close, whatever fsyncs the log (`SyncWal`, a freeze,
  the end of a close) to a sync, and the rest of the pipeline to a stutter, because it
  changes neither the commits nor what the published view shows.

**Write-ahead log** (`WalProofs`), for batches, files and histories of any length.
`WalInvariant`: `Spec => []WalInv`, and from it `PromisesSurvive` (`PromisedSurvive`),
`WritesAreAtomic` (`WritesAtomic`) and `LossIsASuffix` (`NoHoles`), the last two under every
fault model. The argument has three layers.

* The loops. The library's induction rules take an operator and cannot be used, but that
  every nonempty set of naturals has a least member can, and gives `Induction` for a set;
  from it the loops get their equations (`ReadLoopTurns`, `ReplayLoopTurns`), and depend only
  on the frames they have passed (`ReadLoopAgrees`).
* A file. `Framed` says what the writer leaves, whatever fails: the attempts follow one
  another and each has written a beginning of its frames, a torn one perhaps at the end; it
  says nothing about sequence numbers, which failed writes make recovery see twice. Over such
  a file both loops are in closed form until `read_path` stops (`AlwaysReached`): the frames
  behind the durable prefix are a begin frame and consecutive operations, and the replay has
  applied exactly the attempts completed before, each as one block, in order
  (`RecoversSealed`, `RecoversWhole`). A prefix recovers a prefix (`RecoversInOrder`,
  `RecoversMore`), and the durable prefix is read as a whole (`CutReadsWhole`).
* The engine. Each action leaves the file framed and the acknowledged attempts complete in
  it; a blocked write is the latest attempt and has written nothing. Under `CleanFaults` the
  log is read as a whole while it is open, `buffered` is exactly the part no fsync has
  covered - so that a `sync()` that finds nothing buffered may promise everything - and the
  promised writes are recovered from the fsynced part alone.

**Manifest file** (`ManifestFileProofs`). `ManifestInductive` and `AckedManifestNeverLost`:
an acknowledged manifest survives any number of writes, errors and crashes. The invariant
`SafeDir` says of every directory a power failure may leave that, while there is no
`manifest.current`, `manifest.prev` is as new as the last acknowledged manifest - which is
what allows a retry to truncate a `manifest.tmp` that holds the newest one - and that no file
is newer than the last number used, so that the next one is newer than all.
`InspectorNeverStale`: a reader beside the writer never finds an older manifest than the one
acknowledged when it began, although it opens `manifest.current` and `manifest.prev` in two
steps between which the writer may rename them.

**Runtime shell** (`RuntimeProofs`), for any set of clients. `RuntimeInductive`:
`Spec => []RuntimeInv`, and from it `BarrierIsExclusive`, `CloseHandsOverAlone`,
`CountersAreExact`, `RepliesAreExact`, `NoMissedWakeup` and `RuntimeTypeCorrect`. The
invariant adds to the properties the control that each of them needs: which labels a client
and the coordinator may be at together (`ControlInv`), that the barrier flag has exactly one
holder and what the holder may rely on (`BarrierInv`), how far `close()` has come and what
can no longer happen then (`CloseInv`), and that an observed progress counter never lies in
the future and a sleeper's event is outstanding or announced (`WakeInv`). The count of the
readers is a cardinality, so the set of guarded readers is shown finite along with it.

**Secondary indexes** (`SecondaryIndexProofs`), for any number of indexes, memtables and
segments. `IndexInductive`: `Spec => []IndexInv`, and from it
`ReadyIndexesCovered` (`ReadyCovered`) and `IndexLookupsComplete` (`LookupsComplete`). Why a
Ready index is complete depends on work that is still on its way, so the invariant follows
it: a part is in one place only - memtable, flush, adoption, segment, output of a compaction
(`PartsApart`); ids are given out once and everybody's ids come from the manifest, so that
the files of a dropped index never meet a declared one (`IdsOld`, `IdsGone`); the shared
entries and the manifest name the same indexes except while one is declared or dropped
(`CopiesSynced`); every memtable maintains every declared index but the one being seeded, and
so does the memtable a builder reads (`MemtablesKnow`); and whatever claims to maintain a
declared index - a sidecar, a reader, a built or published segment, a merge - has all of the
part's records (`SidecarsComplete`). The last two speak of the indexes that are not
`overtaken`, as the two properties do: the table in section 3 shows the retry that makes an
index one. Nothing is assumed about when a retry runs.

**Catalog** (`CatalogProofs`), for any labels, workloads, generations and restarts.

* `ValidationIsExact` (`ValidationExact`): the validation of a write by its own records and
  the incident edges decides as the validation of the whole graph would. The argument goes
  over what the shortcut leaves out. A node that is not looked at has no applicable schema or
  is unchanged (`NodesExact`); the labels the code assumes for an endpoint are those after
  the write whenever a rule asks for them (`LabelsRead`); an edge that is not looked at keeps
  its endpoints' relevant labels (`EdgeUnaffected`). All that is needed of the run is that
  the workload never changes.
* `LabelsKeepTheirMeaning` (`LabelsKeepMeaning`). The inductive invariant is `Labelled`: a
  reference to a token is in the same place as the token or behind it. What the manifest
  refers to has its token in the manifest's own catalog (`ManifestOk`), segments too; the
  batches of a frozen generation need the manifest only, because `freeze_memtable` writes the
  whole catalog; a batch of the active generation has its tokens in the manifest, in an
  earlier batch or in itself (`LogOk`), so a cut at any place leaves references whole; and
  every token in memory is in the manifest or in the active generation (`Logs`), so no id is
  given out twice. `LabelsKeepMeaning` alone says nothing of the files and is not inductive.
  Recovery is a second induction, over the batches of a generation and then over the
  generations (`ReplayOk`, `RecoveredOk`): no batch is refused, and the catalog recovered is
  made of the tokens of the manifest and of the batches read, with the ids they had.
* `SchemasHold` (`SchemaHolds`). `Valid` adds that the records conform to the schemas in
  memory and that, while nothing acknowledged is lost, memory is what segments and log hold
  together (`Backed`), which makes a restart bring back exactly what was validated. A write
  keeps it by `ValidateOpsExact`, a publication because what it does not scan has no
  applicable entry (`EnteredConforms`), a flush because it only moves the oldest generation
  (`FlushValid`). By `Labelled` comparing ids and comparing labels is the same
  (`ConformsByLabel`).

**Graph** (`GraphProofs`), for any number of ids, labels, keys, sources, commits and batch
entries, with compaction and prune policies. `GraphInductive`: `Spec => []GraphInv`, and from
it `LookupsAreExact` (`LookupsExact`), `NeighborsAreExact` (`NeighborsExact`) and
`DeletionsReachLive` (`CascadeReachesLive`). On top of it `DegreesInductive`:
`Spec => []DegreeInv`, and from both `DegreesAreExact` (`DegreesExact`).

* The invariant. The lookups by key and by triple stop at the first source that knows an
  answer, so what they return depends on stale records that the properties do not mention.
  `Good` speaks of them, for a list of sources: a deleted id never comes back in a newer
  source (`DeadFinal`), all versions of an edge have the same ends (`EndsFixed`), ids not
  given out yet are unused (`IdsFresh`), and where two records claim the same key the older
  one is not its id's newest version (`KeysPassedOn`; with edge_uniqueness the same for
  triples, `TriplesPassedOn`). `GraphInv` is that of the sources, and what a running
  compaction must know of its output to take the place of its inputs later (`JobsOk`).
* Reads of such sources. Of each lookup it is shown that the early exit finds what a scan of
  the newest versions finds, and of `neighbors_raw` that one global set of tombstones hides
  exactly the deleted edges.
* Writes. An operation keeps `Good` if the id it writes is the owner of the key or triple, or
  is new and nobody owns it. That every plan has only such operations is an induction over
  the loops: the keys and triples that the loop has staged, with those it has seen removed,
  are exactly those of the sources it would lead to, although the code looks at the committed
  state and its hash maps and never at these sources. Cascades and prune delete only.
* Maintenance. Freezing and flushing keep the list; a compaction's output may drop ids, but
  holds the newest of its inputs' versions only, and the segments flushed meanwhile are newer
  than all of them.
* Degrees. `DegreeGood`: while every source has an overlay or a sidecar (`Complete`), these
  add up to the number of valid edges of each node that is live or not given out yet and
  never had a dangling edge. The sum alone is not inductive: a compaction drops an edge whose
  ends it does not find among its inputs, so it is also needed that a counted edge joins live
  nodes which are known in the source of the edge's newest version or behind it (`Anchored`),
  and that a running compaction's output has the sum and the edges of its inputs (`JobKeeps`).
  A commit computes its deltas from a private copy of the edge states, never from the
  memtable it writes: an induction over its operations shows that the copy follows the newest
  versions and the deltas the change in the number of valid edges (`Tracks`,
  `CommitTracks`). Freezing, flushing and compacting regroup a sum (`RunningShift`). Last,
  for such a node `neighbors_raw` returns exactly the valid edges (`IncidentCounted`).

To be proved about, the loops of `GraphStore` are recursive functions over the inputs.

Writing the proof for any number of labels showed that `GraphSchema` had resolved its node
labels only, which two labels hide; it resolves the endpoint labels too, as the code does.

The inductive invariants were model-checked on the instances of the runs before they were
proved; no run repeats it. Only model-checked:

* liveness and fairness (out of the prover's reach);
* the type invariant of `Wal` with its bounds on sequence numbers and counters;
* `PagesExact` and `ReadYourWrites`: what a merge of sorted lists, or the fold of a
  transaction's intents over its overlay, computes;
* `FirstCommitterWins` and `TxnCascadeComplete`: both go through the same fold, and the
  conflict check compares states that are several commits apart;
* `MaintenanceInvisible`, which compares all that is visible before and after a step;
* the engine's read properties with background compaction or late faults (the refinement
  does not hold there, see section 3).

## 5. Plan

Done: `StorageEngine`, `Wal`, `ManifestFile`, `Runtime`, the abstract store, `GraphStore`
with degrees, `Pages`, `Txn`, `SecondaryIndex`, `Catalog`; the proofs above. Next, in this
order:

1. Theorems: conflict detection in `Txn`; the merge of sorted lists in `Pages`; the reads of
   a running engine with background compaction.
2. `FreezeFails` in `StorageEngine` (pending epochs as a multiset), `Drop` and
   `best_effort_shutdown` in `Runtime`, the WAL header.
3. Edge-label tokens and the property rules of schemas in `Catalog`.

## 6. Not modelled

The GQL front end, the planner and executor, graph algorithms, vector search, segment file
formats, encodings and the bindings: sequential code over one immutable snapshot or pure
functions over rich data, where TLC's small instances say little. They are also most of the
repository's lines, so the map covers a small share of them and a larger one of the engine
core, the write path and the logs. `PROJECT.json` gives the reason for each. Of the modelled
parts, these are left out: time (validity windows, decay), property values and the schema
rules on them, edge labels, degree weights, transaction aliases, and the two kinds of error
paths the plan names. Weak memory is not modelled: the admission protocol of `DbRuntime`
uses acquire/release operations on two atomics, where a store followed by a load of the
other may be reordered; the models are sequentially consistent.
