--------------------------- MODULE StorageEngine ----------------------------
(***************************************************************************)
(* The write, flush, compaction and recovery core of the engine: one WAL   *)
(* generation per memtable, a background build and publish pipeline that   *)
(* turns frozen memtables into segments, background and explicit           *)
(* compaction, the manifest that ties them together, crash and reopen, and *)
(* the snapshots readers use.                                              *)
(*                                                                         *)
(* Data: a record is an id; a version of it is [id, seq, del], del marking *)
(* a tombstone.  All operations of one commit share one seq (the batch     *)
(* markers that make a WAL batch atomic are modelled in Wal).  A memtable  *)
(* and a WAL generation are sets of versions, a segment holds at most one  *)
(* version per id.  Option<T> is a set with at most one member.            *)
(***************************************************************************)
EXTENDS Integers, Sequences, FiniteSets, OrderedIds

CONSTANTS
    MaxId,          \* bound: record ids are 1..MaxId
    MaxSeq,         \* bound: commits per history
    MaxGen,         \* bound: WAL generations are 0..MaxGen
    MaxSeg,         \* bound: segment ids are 1..MaxSeg
    MaxRestarts,    \* bound: crashes and clean shutdowns
    MaxFaults,      \* bound: I/O errors met by flush and compaction
    MaxWork,        \* bound: commits and I/O errors together
    LateFaults,     \* TRUE: a manifest write may also fail after its rename
    FlushThreshold, \* DbOptions::memtable_flush_threshold, in versions (0: off)
    MaxImmutable,   \* DbOptions::max_immutable_memtables (0: off)
    MinEvents,      \* the event channel has room for at least MinEvents + 1 (4 in the code)
    HardCap,        \* DbOptions::memtable_hard_cap_bytes, in versions (0: off)
    CompactAfterN,  \* DbOptions::compact_after_n_flushes (0: off)
    GroupCommit,    \* TRUE: WalSyncMode::GroupCommit, FALSE: Immediate
    DeleteUnknown,  \* TRUE: clients also delete ids the engine never returned
    Readers         \* readers that may hold a published snapshot for a while

ASSUME ConstantsAssumption ==
    /\ MaxId \in Nat /\ MaxSeq \in Nat /\ MaxGen \in Nat /\ MaxSeg \in Nat
    /\ MaxRestarts \in Nat /\ MaxFaults \in Nat /\ MaxWork \in Nat
    /\ FlushThreshold \in Nat /\ MaxImmutable \in Nat /\ HardCap \in Nat
    /\ MinEvents \in Nat
    /\ CompactAfterN \in Nat
    /\ GroupCommit \in BOOLEAN /\ DeleteUnknown \in BOOLEAN /\ LateFaults \in BOOLEAN

Ids      == 1..MaxId
Seqs     == 1..MaxSeq
Gens     == 0..MaxGen
SegIds   == 1..MaxSeg
Versions == [id : Ids, seq : Seqs, del : BOOLEAN]

VARIABLES
    (* on disk *)
    manifest,   \* [segments, pending, active, nextGen, engineSeq, nextId]
    wal,        \* wal[g]: the versions of generation g that survive a crash
    segDirs,    \* the final segment directories that exist
    segData,    \* segData[s]: what segment s holds
    (* the core, behind its mutex *)
    status,     \* "closed", "open", "closing" (close) or "closingFast"
    engineSeq, nextId,
    mem,        \* the active memtable
    unsynced,   \* versions of the active generation not yet fsynced
    activeGen,
    imm,        \* immutable_epochs, newest first
    frozen,     \* frozen[g]: the memtable of epoch g
    inflight,   \* epochs with in_flight = true
    segs,       \* open segment readers, newest first
    nextSeg,
    flushErr,   \* flush_pipeline_error: the generation it is about
    errReported,
    compact,    \* bg_compact: [inputs, out, phase]
    flushCount, \* flush_count_since_last_compact
    (* the coordinator *)
    task,       \* "idle", "enqueue" (enqueue_all_non_in_flight), "drain" (shutdown events)
    barrier,    \* the epoch a flush barrier waits for
    (* the flush workers *)
    worker,     \* "none", "running" or "cancelled"
    workQ, built, events,   \* the three channels
    publisher,  \* the job the publisher holds: [gen, seg, published]
    (* readers *)
    view,       \* the published snapshot: [seq, imm, segs] over the active memtable
    pins,       \* pins[r]: the snapshot reader r holds, if any
    (* history and bounds *)
    committed,  \* every version committed and not lost by a crash
    restarts, faults

diskVars  == <<manifest, wal, segDirs, segData>>
seqVars   == <<engineSeq, nextId, committed>>
memVars   == <<mem, unsynced, activeGen, imm, frozen>>
flushVars == <<worker, workQ, built, events, publisher, inflight>>
errVars   == <<flushErr, errReported>>
compVars  == <<compact, flushCount>>
ctlVars   == <<status, task, barrier>>
boundVars == <<restarts, faults>>
vars == <<diskVars, seqVars, memVars, segs, nextSeg, flushVars, errVars, compVars,
          ctlVars, view, pins, boundVars>>

\* The bounds: a history may still have a commit, an I/O error.
MayCommit == engineSeq < MaxSeq /\ engineSeq + faults < MaxWork
MayFail   == faults < MaxFaults /\ engineSeq + faults < MaxWork

-----------------------------------------------------------------------------
(* Sources and lookups *)

\* Mutant: the first write of an id wins.
OldestWins(V) == {v \in V : \A w \in V : w.id = v.id => w.seq >= v.seq}

\* The newest version of each id: what a memtable shows, and what a build writes.
Winners(V) == {v \in V : \A w \in V : w.id = v.id => w.seq <= v.seq}

\* Mutant: the snapshot sequence number is not looked at.
AtLatest(V, i, s) == {v \in Winners(V) : v.id = i}

\* What a memtable shows of id i to a reader at snapshot s (VersionedSlot::at).
At(V, i, s) == {v \in Winners({w \in V : w.seq <= s}) : v.id = i}

Has(V, i) == \E v \in V : v.id = i

\* The first list member with an opinion on i decides (record or tombstone).
InFrozen(F, l, i, s) ==
    UNION {At(F[g], i, s) : g \in FirstOf(l, {h \in l.ids : At(F[h], i, s) # {}})}
InSegments(l, i) ==
    UNION {{v \in segData[x] : v.id = i} : x \in FirstOf(l, {y \in l.ids : Has(segData[y], i)})}

\* SourceList::find_node / find_edge over active memtable M, epochs l with the
\* memtables F, and segments t.
Find(M, F, l, t, i, s) ==
    IF At(M, i, s) # {} THEN At(M, i, s)
    ELSE IF InFrozen(F, l, i, s) # {} THEN InFrozen(F, l, i, s)
    ELSE InSegments(t, i)

Live(V) == {v \in V : ~v.del}

\* The core reads its own sources; a reader uses the published snapshot.
CoreFind(i) == Find(mem, frozen, imm, segs, i, engineSeq)
ViewFind(i) == Find(mem, frozen, view.imm, view.segs, i, view.seq)
PinFind(p, i) == Find(IF p.live THEN mem ELSE p.mem, frozen, p.imm, p.segs, i, p.seq)

\* PublishImpact::RebuildSources for the given state of the core.
RebuildSources(s, l, t) == [seq |-> s, imm |-> l, segs |-> t]

\* Mutant: the counters in the manifest are left as they were.
KeepCounter(m, n) == m

IsMax(n, S) == n \in S /\ \A m \in S : m <= n
\* merge_runtime_manifest_counters: the manifest's counters never go back.
Larger(m, n) == IF m >= n THEN m ELSE n

-----------------------------------------------------------------------------
(* Initially: a directory that was created and never opened *)

Init ==
    /\ manifest = [segments |-> EmptyIds, pending |-> {}, active |-> 0,
                   nextGen |-> 1, engineSeq |-> 0, nextId |-> 1]
    /\ wal = [g \in Gens |-> {}]
    /\ segDirs = {} /\ segData = [s \in SegIds |-> {}]
    /\ status = "closed" /\ engineSeq = 0 /\ nextId = 1
    /\ mem = {} /\ unsynced = {} /\ activeGen = 0
    /\ imm = EmptyIds /\ frozen = [g \in Gens |-> {}] /\ inflight = {}
    /\ segs = EmptyIds /\ nextSeg = 1
    /\ flushErr = {} /\ errReported = FALSE
    /\ compact = {} /\ flushCount = 0
    /\ task = "idle" /\ barrier = {}
    /\ worker = "none" /\ workQ = <<>> /\ built = <<>> /\ events = <<>> /\ publisher = {}
    /\ view = RebuildSources(0, EmptyIds, EmptyIds)
    /\ pins = [r \in Readers |-> {}]
    /\ committed = {} /\ restarts = 0 /\ faults = 0

-----------------------------------------------------------------------------
(* Opening: load the manifest, replay the WAL generations it names, clean up *)

\* What reopening the present disk state would read: every listed segment that
\* exists, one immutable epoch per pending generation, the active generation.
DiskSegments == Reversed(Without(manifest.segments, manifest.segments.ids \ segDirs))
DiskEpochs   == [ids    |-> manifest.pending,
                 before |-> {p \in manifest.pending \X manifest.pending : p[1] > p[2]}]
Replayed     == UNION {wal[g] : g \in manifest.pending \cup {manifest.active}}

Open ==
    /\ status = "closed"
    /\ status' = "open"
    /\ segs' = DiskSegments
    /\ imm' = DiskEpochs
    /\ frozen' = [g \in Gens |-> IF g \in manifest.pending THEN wal[g] ELSE {}]
    /\ mem' = wal[manifest.active]
    /\ activeGen' = manifest.active
    /\ \E n \in 0..MaxSeq : /\ IsMax(n, {manifest.engineSeq} \cup {v.seq : v \in Replayed})
                            /\ engineSeq' = n
                            /\ view' = RebuildSources(n, imm', segs')
    /\ \E n \in 1..(MaxId + 1) : /\ IsMax(n, {manifest.nextId} \cup {v.id + 1 : v \in Replayed})
                                 /\ nextId' = n
    /\ \E n \in 0..MaxSeg : /\ IsMax(n, {0} \cup manifest.segments.ids \cup segDirs)
                            /\ nextSeg' = n + 1
    /\ segDirs' = segDirs \cap manifest.segments.ids
    /\ wal' = [g \in Gens |-> IF g \in manifest.pending \cup {manifest.active}
                              THEN wal[g] ELSE {}]
    /\ UNCHANGED <<manifest, segData, unsynced, flushVars, errVars, compVars, task, barrier,
                   pins, committed, boundVars>>

-----------------------------------------------------------------------------
(* Commits *)

NonInFlight == imm.ids \ inflight

\* prepare_backpressure_flush: is either limit exceeded?
BackpressureExceeded ==
    \/ HardCap > 0 /\ Cardinality(mem \cup UNION {frozen[g] : g \in imm.ids}) >= HardCap
    \/ MaxImmutable > 0 /\ Cardinality(imm.ids) >= MaxImmutable

\* A flush pipeline error is first returned to one caller, then retried.
ErrorPending == flushErr # {} /\ ~errReported
RetryPending == flushErr # {} /\ errReported /\ NonInFlight # {}

\* The coordinator runs one command at a time.
CoordinatorFree == status = "open" /\ task = "idle" /\ barrier = {}

\* Mutant: the generation is not fsynced before the memtable is frozen.
FreezeUnsynced(M, s, n) ==
    /\ manifest.nextGen <= MaxGen
    /\ manifest' = [manifest EXCEPT !.pending = @ \cup {activeGen}, !.active = manifest.nextGen,
                                    !.nextGen = @ + 1, !.engineSeq = Larger(@, s),
                                    !.nextId = Larger(@, n)]
    /\ unsynced' = {} /\ activeGen' = manifest.nextGen /\ mem' = {}
    /\ frozen' = [frozen EXCEPT ![activeGen] = M]
    /\ imm' = PushFront(imm, activeGen) /\ view' = RebuildSources(s, imm', segs)
    /\ task' = "enqueue" /\ UNCHANGED <<wal, pins>>

\* freeze_memtable of an active memtable holding M at sequence number s and id
\* counter n: the generation is fsynced, the manifest records the frozen epoch
\* and the next generation, the memtable moves to the front of the epochs.
FreezeMemtable(M, s, n) ==
    /\ manifest.nextGen <= MaxGen
    /\ wal' = [wal EXCEPT ![activeGen] = @ \cup unsynced \cup (M \ mem)]
    /\ unsynced' = {}
    /\ manifest' = [manifest EXCEPT !.pending = @ \cup {activeGen},
                                    !.active = manifest.nextGen,
                                    !.nextGen = @ + 1,
                                    !.engineSeq = Larger(@, s),
                                    !.nextId = Larger(@, n)]
    /\ activeGen' = manifest.nextGen
    /\ mem' = {}
    /\ frozen' = [frozen EXCEPT ![activeGen] = M]
    /\ imm' = PushFront(imm, activeGen)
    /\ view' = RebuildSources(s, imm', segs)
    /\ pins' = [r \in Readers |->
                  {IF p.live THEN [p EXCEPT !.live = FALSE, !.mem = M] ELSE p : p \in pins[r]}]
    /\ task' = "enqueue"

LiveIds == {i \in Ids : Live(CoreFind(i)) # {}}

\* Mutant: a commit takes two sequence numbers and uses the second.
NewVersionsSkipping(P, D) == {[id |-> i, seq |-> engineSeq + 2, del |-> FALSE] : i \in P}
                               \cup {[id |-> i, seq |-> engineSeq + 2, del |-> TRUE] : i \in D}

\* The versions of a commit that upserts P and deletes D.
NewVersions(P, D) == {[id |-> i, seq |-> engineSeq + 1, del |-> FALSE] : i \in P}
                       \cup {[id |-> i, seq |-> engineSeq + 1, del |-> TRUE] : i \in D}

\* Upserts update live records or take the next ids; deletes do not look whether
\* the id exists (plan_delete_node writes the tombstone in any case).
Planned(P, D, n) ==
    /\ P \cup D # {} /\ P \cap D = {}
    /\ P \ LiveIds = nextId..(n - 1)
    /\ DeleteUnknown \/ \A i \in D : i < nextId

\* One write command: append to the WAL (and fsync it in Immediate mode), apply
\* to the memtable, publish the snapshot, freeze when the threshold is reached.
Write(P, D, n) ==
    /\ CoordinatorFree /\ ~ErrorPending /\ ~RetryPending /\ ~BackpressureExceeded
    /\ MayCommit
    /\ Planned(P, D, n)
    /\ engineSeq' = engineSeq + 1
    /\ nextId' = n
    /\ committed' = committed \cup NewVersions(P, D)
    /\ LET M == mem \cup NewVersions(P, D)
       IN \/ /\ FlushThreshold > 0 /\ Cardinality(M) >= FlushThreshold
             /\ FreezeMemtable(M, engineSeq + 1, n)
          \/ /\ FlushThreshold = 0 \/ Cardinality(M) < FlushThreshold
             /\ mem' = M
             /\ unsynced' = IF GroupCommit THEN unsynced \cup NewVersions(P, D) ELSE {}
             /\ wal' = IF GroupCommit THEN wal
                       ELSE [wal EXCEPT ![activeGen] = @ \cup NewVersions(P, D)]
             /\ view' = [view EXCEPT !.seq = engineSeq + 1]
             /\ UNCHANGED <<manifest, activeGen, imm, frozen, pins, task>>
    /\ UNCHANGED <<segDirs, segData, segs, nextSeg, flushVars, errVars, compVars, status,
                   barrier, boundVars>>

\* The group-commit thread or DatabaseEngine::sync fsyncs the active generation.
SyncWal ==
    /\ status # "closed" /\ unsynced # {}
    /\ wal' = [wal EXCEPT ![activeGen] = @ \cup unsynced]
    /\ unsynced' = {}
    /\ UNCHANGED <<manifest, segDirs, segData, seqVars, mem, activeGen, imm, frozen, segs,
                   nextSeg, flushVars, errVars, compVars, ctlVars, view, pins, boundVars>>

-----------------------------------------------------------------------------
(* The coordinator's side of the flush pipeline *)

\* A write that finds a limit exceeded and nothing in flight freezes if there is
\* no epoch to flush; it then waits (Write stays disabled) for the flush.
RelieveBackpressure ==
    /\ CoordinatorFree /\ ~ErrorPending /\ ~RetryPending
    /\ BackpressureExceeded /\ inflight = {}
    /\ \/ imm.ids # {} /\ task' = "enqueueOne" /\ UNCHANGED <<diskVars, memVars, view, pins>>
       \/ /\ imm.ids = {} /\ mem # {}
          /\ FreezeMemtable(mem, engineSeq, nextId)
          /\ UNCHANGED <<segDirs, segData>>
    /\ UNCHANGED <<seqVars, segs, nextSeg, flushVars, errVars, compVars, status, barrier,
                   boundVars>>

\* First pass of execute_flush_barrier: freeze, enqueue, wait for the newest epoch.
FlushBarrier ==
    /\ CoordinatorFree /\ ~ErrorPending /\ ~RetryPending
    /\ \/ /\ mem # {}
          /\ FreezeMemtable(mem, engineSeq, nextId)
          /\ barrier' = {activeGen}
          /\ UNCHANGED <<segDirs, segData>>
       \/ /\ mem = {} /\ imm.ids # {}
          /\ barrier' = FirstOf(imm, imm.ids)
          /\ task' = IF NonInFlight # {} THEN "enqueue" ELSE "idle"
          /\ UNCHANGED <<diskVars, memVars, view, pins>>
    /\ UNCHANGED <<seqVars, segs, nextSeg, flushVars, errVars, compVars, status, boundVars>>

\* The epoch the barrier waits for has been adopted, which is looked at before any error.
FlushReturns ==
    /\ status = "open" /\ task = "idle" /\ barrier # {}
    /\ barrier \cap imm.ids = {}
    /\ barrier' = {}
    /\ UNCHANGED <<diskVars, seqVars, memVars, segs, nextSeg, flushVars, errVars, compVars,
                   status, task, view, pins, boundVars>>

\* maybe_surface_or_retry_flush_pipeline_error, called by every write and by each
\* turn of a flush barrier: the caller gets the error once ...
SurfaceFlushError ==
    /\ status = "open" /\ task = "idle" /\ ErrorPending
    /\ errReported' = TRUE
    /\ barrier' = {}
    /\ UNCHANGED <<diskVars, seqVars, memVars, segs, nextSeg, flushVars, flushErr, compVars,
                   status, task, view, pins, boundVars>>

\* ... and the next call enqueues the epochs again.
RetryFlush ==
    /\ status = "open" /\ task = "idle" /\ RetryPending
    /\ task' = "enqueue"
    /\ UNCHANGED <<diskVars, seqVars, memVars, segs, nextSeg, flushVars, errVars, compVars,
                   status, barrier, view, pins, boundVars>>

\* enqueue_flush: the oldest epoch not in flight gets a segment id and goes to the
\* build worker; the workers are started if none run.
EnqueueFlush ==
    /\ task \in {"enqueue", "enqueueOne"} /\ nextSeg <= MaxSeg
    /\ \E g \in LastOf(imm, NonInFlight) :
          /\ workQ' = Append(workQ, [gen |-> g, seg |-> nextSeg])
          /\ inflight' = inflight \cup {g}
          /\ task' = IF task = "enqueue" /\ NonInFlight # {g} THEN "enqueue" ELSE "idle"
    /\ nextSeg' = nextSeg + 1
    /\ worker' = IF worker = "none" THEN "running" ELSE worker
    /\ UNCHANGED <<diskVars, seqVars, memVars, segs, built, events, publisher, errVars,
                   compVars, status, barrier, view, pins, boundVars>>

\* The build worker has already exited: the send fails and the caller gets an error.
EnqueueFails ==
    /\ task \in {"enqueue", "enqueueOne"} /\ worker = "cancelled"
    /\ task' = "idle" /\ barrier' = {}
    /\ UNCHANGED <<diskVars, seqVars, memVars, segs, nextSeg, flushVars, errVars, compVars,
                   status, view, pins, boundVars>>

-----------------------------------------------------------------------------
(* The build worker and the publisher, each on its own thread *)

\* Mutant: the channel does not grow with the limit on immutable memtables.
FixedEventCap == MinEvents + 1

\* event_cap of ensure_bg_flush_worker
EventCap == Larger(MaxImmutable, MinEvents) + 1

\* send_bg_flush_event blocks while the channel is full.  A failure at its head has been taken
\* out by its handler, which waits for the publisher; shutdown_bg_flush joins both workers
\* before it takes anything out.
EventRoom ==
    Len(events) >= EventCap => status # "closingFast" /\ Head(events).kind = "failed"

\* The worker writes the epoch to its segment directory and renames it into place.
\* One result waits in the channel, one in the worker's hand.
BuildSegment ==
    /\ worker = "running" /\ workQ # <<>> /\ Len(built) < 2
    /\ segData' = [segData EXCEPT ![Head(workQ).seg] = Winners(frozen[Head(workQ).gen])]
    /\ segDirs' = segDirs \cup {Head(workQ).seg}
    /\ built' = Append(built, Head(workQ))
    /\ workQ' = Tail(workQ)
    /\ UNCHANGED <<manifest, wal, seqVars, memVars, segs, nextSeg, worker, events, publisher,
                   inflight, errVars, compVars, ctlVars, view, pins, boundVars>>

\* Mutant: a failed build stops the worker without an event.
BuildFailsSilently ==
    /\ worker = "running" /\ workQ # <<>> /\ Len(built) < 2
    /\ MayFail /\ faults' = faults + 1
    /\ worker' = "cancelled" /\ workQ' = Tail(workQ)
    /\ UNCHANGED <<diskVars, seqVars, memVars, segs, nextSeg, built, publisher, inflight, events,
                   errVars, compVars, ctlVars, view, pins, restarts>>

\* A failed build removes what it wrote, reports the failure and stops both workers.
BuildFails ==
    /\ worker = "running" /\ workQ # <<>> /\ Len(built) < 2
    /\ MayFail /\ faults' = faults + 1
    /\ EventRoom
    /\ events' = Append(events, [kind |-> "failed", gen |-> Head(workQ).gen, seg |-> Head(workQ).seg])
    /\ worker' = "cancelled"
    /\ workQ' = Tail(workQ)
    /\ UNCHANGED <<diskVars, seqVars, memVars, segs, nextSeg, built, publisher, inflight,
                   errVars, compVars, ctlVars, view, pins, restarts>>

\* The publisher takes a result unless cancelled; what it has taken it finishes.
PublishReceive ==
    /\ worker = "running" /\ publisher = {} /\ built # <<>>
    /\ publisher' = {[gen |-> Head(built).gen, seg |-> Head(built).seg, published |-> FALSE]}
    /\ built' = Tail(built)
    /\ UNCHANGED <<diskVars, seqVars, memVars, segs, nextSeg, worker, workQ, events, inflight,
                   errVars, compVars, ctlVars, view, pins, boundVars>>

\* Mutant: the publisher clears every pending epoch.
PublishedClearsPending(w) ==
    [manifest EXCEPT !.segments = IF w.seg \in @.ids THEN @ ELSE PushBack(@, w.seg),
                     !.pending = {},
                     !.engineSeq = Larger(@, engineSeq), !.nextId = Larger(@, nextId)]

\* The manifest on disk, with the segment listed and the epoch no longer pending.
PublishedManifest(w) ==
    [manifest EXCEPT !.segments = IF w.seg \in @.ids THEN @ ELSE PushBack(@, w.seg),
                     !.pending = @ \ {w.gen},
                     !.engineSeq = Larger(@, engineSeq),
                     !.nextId = Larger(@, nextId)]

PublishManifest ==
    /\ \E w \in publisher :
          /\ ~w.published /\ w.gen \in manifest.pending
          /\ manifest' = PublishedManifest(w)
          /\ publisher' = {[w EXCEPT !.published = TRUE]}
    /\ UNCHANGED <<wal, segDirs, segData, seqVars, memVars, segs, nextSeg, worker, workQ, built,
                   events, inflight, errVars, compVars, ctlVars, view, pins, boundVars>>

\* Opening the segment, finding the epoch or writing the manifest fails.  A manifest
\* write that fails in its last step has already replaced the manifest.
PublishFails ==
    /\ \E w \in publisher :
          /\ ~w.published
          /\ \/ w.gen \notin manifest.pending /\ UNCHANGED <<manifest, faults>>
             \/ /\ MayFail /\ faults' = faults + 1
                /\ \/ UNCHANGED manifest
                   \/ LateFaults /\ w.gen \in manifest.pending /\ manifest' = PublishedManifest(w)
          /\ EventRoom
          /\ events' = Append(events, [kind |-> "failed", gen |-> w.gen, seg |-> w.seg])
    /\ publisher' = {}
    /\ worker' = "cancelled"
    /\ UNCHANGED <<wal, segDirs, segData, seqVars, memVars, segs, nextSeg, workQ, built,
                   inflight, errVars, compVars, ctlVars, view, pins, restarts>>

\* After the manifest is durable the generation is removed (the result is ignored)
\* and the adoption is announced.
RetireWal ==
    /\ \E w \in publisher :
          /\ w.published
          /\ \/ wal' = [wal EXCEPT ![w.gen] = {}] /\ UNCHANGED faults
             \/ MayFail /\ faults' = faults + 1 /\ UNCHANGED wal
          /\ EventRoom
          /\ events' = Append(events, [kind |-> "adopt", gen |-> w.gen, seg |-> w.seg])
    /\ publisher' = {}
    /\ UNCHANGED <<manifest, segDirs, segData, seqVars, memVars, segs, nextSeg, worker, workQ,
                   built, inflight, errVars, compVars, ctlVars, view, pins, restarts>>

-----------------------------------------------------------------------------
(* Adoption of published segments *)

\* maybe_schedule_bg_compact with flush counter n and segments t.
CompactionDue(n, t) ==
    /\ CompactAfterN > 0 /\ n >= CompactAfterN
    /\ Cardinality(t.ids) >= 2

\* start_bg_compact over the segments t, if due: every current segment is an input.
MaybeScheduleCompact(n, t) ==
    \/ /\ CompactionDue(n, t)
       /\ nextSeg <= MaxSeg
       /\ compact' = {[inputs |-> t, out |-> nextSeg, phase |-> "running"]}
       /\ nextSeg' = nextSeg + 1
       /\ flushCount' = 0
    \/ /\ ~CompactionDue(n, t)
       /\ compact' = {} /\ flushCount' = n
       /\ UNCHANGED nextSeg

EventTask == IF task = "drain" /\ Len(events) > 1 THEN "drain" ELSE "idle"

\* process_bg_flush_event, Adopt: the segment becomes the newest reader and the
\* epoch goes.  Events adopted while shutting the workers down are not published;
\* close_fast adopts them when the publisher has ended.
AdoptFlush ==
    /\ status # "closed" /\ task \in {"idle", "drain"}
    /\ status = "closingFast" => publisher = {}
    /\ events # <<>> /\ Head(events).kind = "adopt"
    /\ LET e == Head(events)
       IN /\ segs' = PushFront(segs, e.seg)
          /\ imm' = Without(imm, {e.gen})
          /\ inflight' = inflight \ {e.gen}
          /\ \/ e.gen \in flushErr /\ flushErr' = {} /\ errReported' = FALSE
             \/ e.gen \notin flushErr /\ UNCHANGED errVars
          /\ \/ compact = {} /\ MaybeScheduleCompact(flushCount + 1, segs')
             \/ compact # {} /\ flushCount' = flushCount + 1 /\ UNCHANGED <<compact, nextSeg>>
    /\ view' = IF task = "idle" /\ status = "open"
               THEN RebuildSources(engineSeq, imm', segs') ELSE view
    /\ events' = Tail(events)
    /\ task' = EventTask
    /\ UNCHANGED <<diskVars, seqVars, mem, unsynced, activeGen, frozen, worker, workQ, built,
                   publisher, status, barrier, pins, boundVars>>

\* process_bg_flush_event, Failed: remember the oldest failure, join the workers
\* (the publisher finishes its job first) and take back everything in flight.
FlushFailed ==
    /\ status # "closed" /\ task \in {"idle", "drain"} /\ publisher = {}
    /\ events # <<>> /\ Head(events).kind = "failed"
    /\ \/ /\ \A g \in flushErr : g >= Head(events).gen
          /\ flushErr' = {Head(events).gen} /\ errReported' = FALSE
       \/ /\ \E g \in flushErr : g < Head(events).gen
          /\ UNCHANGED errVars
    /\ worker' = "none" /\ workQ' = <<>> /\ built' = <<>> /\ inflight' = {}
    /\ events' = Tail(events)
    /\ task' = IF Len(events) > 1 THEN "drain" ELSE "idle"
    /\ UNCHANGED <<diskVars, seqVars, memVars, segs, nextSeg, publisher, compVars, status,
                   barrier, view, pins, boundVars>>

-----------------------------------------------------------------------------
(* Compaction *)

\* v3_plan_winners over the segments t: the tombstones of all inputs are collected
\* first; of the ids without one, the newest segment's record is kept.
Deleted(t)  == {i \in Ids : \E x \in t.ids : \E v \in segData[x] : v.id = i /\ v.del}
Compacted(t) == UNION {InSegments(t, i) : i \in Ids \ Deleted(t)}

\* bg_compact_worker: writes and opens the output segment.
CompactBuild ==
    /\ \E c \in compact :
          /\ c.phase = "running"
          /\ segData' = [segData EXCEPT ![c.out] = Compacted(c.inputs)]
          /\ segDirs' = segDirs \cup {c.out}
          /\ compact' = {[c EXCEPT !.phase = "built"]}
    /\ UNCHANGED <<manifest, wal, seqVars, memVars, segs, nextSeg, flushVars, errVars,
                   flushCount, ctlVars, view, pins, boundVars>>

CompactBuildFails ==
    /\ MayFail /\ faults' = faults + 1
    /\ \E c \in compact : c.phase = "running" /\ compact' = {[c EXCEPT !.phase = "failed"]}
    /\ UNCHANGED <<diskVars, seqVars, memVars, segs, nextSeg, flushVars, errVars, flushCount,
                   ctlVars, view, pins, restarts>>

\* Mutants: the inputs stay in the list; the output becomes the newest segment.
KeepInputs(l, t, out)    == PushBack(l, out)
OutputNewest(l, t, out)  == PushFront(Without(l, t.ids), out)

\* retain and push: the output takes the last place, in the manifest (oldest first)
\* as well as among the readers (newest first).
ReplaceInputs(l, t, out) == PushBack(Without(l, t.ids), out)

\* The manifest with the inputs t replaced by the output segment.
CompactedManifest(t, out) ==
    [manifest EXCEPT !.segments = ReplaceInputs(@, t, out),
                     !.engineSeq = Larger(@, engineSeq),
                     !.nextId = Larger(@, nextId)]

\* The directories of the inputs t are removed after the next snapshot is published;
\* a crash before that, or an error, leaves them to the next open.
RemoveInputs(t, dirs) == segDirs' \in {dirs, dirs \ t.ids}

\* apply_bg_compact_result: the output replaces the inputs, in the manifest and
\* then in memory, where it is the oldest segment.
ApplyCompact ==
    /\ status # "closed" /\ task = "idle"
    /\ \E c \in compact :
          /\ c.phase = "built" /\ c.inputs.ids \subseteq manifest.segments.ids
          /\ manifest' = CompactedManifest(c.inputs, c.out)
          /\ segs' = ReplaceInputs(segs, c.inputs, c.out)
          /\ RemoveInputs(c.inputs, segDirs)
    /\ MaybeScheduleCompact(flushCount, segs')
    /\ view' = IF status = "open" THEN RebuildSources(engineSeq, imm, segs') ELSE view
    /\ UNCHANGED <<wal, segData, seqVars, memVars, flushVars, errVars, ctlVars, pins, boundVars>>

\* The worker failed, an input is no longer listed, or the manifest write fails: the
\* output is removed, the inputs stay.  As above, the manifest may have been replaced.
ApplyCompactFails ==
    /\ status # "closed" /\ task = "idle"
    /\ \E c \in compact :
          /\ \/ c.phase = "failed" /\ UNCHANGED <<manifest, faults>>
             \/ /\ c.phase = "built" /\ ~(c.inputs.ids \subseteq manifest.segments.ids)
                /\ UNCHANGED <<manifest, faults>>
             \/ /\ c.phase = "built" /\ MayFail /\ faults' = faults + 1
                /\ \/ UNCHANGED manifest
                   \/ LateFaults /\ manifest' = CompactedManifest(c.inputs, c.out)
          /\ segDirs' = segDirs \ {c.out}
    /\ compact' = {}
    /\ UNCHANGED <<wal, segData, seqVars, memVars, segs, nextSeg, flushVars, errVars, flushCount,
                   ctlVars, view, pins, restarts>>

\* compact(): runs once the barrier has emptied the memtables and no background
\* compaction is left; every segment is merged into one.
CompactEnabled ==
    /\ CoordinatorFree /\ mem = {} /\ imm.ids = {} /\ compact = {}
    /\ Cardinality(segs.ids) >= 2 /\ nextSeg <= MaxSeg

Compact ==
    /\ CompactEnabled
    /\ segData' = [segData EXCEPT ![nextSeg] = Compacted(segs)]
    /\ RemoveInputs(segs, segDirs \cup {nextSeg})
    /\ manifest' = CompactedManifest(segs, nextSeg)
    /\ segs' = [ids |-> {nextSeg}, before |-> {}]
    /\ view' = RebuildSources(engineSeq, imm, segs')
    /\ nextSeg' = nextSeg + 1
    /\ flushCount' = 0
    /\ UNCHANGED <<wal, seqVars, memVars, flushVars, errVars, compact, ctlVars, pins, boundVars>>

\* Writing or opening the output fails: it is removed and its id given back.  The
\* manifest write fails: the output stays, unlisted unless the failure came late.
CompactFails ==
    /\ CompactEnabled
    /\ MayFail /\ faults' = faults + 1
    /\ \/ UNCHANGED <<manifest, segDirs, segData, nextSeg>>
       \/ /\ segData' = [segData EXCEPT ![nextSeg] = Compacted(segs)]
          /\ segDirs' = segDirs \cup {nextSeg}
          /\ nextSeg' = nextSeg + 1
          /\ \/ UNCHANGED manifest
             \/ LateFaults /\ manifest' = CompactedManifest(segs, nextSeg)
    /\ flushCount' = 0
    /\ UNCHANGED <<wal, seqVars, memVars, segs, flushVars, errVars, compact, ctlVars, view, pins,
                   restarts>>

-----------------------------------------------------------------------------
(* Shutdown, crash, readers *)

\* The process is gone: what is left is the disk.
MemoryLost ==
    /\ status' = "closed" /\ task' = "idle" /\ barrier' = {}
    /\ engineSeq' = 0 /\ nextId' = 1
    /\ mem' = {} /\ unsynced' = {} /\ activeGen' = 0
    /\ imm' = EmptyIds /\ frozen' = [g \in Gens |-> {}] /\ inflight' = {}
    /\ segs' = EmptyIds /\ nextSeg' = 1
    /\ flushErr' = {} /\ errReported' = FALSE /\ compact' = {} /\ flushCount' = 0
    /\ worker' = "none" /\ workQ' = <<>> /\ built' = <<>> /\ events' = <<>> /\ publisher' = {}
    /\ view' = RebuildSources(0, EmptyIds, EmptyIds)
    /\ pins' = [r \in Readers |-> {}]

\* close() and close_fast() wait for reads in progress and for queued writes.
MayClose == CoordinatorFree /\ restarts < MaxRestarts /\ \A r \in Readers : pins[r] = {}

\* EngineCore::close: freeze, enqueue every epoch, then wait for all of them.
Close ==
    /\ MayClose
    /\ status' = "closing"
    /\ \/ mem # {} /\ FreezeMemtable(mem, engineSeq, nextId) /\ UNCHANGED <<segDirs, segData>>
       \/ /\ mem = {} /\ task' = IF NonInFlight # {} THEN "enqueue" ELSE "idle"
          /\ UNCHANGED <<diskVars, memVars, view, pins>>
    /\ UNCHANGED <<seqVars, segs, nextSeg, flushVars, errVars, compVars, barrier, boundVars>>

\* EngineCore::close_fast: cancel the compaction and stop the flush workers; the
\* publisher finishes its job and what has been published is adopted.
CloseFast ==
    /\ MayClose
    /\ status' = "closingFast"
    /\ compact' = {}
    /\ worker' = IF worker = "running" THEN "cancelled" ELSE worker
    /\ UNCHANGED <<diskVars, seqVars, memVars, segs, nextSeg, workQ, built, events, publisher,
                   inflight, errVars, flushCount, task, barrier, view, pins, boundVars>>

\* close_inner: the WAL is fsynced and the final manifest written.
CloseFinish ==
    /\ status \in {"closing", "closingFast"} /\ task = "idle"
    /\ publisher = {} /\ events = <<>> /\ compact = {}
    /\ status = "closing" => inflight = {}
    /\ wal' = [wal EXCEPT ![activeGen] = @ \cup unsynced]
    /\ manifest' = [manifest EXCEPT !.active = activeGen,
                                    !.engineSeq = Larger(@, engineSeq),
                                    !.nextId = Larger(@, nextId)]
    /\ restarts' = restarts + 1
    /\ MemoryLost
    /\ UNCHANGED <<segDirs, segData, committed, faults>>

\* A crash keeps some prefix of what was appended but not fsynced.
Crash ==
    /\ status # "closed" /\ restarts < MaxRestarts /\ restarts' = restarts + 1
    /\ \E n \in 0..MaxSeq :
          LET kept == {v \in unsynced : v.seq <= n}
          IN /\ wal' = [wal EXCEPT ![activeGen] = @ \cup kept]
             /\ committed' = committed \ (unsynced \ kept)
    /\ MemoryLost
    /\ UNCHANGED <<manifest, segDirs, segData, faults>>

\* A reader takes the published snapshot and keeps its sources alive ...
PinView(r) ==
    /\ status = "open" /\ pins[r] = {}
    /\ pins' = [pins EXCEPT ![r] = {[seq |-> view.seq, imm |-> view.imm, segs |-> view.segs,
                                     live |-> TRUE, mem |-> {}]}]
    /\ UNCHANGED <<diskVars, seqVars, memVars, segs, nextSeg, flushVars, errVars, compVars,
                   ctlVars, view, boundVars>>

\* ... until it is done.
UnpinView(r) ==
    /\ pins[r] # {}
    /\ pins' = [pins EXCEPT ![r] = {}]
    /\ UNCHANGED <<diskVars, seqVars, memVars, segs, nextSeg, flushVars, errVars, compVars,
                   ctlVars, view, boundVars>>

-----------------------------------------------------------------------------
\* Requests of the application.
ClientStep ==
    \/ \E P, D \in SUBSET Ids : \E n \in nextId..(MaxId + 1) : Write(P, D, n)
    \/ FlushBarrier
    \/ Compact \/ CompactFails
    \/ Close
    \/ CloseFast
    \/ \E r \in Readers : PinView(r)

\* Steps of the coordinator and of the commands it is executing.
CoordinatorStep ==
    \/ RelieveBackpressure \/ FlushReturns \/ SurfaceFlushError \/ RetryFlush
    \/ EnqueueFlush \/ EnqueueFails
    \/ AdoptFlush \/ FlushFailed
    \/ ApplyCompact \/ ApplyCompactFails
    \/ CloseFinish

\* Steps of the background threads.
WorkerStep ==
    \/ SyncWal
    \/ BuildSegment \/ BuildFails
    \/ PublishReceive \/ PublishManifest \/ PublishFails \/ RetireWal
    \/ CompactBuild \/ CompactBuildFails
    \/ \E r \in Readers : UnpinView(r)

Next == Open \/ ClientStep \/ CoordinatorStep \/ WorkerStep \/ Crash

Spec == Init /\ [][Next]_vars

-----------------------------------------------------------------------------
(* Properties *)

Manifests   == [segments : IdLists(SegIds), pending : SUBSET Gens, active : Gens,
                nextGen : 1..(MaxGen + 1), engineSeq : 0..MaxSeq, nextId : 1..(MaxId + 1)]
Views       == [seq : 0..MaxSeq, imm : IdLists(Gens), segs : IdLists(SegIds)]
Pins        == [seq : 0..MaxSeq, imm : IdLists(Gens), segs : IdLists(SegIds),
                live : BOOLEAN, mem : SUBSET Versions]
Jobs        == [gen : Gens, seg : SegIds]
PublishJobs == [gen : Gens, seg : SegIds, published : BOOLEAN]
FlushEvents == [kind : {"adopt", "failed"}, gen : Gens, seg : SegIds]
Compactions == [inputs : IdLists(SegIds), out : SegIds, phase : {"running", "built", "failed"}]

DiskTypeOK ==
    /\ manifest \in Manifests
    /\ wal \in [Gens -> SUBSET Versions]
    /\ segDirs \subseteq SegIds
    /\ segData \in [SegIds -> SUBSET Versions]

CountersTypeOK ==
    /\ engineSeq \in 0..MaxSeq
    /\ nextId \in 1..(MaxId + 1)
    /\ committed \subseteq Versions
    /\ nextSeg \in 1..(MaxSeg + 1)
    /\ restarts \in Nat /\ faults \in Nat

MemTypeOK ==
    /\ mem \subseteq Versions /\ unsynced \subseteq Versions
    /\ activeGen \in Gens
    /\ imm \in IdLists(Gens)
    /\ frozen \in [Gens -> SUBSET Versions]

FlushTypeOK ==
    /\ worker \in {"none", "running", "cancelled"}
    /\ workQ \in Seq(Jobs) /\ built \in Seq(Jobs)
    /\ events \in Seq(FlushEvents)
    /\ publisher \subseteq PublishJobs
    /\ inflight \subseteq Gens
    /\ flushErr \subseteq Gens /\ errReported \in BOOLEAN

CompactTypeOK ==
    /\ segs \in IdLists(SegIds)
    /\ compact \subseteq Compactions
    /\ flushCount \in Nat

ControlTypeOK ==
    /\ status \in {"closed", "open", "closing", "closingFast"}
    /\ task \in {"idle", "enqueue", "enqueueOne", "drain"}
    /\ barrier \subseteq Gens

ReaderTypeOK ==
    /\ view \in Views
    /\ pins \in [Readers -> SUBSET Pins]

\* The state is well formed: counters, lists, channels and Option fields hold
\* values of the types the code declares for them.
TypeOK ==
    /\ DiskTypeOK /\ CountersTypeOK /\ MemTypeOK /\ FlushTypeOK
    /\ CompactTypeOK /\ ControlTypeOK /\ ReaderTypeOK

\* What the history says record i is at sequence number s.
Latest(V, i, s)  == {v \in V : /\ v.id = i /\ v.seq <= s
                               /\ \A w \in V : w.id = i /\ w.seq <= s => w.seq <= v.seq}
Expected(i, s) == Live(Latest(committed, i, s))

\* A read of the published snapshot returns exactly the committed state: no freeze,
\* adoption, compaction or failed flush hides a record or brings a deleted one back.
PublishedReadsLatest ==
    status = "open" =>
        /\ view.seq = engineSeq
        /\ \A i \in Ids : Live(ViewFind(i)) = Expected(i, engineSeq)

\* A reader that keeps a snapshot sees the state at the snapshot's sequence number
\* until it lets go, whatever is written, frozen, flushed or compacted meanwhile.
PinnedReadsStable ==
    \A r \in Readers : \A p \in pins[r] : \A i \in Ids :
        Live(PinFind(p, i)) = Expected(i, p.seq)

\* What reopening the present disk state would read of record i.
RecoveredFind(i) == Find(wal[manifest.active], wal, DiskEpochs, DiskSegments, i, MaxSeq)

\* At every instant a crash loses nothing that was fsynced and resurrects nothing:
\* manifest, WAL generations and segments together hold exactly the durable commits.
CrashRecoversSynced ==
    \A i \in Ids : Live(RecoveredFind(i)) = Live(Latest(committed \ unsynced, i, MaxSeq))

\* Every segment the manifest lists has its directory: open skips a missing one
\* without an error, so its records would silently vanish.
ListedSegmentsExist == manifest.segments.ids \subseteq segDirs

\* An epoch in memory is pending in the manifest until its adoption is under way:
\* otherwise publishing it fails ("missing FrozenPendingFlush epoch") at every retry.
EpochsRetryable ==
    status # "closed" =>
        \A g \in imm.ids :
            \/ g \in manifest.pending
            \/ \E w \in publisher : w.gen = g /\ w.published
            \/ \E k \in 1..Len(events) : events[k].gen = g /\ events[k].kind = "adopt"

\* After a crash the engine continues behind everything it ever acknowledged as
\* durable: no sequence number and no record id is handed out twice.
RecoveredCountersFresh ==
    \A v \in committed \ unsynced :
        /\ v.seq <= manifest.engineSeq \/ \E w \in Replayed : v.seq <= w.seq
        /\ v.del \/ v.id < manifest.nextId \/ \E w \in Replayed : v.id <= w.id

\* The strengthening that makes RecoveredCountersFresh inductive, in five parts.

\* The process is either gone, and nothing of it is left, or its counters are ahead of
\* the whole history and it appends to the generation the manifest calls active.
ClosedIsEmpty ==
    status = "closed" =>
        /\ unsynced = {} /\ publisher = {} /\ compact = {}
        /\ worker = "none" /\ task = "idle" /\ barrier = {} /\ events = <<>>

RunningIsAhead ==
    status # "closed" =>
        /\ manifest.active = activeGen
        /\ \A v \in committed : v.seq <= engineSeq /\ (v.del \/ v.id < nextId)

\* Nothing on disk, and nothing that will be written there, is an uncommitted or
\* unsynced version: what a crash loses never comes back.
StoredIsCommitted ==
    /\ mem \subseteq committed /\ unsynced \subseteq committed
    /\ \A g \in Gens : wal[g] \cup frozen[g] \subseteq committed \ unsynced
    /\ \A x \in SegIds : segData[x] \subseteq committed \ unsynced

\* The generations: the active one is not pending, those to come are new, and the one
\* the publisher is about to remove is needed by nobody.
GenerationsDistinct ==
    /\ manifest.active < manifest.nextGen /\ manifest.active \notin manifest.pending
    /\ \A g \in manifest.pending : g < manifest.nextGen
    /\ \A w \in publisher : w.published =>
           /\ w.gen \notin manifest.pending /\ w.gen # manifest.active
           /\ w.gen < manifest.nextGen

\* Recovery never reuses a sequence number or a record id, and never invents data; in
\* Immediate mode nothing is ever left unsynced.
RecoveryInv ==
    /\ RecoveredCountersFresh
    /\ ClosedIsEmpty /\ RunningIsAhead /\ StoredIsCommitted /\ GenerationsDistinct
    /\ GroupCommit \/ unsynced = {}

\* The strengthening that makes ListedSegmentsExist and EpochsRetryable inductive while no
\* manifest write fails after its rename.  A flush job is one of those not yet in the
\* manifest (queued, built, or with the publisher) or one of those whose adoption is due.
Items(q)    == {q[k] : k \in 1..Len(q)}
Unpublished == Items(workQ) \cup Items(built) \cup {w \in publisher : ~w.published}
Adopting    == {e \in Items(events) : e.kind = "adopt"}
Published   == {w \in publisher : w.published} \cup Adopting
GensOf(J)   == {j.gen : j \in J}
SegsOf(J)   == {j.seg : j \in J}

\* The jobs go through the pipeline in the order of their epochs and of their segment ids.
Ahead(a, b) == a.gen < b.gen /\ a.seg < b.seg
Ascending(q) == \A j, k \in 1..Len(q) : j < k => Ahead(q[j], q[k])
AdoptsAscending(q) ==
    \A j, k \in 1..Len(q) :
        j < k /\ q[j].kind = "adopt" /\ q[k].kind = "adopt" => Ahead(q[j], q[k])
JobsInOrder ==
    /\ Ascending(workQ) /\ Ascending(built) /\ AdoptsAscending(events)
    /\ \A a \in Adopting : \A b \in publisher \cup Items(built) \cup Items(workQ) : Ahead(a, b)
    /\ \A a \in publisher : \A b \in Items(built) \cup Items(workQ) : Ahead(a, b)
    /\ \A a \in Items(built) : \A b \in Items(workQ) : Ahead(a, b)

\* Stopped workers hold nothing.
WorkersStopped ==
    /\ \A w, x \in publisher : w = x
    /\ worker = "none" => workQ = <<>> /\ built = <<>> /\ publisher = {}
    /\ task = "drain" => worker = "none" /\ inflight = {}
    /\ status = "closed" => inflight = {}

\* The epochs in memory are the pending ones and those whose adoption is due, newest first;
\* the ones in flight are the oldest.
EpochsAccounted ==
    /\ \A g \in manifest.pending : g < manifest.active
    /\ GensOf(Unpublished) \subseteq manifest.pending
    /\ GensOf(Published) \cap manifest.pending = {}
    /\ task # "drain" => GensOf(Unpublished \cup Published) \subseteq inflight
    /\ inflight \subseteq imm.ids
    /\ status # "closed" =>
          /\ imm.ids = manifest.pending \cup GensOf(Published)
          /\ imm.before = {p \in imm.ids \X imm.ids : p[1] > p[2]}
          /\ \A g \in imm.ids : g < activeGen
          /\ \A g \in inflight : \A h \in imm.ids : h < g => h \in inflight

\* The listed segments are the open ones and those whose adoption is due; every other id in
\* use is new to the manifest.
SegmentsAccounted ==
    /\ \A x \in SegsOf(Unpublished) : x < nextSeg /\ x \notin manifest.segments.ids
    /\ \A c \in compact :
          /\ c.out < nextSeg /\ c.out \notin manifest.segments.ids \cup SegsOf(Unpublished)
          /\ c.inputs.ids \subseteq segs.ids
          /\ \A d \in compact : c = d
    /\ status # "closed" =>
          /\ manifest.segments.ids = segs.ids \cup SegsOf(Published)
          /\ segs.ids \cap SegsOf(Published) = {}
          /\ \A x \in manifest.segments.ids : x < nextSeg

\* What is listed or about to be listed has its directory.
DirectoriesExist ==
    /\ ListedSegmentsExist
    /\ SegsOf(Items(built) \cup {w \in publisher : ~w.published}) \subseteq segDirs
    /\ \A c \in compact : c.phase = "built" => c.out \in segDirs

PipelineInv ==
    /\ ~LateFaults
    /\ JobsInOrder /\ WorkersStopped /\ EpochsAccounted /\ SegmentsAccounted /\ DirectoriesExist

-----------------------------------------------------------------------------
(* Liveness.  Each thread keeps taking its steps while it has one; nothing is     *)
(* assumed of the application, of I/O errors or of crashes.  A barrier that waits *)
(* runs a turn of its loop after every event.                                     *)

BarrierTurn == barrier # {} /\ (SurfaceFlushError \/ RetryFlush \/ FlushReturns)

Fairness ==
    /\ WF_vars(BuildSegment)
    /\ WF_vars(PublishReceive \/ PublishManifest \/ RetireWal
                 \/ (PublishFails /\ UNCHANGED faults))
    /\ WF_vars(CompactBuild)
    /\ WF_vars(EnqueueFlush \/ AdoptFlush \/ FlushFailed \/ BarrierTurn \/ ApplyCompact
                 \/ (ApplyCompactFails /\ UNCHANGED faults) \/ CloseFinish)

FairSpec == Spec /\ Fairness

\* While a flush() waits, an epoch fails behind an older one whose error is still remembered:
\* record_flush_pipeline_error drops the newer error.
FailureMasked ==
    /\ barrier # {} /\ events # <<>> /\ Head(events).kind = "failed"
    /\ \E g \in flushErr : g < Head(events).gen

\* flush() returns, with a segment or with an error, however builds and publishes fail, unless a
\* failure is masked while it waits (then the retry of the older epoch may clear the only error
\* there is, and nobody enqueues the newer one again).
FlushEventuallyReturns == []~FailureMasked => (barrier # {} ~> barrier = {})

\* close() and close_fast() end.
CloseEventuallyEnds == status \in {"closing", "closingFast"} ~> status = "closed"

\* An application that keeps calling flush() gets every frozen epoch into a segment, unless a
\* failure is masked while it waits.
KeepsFlushing == WF_vars(FlushBarrier) /\ WF_vars(SurfaceFlushError) /\ WF_vars(RetryFlush)
FrozenEventuallyFlushed ==
    KeepsFlushing /\ []~FailureMasked => \A g \in Gens : g \in imm.ids ~> g \notin imm.ids
=============================================================================
