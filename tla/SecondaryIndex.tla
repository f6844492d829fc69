--------------------------- MODULE SecondaryIndex ---------------------------
(***************************************************************************)
(* The lifecycle of declared secondary indexes: ensure and drop on the     *)
(* write path, sidecars written by the flush builder, by compaction and by *)
(* the index worker, the Building / Ready / Failed state that the manifest *)
(* keeps, and the queries that use an index only where it is complete.     *)
(*                                                                         *)
(* Data: a part is a memtable that may become the segment of the same id,  *)
(* or the output segment of a compaction.  Every part holds a record that  *)
(* every index must find, so a lookup is complete when it finds every part *)
(* of the published view.  A memtable that does not know an index answers  *)
(* with nothing.  Equality, range and compound indexes, on nodes and on    *)
(* edges, follow the same protocol and are not told apart.                 *)
(*                                                                         *)
(* Locks: the steps of a core operation run under the core mutex and share *)
(* it with no other core action; the worker, the flush builder, the        *)
(* publisher and the compaction thread run between them, and each manifest *)
(* update is atomic under the manifest write lock.                         *)
(***************************************************************************)
EXTENDS Integers, Sequences, FiniteSets, FiniteSetsExt, SequencesExt, Functions

CONSTANTS
    Specs,        \* what can be indexed: a label, its fields and a kind
    MaxIndex,     \* bound: index ids are 1..MaxIndex
    MaxParts,     \* bound: memtables and compaction outputs of a history
    MaxTroubles   \* bound: failing builds, damaged sidecars, and restarts

ASSUME IndexConstantsAssumption ==
    /\ Specs # {} /\ MaxIndex \in Nat \ {0} /\ MaxParts \in Nat \ {0}
    /\ MaxTroubles \in Nat

Ids   == 1..MaxIndex
Parts == 1..MaxParts

VARIABLES
    disk,      \* the manifest: [segs, idx, nextId]
    runtime,   \* secondary_index_entries, shared by all threads
    active,    \* the part of the active memtable
    frozen,    \* the parts of the immutable epochs
    nextPart,
    reg,       \* the indexes each memtable maintains
    side,      \* sidecar of an index in a segment: none, full, empty or bad
    readers,   \* core.segments: the sidecars each open reader knows
    pub,       \* the published view: [mems, readers, idx]
    jobs,      \* the worker's job channel
    worker,    \* [pc, i, segs, todo, ready]
    builder,   \* the flush being built: {} or {[part, entries, own]}
    built,     \* built segments on their way to the publisher
    events,    \* adoptions on their way to the core
    compact,   \* the background compaction: {} or {a job or its result}
    core,      \* the operation that holds the core mutex: [pc, i, idx, ...]
    followups, \* pending_secondary_index_followups
    overtaken, \* history: indexes taken out of a memtable that a builder had
               \* found complete and was still reading
    troubles

flushVars == <<builder, built, events>>
vars == <<disk, runtime, active, frozen, nextPart, reg, side, readers, pub,
          jobs, worker, builder, built, events, compact, core, followups,
          overtaken, troubles>>

-----------------------------------------------------------------------------
(* Entries, sidecars, views *)

Declared(i) == i \in DOMAIN disk.idx

\* The entries of idx, those in S now in state st.
Mark(idx, S, st) ==
    [i \in DOMAIN idx |-> IF i \in S THEN [idx[i] EXCEPT !.state = st]
                                     ELSE idx[i]]

\* secondary_indexes of the manifest written under its lock; the entries
\* all threads share follow at once.
WriteIdx(idx) ==
    /\ disk' = [disk EXCEPT !.idx = idx]
    /\ runtime' = idx

\* What a reader opened now knows of the segment's component manifest.
Components(s) == {i \in Ids : side[s][i] # "none"}

\* Readable: a sidecar that validates.
Valid(s, i) == side[s][i] \in {"full", "empty"}

\* publish_locked with RebuildSources: the view of the memtables, readers and
\* entries as the caller leaves them.
Publish(mems, opened, idx) ==
    pub' = [mems |-> mems, readers |-> opened, idx |-> idx]

Mems == {active} \union frozen

Builds(S) == [n \in 1..Cardinality(S) |->
                [kind |-> "build", i |-> SetToSortSeq(S, <)[n]]]

CoreIdle == core.pc = "idle"
NoOp     == [pc |-> "idle", i |-> 0, idx |-> <<>>]
AtRest   == [pc |-> "idle", i |-> 0, segs |-> {}, todo |-> {}, ready |-> FALSE]

\* Declarations a new segment does not maintain go back to Building.
Unmaintained(idx, maintained) ==
    {i \in DOMAIN idx \ maintained : idx[i].state # "failed"}

Reconcile(idx, maintained) ==
    Mark(idx, Unmaintained(idx, maintained), "building")

Init ==
    /\ disk = [segs |-> {}, idx |-> <<>>, nextId |-> 1]
    /\ runtime = <<>>
    /\ active = 1 /\ frozen = {} /\ nextPart = 2
    /\ reg = [m \in Parts |-> {}]
    /\ side = [s \in Parts |-> [i \in Ids |-> "none"]]
    /\ readers = <<>>
    /\ pub = [mems |-> {1}, readers |-> <<>>, idx |-> <<>>]
    /\ jobs = <<>> /\ worker = AtRest
    /\ builder = {} /\ built = <<>> /\ events = <<>>
    /\ compact = {} /\ core = NoOp /\ followups = {}
    /\ overtaken = {} /\ troubles = 0

-----------------------------------------------------------------------------
(* ensure_*_property_index and drop_*_property_index: the manifest, then   *)
(* the shared entries, then the memtables, the job and the view            *)

EnsureIndex(spec) ==
    /\ CoreIdle
    /\ \/ /\ \A i \in DOMAIN disk.idx : disk.idx[i].spec # spec
          /\ disk.nextId \in Ids
          /\ LET i   == disk.nextId
                 idx == [x \in DOMAIN disk.idx \union {i} |->
                            IF x = i THEN [spec |-> spec, state |-> "building"]
                                     ELSE disk.idx[x]]
             IN /\ disk' = [disk EXCEPT !.idx = idx, !.nextId = i + 1]
                /\ core' = [pc |-> "ensure", i |-> i, idx |-> idx]
       \/ \E i \in DOMAIN disk.idx :
             /\ disk.idx[i] = [spec |-> spec, state |-> "failed"]
             /\ LET idx == Mark(disk.idx, {i}, "building")
                IN /\ disk' = [disk EXCEPT !.idx = idx]
                   /\ core' = [pc |-> "retry", i |-> i, idx |-> idx]
    /\ UNCHANGED <<runtime, active, frozen, nextPart, reg, side, readers, pub,
                   jobs, worker, flushVars, compact, followups, overtaken, troubles>>

DropIndex(spec) ==
    /\ CoreIdle
    /\ \E i \in DOMAIN disk.idx :
          /\ disk.idx[i].spec = spec
          /\ LET idx == Restrict(disk.idx, DOMAIN disk.idx \ {i})
             IN /\ disk' = [disk EXCEPT !.idx = idx]
                /\ core' = [pc |-> "drop", i |-> i, idx |-> idx]
    /\ UNCHANGED <<runtime, active, frozen, nextPart, reg, side, readers, pub,
                   jobs, worker, flushVars, compact, followups, overtaken, troubles>>

\* rebuild_secondary_index_catalog: the shared entries take the operation's
\* copy of the manifest, whatever was written since.
SyncCatalog ==
    /\ core.pc \in {"ensure", "retry", "drop", "compacted"}
    /\ runtime' = core.idx
    /\ core' = [core EXCEPT !.pc = CASE @ = "ensure"    -> "seed"
                                     [] @ = "retry"     -> "reseed"
                                     [] @ = "drop"      -> "remove"
                                     [] @ = "compacted" -> "swap"]
    /\ UNCHANGED <<disk, active, frozen, nextPart, reg, side, readers, pub, jobs,
                   worker, flushVars, compact, followups, overtaken, troubles>>

Register(i)   == [m \in Parts |-> IF m \in Mems THEN reg[m] \union {i} ELSE reg[m]]
Unregister(i) == [m \in Parts |-> IF m \in Mems THEN reg[m] \ {i} ELSE reg[m]]

\* A retried index is first removed from the memtables, the one a builder may
\* be reading included.
ForgetRetried ==
    /\ core.pc = "reseed"
    /\ reg' = Unregister(core.i)
    /\ overtaken' = IF \E b \in builder : ~b.own /\ core.i \in b.entries
                    THEN overtaken \union {core.i} ELSE overtaken
    /\ core' = [core EXCEPT !.pc = "seed"]
    /\ UNCHANGED <<disk, runtime, active, frozen, nextPart, side, readers, pub,
                   jobs, worker, flushVars, compact, followups, troubles>>

SeedMemtables ==
    /\ core.pc = "seed"
    /\ reg' = Register(core.i)
    /\ jobs' = Append(jobs, [kind |-> "build", i |-> core.i])
    /\ core' = NoOp
    /\ Publish(Mems, readers, runtime)
    /\ UNCHANGED <<disk, runtime, active, frozen, nextPart, side, readers,
                   worker, flushVars, compact, followups, overtaken, troubles>>

RemoveFromMemtables ==
    /\ core.pc = "remove"
    /\ reg' = Unregister(core.i)
    /\ jobs' = Append(jobs, [kind |-> "drop", i |-> core.i])
    /\ core' = NoOp
    /\ Publish(Mems, readers, runtime)
    /\ UNCHANGED <<disk, runtime, active, frozen, nextPart, side, readers,
                   worker, flushVars, compact, followups, overtaken, troubles>>

-----------------------------------------------------------------------------
(* Freeze, flush, adoption *)

Freeze ==
    /\ CoreIdle /\ nextPart \in Parts
    /\ active' = nextPart /\ nextPart' = nextPart + 1
    /\ frozen' = Mems
    /\ reg' = [reg EXCEPT ![nextPart] = DOMAIN runtime]
    /\ Publish(Mems \union {nextPart}, readers, runtime)
    /\ UNCHANGED <<disk, runtime, side, readers, jobs, worker, flushVars, compact,
                   core, followups, overtaken, troubles>>

InPipeline == {b.part : b \in builder \union ToSet(built)} \union disk.segs

\* bg_flush_build_worker: the declarations of this moment; a memtable that
\* misses one of them is cloned and the clone completed.
StartBuild ==
    /\ builder = {} /\ frozen \ InPipeline # {}
    /\ LET m == Min(frozen \ InPipeline)
       IN builder' = {[part |-> m, entries |-> DOMAIN runtime,
                       own |-> ~(DOMAIN runtime \subseteq reg[m])]}
    /\ UNCHANGED <<disk, runtime, active, frozen, nextPart, reg, side, readers,
                   pub, jobs, worker, built, events, compact, core, followups,
                   overtaken, troubles>>

\* Mutant: no clone; what the frozen memtable knows is written.
WriteSegmentUnseeded ==
    \E b \in builder :
        /\ side' = [side EXCEPT ![b.part] = [i \in Ids |->
              IF i \notin b.entries THEN "none"
              ELSE IF i \in reg[b.part] THEN "full" ELSE "empty"]]
        /\ built' = Append(built, b)
        /\ builder' = {}
        /\ UNCHANGED <<disk, runtime, active, frozen, nextPart, reg, readers, pub,
                       jobs, worker, events, compact, core, followups, overtaken, troubles>>

\* A sidecar for every declaration captured, whatever its state, from what
\* the memtable (or its clone) knows when it is written.
WriteSegment ==
    \E b \in builder :
        /\ side' = [side EXCEPT ![b.part] = [i \in Ids |->
              IF i \notin b.entries THEN "none"
              ELSE IF b.own \/ i \in reg[b.part] THEN "full" ELSE "empty"]]
        /\ built' = Append(built, b)
        /\ builder' = {}
        /\ UNCHANGED <<disk, runtime, active, frozen, nextPart, reg, readers, pub,
                       jobs, worker, events, compact, core, followups, overtaken, troubles>>

\* bg_flush_publish_worker: the segment enters the manifest together with the
\* states it invalidates.
PublishSegment ==
    /\ built # <<>>
    /\ LET b   == Head(built)
           idx == Reconcile(disk.idx, b.entries)
       IN /\ disk' = [disk EXCEPT !.segs = @ \union {b.part}, !.idx = idx]
          /\ runtime' = idx
          /\ events' = Append(events, [part |-> b.part, known |-> b.entries,
                                rebuild |-> Unmaintained(disk.idx, b.entries)])
    /\ built' = Tail(built)
    /\ UNCHANGED <<active, frozen, nextPart, reg, side, readers, pub, jobs, worker,
                   builder, compact, core, followups, overtaken, troubles>>

\* Mutant: the adoption forgets the indexes the segment does not maintain.
AdoptUnqueued ==
    /\ CoreIdle /\ events # <<>>
    /\ LET ev     == Head(events)
           opened == [s \in DOMAIN readers \union {ev.part} |->
                        IF s = ev.part THEN ev.known ELSE readers[s]]
       IN /\ readers' = opened
          /\ frozen' = frozen \ {ev.part}
          /\ Publish({active} \union frozen', opened, runtime)
    /\ events' = Tail(events)
    /\ UNCHANGED <<disk, runtime, active, nextPart, reg, side, jobs, worker,
                   builder, built, compact, core, followups, overtaken, troubles>>

\* process_bg_flush_event: the reader replaces the memtable.  The rebuilt
\* states it also sets in core.manifest are read by nothing else.
Adopt ==
    /\ CoreIdle /\ events # <<>>
    /\ LET ev     == Head(events)
           opened == [s \in DOMAIN readers \union {ev.part} |->
                        IF s = ev.part THEN ev.known ELSE readers[s]]
       IN /\ readers' = opened
          /\ frozen' = frozen \ {ev.part}
          /\ jobs' = jobs \o Builds(ev.rebuild)
          /\ Publish({active} \union frozen', opened, runtime)
    /\ events' = Tail(events)
    /\ UNCHANGED <<disk, runtime, active, nextPart, reg, side, worker, builder,
                   built, compact, core, followups, overtaken, troubles>>

-----------------------------------------------------------------------------
(* Background compaction *)

StartCompact ==
    /\ CoreIdle /\ compact = {}
    /\ Cardinality(DOMAIN readers) > 1 /\ nextPart \in Parts
    /\ compact' = {[pc |-> "merge", inputs |-> DOMAIN readers, out |-> nextPart,
                    idx |-> runtime, failed |-> {}]}
    /\ nextPart' = nextPart + 1
    /\ UNCHANGED <<disk, runtime, active, frozen, reg, side, readers, pub, jobs,
                   worker, flushVars, core, followups, overtaken, troubles>>

\* write_declared_*_sidecars_from_metadata: the sidecars of the inputs are
\* merged when all of them are readable; otherwise the records are decoded
\* again, and a Ready index may be reported failed.
Merge(c, failed) ==
    /\ side' = [side EXCEPT ![c.out] = [i \in Ids |->
          IF i \notin DOMAIN c.idx THEN "none"
          ELSE IF /\ c.idx[i].state # "failed"
                  /\ \A s \in c.inputs : Valid(s, i)
                  /\ \E s \in c.inputs : side[s][i] = "empty" THEN "empty"
          ELSE "full"]]
    /\ compact' = {[c EXCEPT !.pc = "merged", !.failed = failed]}

RunCompact ==
    /\ \E c \in compact :
          /\ c.pc = "merge"
          /\ LET damaged == {i \in DOMAIN c.idx : c.idx[i].state # "failed" /\
                                \E s \in c.inputs : side[s][i] = "bad"}
                 ready   == {i \in damaged : c.idx[i].state = "ready"}
             IN \/ \E failed \in SUBSET ready : Merge(c, failed)
                \/ damaged # {} /\ compact' = {} /\ UNCHANGED side
    /\ UNCHANGED <<disk, runtime, active, frozen, nextPart, reg, readers, pub,
                   jobs, worker, flushVars, core, followups, overtaken, troubles>>

\* apply_bg_compact_result, under the manifest lock: segments swapped, failures
\* recorded, unmaintained declarations sent back to Building.
ApplyCompact ==
    /\ CoreIdle
    /\ \E c \in compact :
          /\ c.pc = "merged"
          /\ LET marked == Mark(disk.idx, c.failed, "failed")
                 idx    == Reconcile(marked, DOMAIN c.idx)
             IN /\ disk' = [disk EXCEPT !.segs = (@ \ c.inputs) \union {c.out},
                                        !.idx = idx]
                /\ core' = [pc |-> "compacted", i |-> 0, idx |-> idx]
                /\ compact' = {[c EXCEPT !.pc = "swap",
                                  !.failed = Unmaintained(marked, DOMAIN c.idx)]}
    /\ UNCHANGED <<runtime, active, frozen, nextPart, reg, side, readers, pub,
                   jobs, worker, flushVars, followups, overtaken, troubles>>

\* The rest of apply_bg_compact_result, after the catalog; c.failed now holds
\* the indexes to rebuild.
SwapReaders ==
    /\ core.pc = "swap"
    /\ \E c \in compact :
          LET opened == [s \in (DOMAIN readers \ c.inputs) \union {c.out} |->
                            IF s = c.out THEN Components(s) ELSE readers[s]]
          IN /\ readers' = opened
             /\ jobs' = jobs \o Builds(c.failed)
             /\ Publish(Mems, opened, runtime)
    /\ compact' = {} /\ core' = NoOp
    /\ UNCHANGED <<disk, runtime, active, frozen, nextPart, reg, side, worker,
                   flushVars, followups, overtaken, troubles>>

-----------------------------------------------------------------------------
(* bg_secondary_index_worker *)

\* A Build job is begun; a DropCleanup removes the sidecars of the manifest's
\* segments.
TakeJob ==
    /\ worker.pc = "idle" /\ jobs # <<>>
    /\ jobs' = Tail(jobs)
    /\ LET j == Head(jobs)
       IN \/ /\ j.kind = "build"
             /\ worker' = [worker EXCEPT !.pc = "load", !.i = j.i, !.ready = FALSE]
             /\ UNCHANGED side
          \/ /\ j.kind = "drop"
             /\ side' = [s \in Parts |-> IF s \in disk.segs
                            THEN [side[s] EXCEPT ![j.i] = "none"] ELSE side[s]]
             /\ UNCHANGED worker
    /\ UNCHANGED <<disk, runtime, active, frozen, nextPart, reg, readers, pub,
                   flushVars, compact, core, followups, overtaken, troubles>>

\* load_secondary_*_build_snapshot
LoadSnapshot ==
    /\ worker.pc = "load"
    /\ worker' = IF Declared(worker.i) /\ disk.idx[worker.i].state = "building"
                 THEN [worker EXCEPT !.pc = "build", !.segs = disk.segs,
                                     !.todo = disk.segs]
                 ELSE [worker EXCEPT !.pc = "republish"]
    /\ UNCHANGED <<disk, runtime, active, frozen, nextPart, reg, side, readers,
                   pub, jobs, flushVars, compact, core, followups, overtaken, troubles>>

\* build_*_sidecars_for_snapshot, one segment: nothing to do for a readable
\* sidecar or a segment that is gone.
BuildSidecar ==
    /\ worker.pc = "build"
    /\ \E s \in worker.todo :
          /\ side' = IF Valid(s, worker.i) \/ s \notin disk.segs THEN side
                     ELSE [side EXCEPT ![s][worker.i] = "full"]
          /\ worker' = [worker EXCEPT !.todo = @ \ {s}]
    /\ UNCHANGED <<disk, runtime, active, frozen, nextPart, reg, readers, pub,
                   jobs, flushVars, compact, core, followups, overtaken, troubles>>

\* An error of the build: mark_secondary_index_failed.
FailBuild ==
    /\ worker.pc = "build" /\ worker.todo # {} /\ troubles < MaxTroubles
    /\ WriteIdx(Mark(disk.idx, {worker.i}, "failed"))
    /\ worker' = [worker EXCEPT !.pc = "republish"]
    /\ troubles' = troubles + 1
    /\ UNCHANGED <<active, frozen, nextPart, reg, side, readers, pub, jobs,
                   flushVars, compact, core, followups, overtaken>>

\* validate_*_snapshot_coverage
Coverage ==
    IF \E s \in worker.segs : side[s][worker.i] = "bad" THEN "failed"
    ELSE IF \A s \in worker.segs : Valid(s, worker.i) THEN "ready"
    ELSE "building"

\* Mutant: Ready although a segment arrived during the build.
FinalizeUnchecked ==
    /\ worker.pc = "build" /\ worker.todo = {}
    /\ IF ~Declared(worker.i) \/ disk.idx[worker.i].state # "building"
       THEN /\ WriteIdx(disk.idx)
            /\ worker' = [worker EXCEPT !.pc = "republish"]
       ELSE /\ WriteIdx(Mark(disk.idx, {worker.i}, Coverage))
            /\ worker' = [worker EXCEPT !.pc = "republish",
                                        !.ready = Coverage = "ready"]
    /\ UNCHANGED <<active, frozen, nextPart, reg, side, readers, pub, jobs,
                   flushVars, compact, core, followups, overtaken, troubles>>

\* finalize_*_build_snapshot: Inactive, Retry when the segments changed, or the
\* state that the coverage gives.
Finalize ==
    /\ worker.pc = "build" /\ worker.todo = {}
    /\ IF Declared(worker.i) /\ disk.segs # worker.segs
       THEN /\ WriteIdx(disk.idx)
            /\ worker' = [worker EXCEPT !.pc = "load"]
       ELSE IF ~Declared(worker.i) \/ disk.idx[worker.i].state # "building"
       THEN /\ WriteIdx(disk.idx)
            /\ worker' = [worker EXCEPT !.pc = "republish"]
       ELSE /\ WriteIdx(Mark(disk.idx, {worker.i}, Coverage))
            /\ worker' = [worker EXCEPT !.pc = "republish",
                                        !.ready = Coverage = "ready"]
    /\ UNCHANGED <<active, frozen, nextPart, reg, side, readers, pub, jobs,
                   flushVars, compact, core, followups, overtaken, troubles>>

\* republish_secondary_index_state(_and_refreshed_stats)_if_open: the readers of
\* the segments that were covered are replaced by ones that know the sidecar,
\* when the index is still Ready.
Republish ==
    /\ worker.pc = "republish" /\ CoreIdle
    /\ LET current == /\ worker.ready
                      /\ worker.i \in DOMAIN runtime
                      /\ runtime[worker.i].state = "ready"
           opened  == [s \in DOMAIN readers |->
                         IF current /\ s \in worker.segs /\ Valid(s, worker.i)
                         THEN Components(s) ELSE readers[s]]
       IN /\ readers' = opened
          /\ Publish(Mems, opened, runtime)
    /\ worker' = AtRest
    /\ UNCHANGED <<disk, runtime, active, frozen, nextPart, reg, side, jobs,
                   flushVars, compact, core, followups, overtaken, troubles>>

-----------------------------------------------------------------------------
(* Queries: find_*_outcome and ready_*_source_ids *)

\* A segment of the view that cannot answer: its reader does not know the
\* sidecar, or the sidecar does not validate.
Unanswered(i) == {s \in DOMAIN pub.readers :
                    i \notin pub.readers[s] \/ side[s][i] = "bad"}

\* What the index finds: nothing in a memtable that does not maintain it.
Found(i) == {m \in pub.mems : i \in reg[m]} \union
            {s \in DOMAIN pub.readers : side[s][i] = "full"}

ReadyInView(i) == i \in DOMAIN pub.idx /\ pub.idx[i].state = "ready"

\* A query that had to scan asks for a repair: Building when the sidecar is
\* missing, Failed when it is damaged.
Query(i) ==
    /\ ReadyInView(i)
    /\ \E s \in Unanswered(i) :
          LET f == [i |-> i, next |-> IF i \in pub.readers[s] THEN "failed"
                                                              ELSE "building"]
          IN f \notin followups /\ followups' = followups \union {f}
    /\ UNCHANGED <<disk, runtime, active, frozen, nextPart, reg, side, readers,
                   pub, jobs, worker, flushVars, compact, core, overtaken, troubles>>

\* degrade_ready_*_index_after_sidecar_failure, a queued core write
ApplyFollowup ==
    /\ CoreIdle
    /\ \E f \in followups :
          /\ followups' = followups \ {f}
          /\ IF f.i \notin DOMAIN runtime \/ runtime[f.i].state = f.next
             THEN UNCHANGED <<disk, runtime, jobs, pub>>
             ELSE /\ WriteIdx(Mark(disk.idx, {f.i}, f.next))
                  /\ jobs' = IF f.next = "building" /\ runtime[f.i].state # "building"
                             THEN Append(jobs, [kind |-> "build", i |-> f.i])
                             ELSE jobs
                  /\ Publish(Mems, readers, runtime')
    /\ UNCHANGED <<active, frozen, nextPart, reg, side, readers, worker, flushVars,
                   compact, core, overtaken, troubles>>

-----------------------------------------------------------------------------
(* Faults and restarts *)

\* External: a sidecar file is damaged where its validation notices.
Damage ==
    /\ troubles < MaxTroubles
    /\ \E s \in disk.segs, i \in DOMAIN disk.idx :
          side[s][i] = "full" /\ side' = [side EXCEPT ![s][i] = "bad"]
    /\ troubles' = troubles + 1
    /\ UNCHANGED <<disk, runtime, active, frozen, nextPart, reg, readers, pub,
                   jobs, worker, flushVars, compact, core, followups, overtaken>>

\* recover_secondary_index_states_on_open: a Ready index with a missing sidecar
\* goes back to Building; one with a damaged sidecar to Building or Failed, or
\* the check of its header does not notice.
RecoveredState(sd, i) ==
    IF disk.idx[i].state # "ready" THEN {disk.idx[i].state}
    ELSE LET missing == \E s \in disk.segs : sd[s][i] = "none"
             damaged == \E s \in disk.segs : sd[s][i] = "bad"
         IN CASE missing /\ damaged   -> {"building", "failed"}
              [] missing /\ ~damaged  -> {"building"}
              [] ~missing /\ damaged  -> {"ready", "building", "failed"}
              [] ~missing /\ ~damaged -> {"ready"}

\* The sidecars of unpublished segments are gone, and those in lost.
SidesLeft(lost) ==
    [s \in Parts |-> [i \in Ids |-> IF s \notin disk.segs \/ <<s, i>> \in lost THEN "none"
                                    ELSE side[s][i]]]

\* The states found at open are written, and the Building indexes are scheduled.
WriteRecovered(st) ==
    /\ \A i \in DOMAIN st : st[i] \in RecoveredState(side', i)
    /\ WriteIdx([i \in DOMAIN st |-> [disk.idx[i] EXCEPT !.state = st[i]]])
    /\ jobs' = Builds({i \in DOMAIN st : st[i] = "building"})

\* The process ends at any point and the database is opened again: unpublished
\* segments are gone, a sidecar may be lost with them, the memtables are
\* replayed and seeded, the readers know what is on disk, the Building indexes
\* are scheduled.
Restart ==
    /\ troubles < MaxTroubles
    /\ troubles' = troubles + 1
    /\ \E lost \in {{}} \union {{<<s, i>>} : s \in disk.segs, i \in DOMAIN disk.idx} :
          side' = SidesLeft(lost)
    /\ \E st \in [DOMAIN disk.idx -> {"ready", "building", "failed"}] : WriteRecovered(st)
    /\ frozen' = frozen \ disk.segs
    /\ reg' = [m \in Parts |-> IF m \in {active} \union frozen'
                               THEN DOMAIN disk.idx ELSE {}]
    /\ readers' = [s \in disk.segs |-> {i \in Ids : side'[s][i] # "none"}]
    /\ Publish({active} \union frozen', readers', runtime')
    /\ worker' = AtRest /\ core' = NoOp /\ compact' = {} /\ followups' = {}
    /\ builder' = {} /\ built' = <<>> /\ events' = <<>>
    /\ UNCHANGED <<active, nextPart, overtaken>>

-----------------------------------------------------------------------------
CoreStep   == SyncCatalog \/ ForgetRetried \/ SeedMemtables \/ RemoveFromMemtables
              \/ SwapReaders
FlushStep  == StartBuild \/ WriteSegment \/ PublishSegment \/ Adopt
WorkerStep == TakeJob \/ LoadSnapshot \/ BuildSidecar \/ Finalize \/ Republish
Client     == \/ \E spec \in Specs : EnsureIndex(spec) \/ DropIndex(spec)
              \/ \E i \in Ids : Query(i)
              \/ Freeze

Next == \/ Client \/ CoreStep \/ FlushStep \/ WorkerStep
        \/ StartCompact \/ RunCompact \/ ApplyCompact \/ ApplyFollowup
        \/ FailBuild \/ Damage \/ Restart

Spec == Init /\ [][Next]_vars

\* Every thread keeps running: the coordinator drains its queue and the flush
\* events, the flush threads their channels, the worker its jobs.
FairSpec == Spec /\ WF_vars(CoreStep) /\ WF_vars(FlushStep)
                 /\ WF_vars(WorkerStep) /\ WF_vars(ApplyFollowup)

-----------------------------------------------------------------------------
\* A query through an index that its view shows Ready either falls back to the
\* scan or finds every match, in memtables and segments alike, except while a
\* drop or a retry takes the index out of the memtables: no freeze, flush,
\* compaction, build, repair or restart leaves a source behind
\* (find_nodes_outcome, ready_equality_source_ids).  An index whose retry overtook
\* a flush builder is excepted: the builder takes a memtable that has lost the
\* index for one without matches, and the segment's empty sidecar is believed.
LookupsComplete ==
    \A i \in DOMAIN disk.idx \ overtaken : ReadyInView(i) /\ core.pc # "seed" =>
        Unanswered(i) # {} \/ Found(i) = pub.mems \union DOMAIN pub.readers

\* Ready in the manifest means that every segment of the manifest has a sidecar
\* with all of the segment's records, as far as no file was damaged, so that a
\* reopened database may trust it (the flush builder's clone, finalize's
\* comparison of the segment ids, reconcile_background_output_*_declarations).
\* As above, an index whose retry overtook a flush builder is excepted.
ReadyCovered ==
    \A i \in DOMAIN disk.idx \ overtaken : disk.idx[i].state = "ready" =>
        \A s \in disk.segs : side[s][i] \in {"full", "bad"}

\* No index stays Building for ever: whoever sends one back to Building, the
\* publisher, a compaction, a query or the open, also sees to its job.
BuildingSettles ==
    \A i \in Ids : (Declared(i) /\ disk.idx[i].state = "building")
                   ~> ~(Declared(i) /\ disk.idx[i].state = "building")
=============================================================================
