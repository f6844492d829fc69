------------------------ MODULE StorageEngineProofs -------------------------
(***************************************************************************)
(* Type correctness of StorageEngine, for every value of its constants:    *)
(* lemmas about the list operators, then one lemma per action.  Then       *)
(* recovery: no sequence number or record id is used twice.                *)
(*                                                                         *)
(* The last part shows that the flush pipeline keeps manifest, memory and  *)
(* directories together: PipelineInv is inductive for every value of the   *)
(* constants with which no manifest write fails after its rename, with     *)
(* background compaction or without.  So no listed segment is ever without *)
(* its directory and no epoch in memory is ever unknown to the manifest,   *)
(* whatever fails and whenever the workers are stopped, restarted or       *)
(* cancelled.                                                              *)
(***************************************************************************)
EXTENDS StorageEngine, TLAPS

\* The list operators on segments and epochs (insert(0, ..), push, retain) stay
\* within lists of ids.
LEMMA ListOperators ==
    ASSUME NEW Id, NEW l \in IdLists(Id), NEW x \in Id, NEW S
    PROVE  /\ PushFront(l, x) \in IdLists(Id)
           /\ PushBack(l, x) \in IdLists(Id)
           /\ Without(l, S) \in IdLists(Id)
           /\ l.ids \subseteq Id
    BY DEF IdLists, PushFront, PushBack, Without

\* What the searches first() and rposition find in a list is one of its ids.
LEMMA ListMembers ==
    ASSUME NEW Id, NEW l \in IdLists(Id), NEW S
    PROVE  /\ FirstOf(l, S) \subseteq Id
           /\ LastOf(l, S) \subseteq Id
           /\ l.ids \subseteq Id
    BY DEF IdLists, FirstOf, LastOf

\* Reading a manifest list backwards (iter().rev() in open) gives a list of ids.
LEMMA ReversedType ==
    ASSUME NEW Id, NEW l \in IdLists(Id)
    PROVE  Reversed(l) \in IdLists(Id)
    <1>1. \A p \in l.before : <<p[2], p[1]>> \in Id \X Id
        BY DEF IdLists
    <1>2. QED
        BY <1>1 DEF IdLists, Reversed

\* The channels of the flush pipeline: sending and receiving keep their type.
LEMMA Queues ==
    ASSUME NEW S, NEW q \in Seq(S)
    PROVE  /\ \A x \in S : Append(q, x) \in Seq(S)
           /\ q # <<>> => Head(q) \in S /\ Tail(q) \in Seq(S)
    OBVIOUS

\* A lookup through the segments returns versions only.
LEMMA LookupType ==
    ASSUME TypeOK, NEW t \in IdLists(SegIds), NEW i
    PROVE  InSegments(t, i) \subseteq Versions
    <1>1. \A y \in SegIds : segData[y] \subseteq Versions
        BY DEF TypeOK, DiskTypeOK
    <1>2. FirstOf(t, {y \in t.ids : Has(segData[y], i)}) \subseteq SegIds
        BY ListMembers
    <1>3. QED
        BY <1>1, <1>2 DEF InSegments

\* The output of a merge of segments is a set of versions.
LEMMA CompactedType ==
    ASSUME TypeOK, NEW t \in IdLists(SegIds)
    PROVE  Compacted(t) \subseteq Versions
    BY LookupType DEF Compacted

\* The manifest the publish worker writes is a manifest.
LEMMA PublishedManifestType ==
    ASSUME TypeOK, NEW w \in PublishJobs
    PROVE  PublishedManifest(w) \in Manifests
    BY ListOperators DEF TypeOK, DiskTypeOK, CountersTypeOK, PublishedManifest, Manifests, PublishJobs, Larger

\* The manifest a compaction writes is a manifest.
LEMMA CompactedManifestType ==
    ASSUME TypeOK, NEW t \in IdLists(SegIds), NEW out \in SegIds
    PROVE  CompactedManifest(t, out) \in Manifests
    BY ListOperators DEF TypeOK, DiskTypeOK, CountersTypeOK, CompactedManifest, ReplaceInputs, Manifests, Larger

\* sync() keeps the type invariant.
LEMMA TypeSyncWal ==
    ASSUME TypeOK, SyncWal PROVE TypeOK'
    BY DEF SyncWal, TypeOK, DiskTypeOK, CountersTypeOK, MemTypeOK, FlushTypeOK, CompactTypeOK, ControlTypeOK, ReaderTypeOK, diskVars, seqVars, boundVars, memVars, flushVars, errVars, compVars, ctlVars

\* flush() returning, its target adopted, keeps the type invariant.
LEMMA TypeFlushReturns ==
    ASSUME TypeOK, FlushReturns PROVE TypeOK'
    BY DEF FlushReturns, TypeOK, DiskTypeOK, CountersTypeOK, MemTypeOK, FlushTypeOK, CompactTypeOK, ControlTypeOK, ReaderTypeOK, diskVars, seqVars, boundVars, memVars, flushVars, errVars, compVars, ctlVars

\* Handing a recorded pipeline error to the caller keeps the type invariant.
LEMMA TypeSurfaceFlushError ==
    ASSUME TypeOK, SurfaceFlushError PROVE TypeOK'
    BY DEF SurfaceFlushError, TypeOK, DiskTypeOK, CountersTypeOK, MemTypeOK, FlushTypeOK, CompactTypeOK, ControlTypeOK, ReaderTypeOK, diskVars, seqVars, boundVars, memVars, flushVars, errVars, compVars, ctlVars

\* The call after a surfaced error, about to enqueue the epochs again, keeps the type
\* invariant.
LEMMA TypeRetryFlush ==
    ASSUME TypeOK, RetryFlush PROVE TypeOK'
    BY DEF RetryFlush, TypeOK, DiskTypeOK, CountersTypeOK, MemTypeOK, FlushTypeOK, CompactTypeOK, ControlTypeOK, ReaderTypeOK, diskVars, seqVars, boundVars, memVars, flushVars, errVars, compVars, ctlVars

\* Sending an epoch to the build worker keeps the type invariant: the segment id it
\* allocates is the next one.
LEMMA TypeEnqueueFlush ==
    ASSUME TypeOK, EnqueueFlush PROVE TypeOK'
    <1>1. FlushTypeOK'
        BY ListMembers, Queues DEF EnqueueFlush, TypeOK, FlushTypeOK, flushVars, errVars, Jobs, SegIds, NonInFlight, MemTypeOK, CountersTypeOK
    <1>2. CountersTypeOK'
        BY ConstantsAssumption DEF EnqueueFlush, TypeOK, CountersTypeOK, seqVars, boundVars
    <1>3. QED
        BY <1>1, <1>2 DEF EnqueueFlush, TypeOK, DiskTypeOK, MemTypeOK, CompactTypeOK, ControlTypeOK, ReaderTypeOK, diskVars, memVars, compVars, ctlVars

\* A failed send to the build worker keeps the type invariant.
LEMMA TypeEnqueueFails ==
    ASSUME TypeOK, EnqueueFails PROVE TypeOK'
    BY DEF EnqueueFails, TypeOK, DiskTypeOK, CountersTypeOK, MemTypeOK, FlushTypeOK, CompactTypeOK, ControlTypeOK, ReaderTypeOK, diskVars, seqVars, boundVars, memVars, flushVars, errVars, compVars, ctlVars

\* The build worker's success keeps the type invariant.
LEMMA TypeBuildSegment ==
    ASSUME TypeOK, BuildSegment PROVE TypeOK'
    <1>1. Head(workQ) \in Jobs /\ Tail(workQ) \in Seq(Jobs) /\ Append(built, Head(workQ)) \in Seq(Jobs)
        BY Queues DEF BuildSegment, TypeOK, FlushTypeOK
    <1>2. Head(workQ).seg \in SegIds /\ Head(workQ).gen \in Gens
        BY <1>1 DEF Jobs
    <1>3. Winners(frozen[Head(workQ).gen]) \subseteq Versions
        BY <1>2 DEF Winners, TypeOK, MemTypeOK
    <1>4. DiskTypeOK'
        BY <1>2, <1>3 DEF BuildSegment, TypeOK, DiskTypeOK
    <1>5. FlushTypeOK'
        BY <1>1 DEF BuildSegment, TypeOK, FlushTypeOK, errVars
    <1>6. QED
        BY <1>4, <1>5 DEF BuildSegment, TypeOK, CountersTypeOK, MemTypeOK, CompactTypeOK,
                          ControlTypeOK, ReaderTypeOK, seqVars, boundVars, memVars, compVars, ctlVars

\* The build worker's error event keeps the type invariant.
LEMMA TypeBuildFails ==
    ASSUME TypeOK, BuildFails PROVE TypeOK'
    <1>1. Head(workQ) \in Jobs /\ Tail(workQ) \in Seq(Jobs)
        BY Queues DEF BuildFails, TypeOK, FlushTypeOK
    <1>2. [kind |-> "failed", gen |-> Head(workQ).gen, seg |-> Head(workQ).seg] \in FlushEvents
        BY <1>1 DEF Jobs, FlushEvents
    <1>3. events' \in Seq(FlushEvents)
        BY <1>2, Queues DEF BuildFails, TypeOK, FlushTypeOK
    <1>4. FlushTypeOK'
        BY <1>1, <1>3 DEF BuildFails, TypeOK, FlushTypeOK, errVars
    <1>5. QED
        BY <1>4 DEF BuildFails, TypeOK, DiskTypeOK, CountersTypeOK, MemTypeOK, CompactTypeOK,
                    ControlTypeOK, ReaderTypeOK, diskVars, seqVars, memVars, compVars, ctlVars

\* The publish worker receiving a built segment keeps the type invariant.
LEMMA TypePublishReceive ==
    ASSUME TypeOK, PublishReceive PROVE TypeOK'
    <1>1. Head(built) \in Jobs /\ Tail(built) \in Seq(Jobs)
        BY Queues DEF PublishReceive, TypeOK, FlushTypeOK
    <1>2. publisher' \subseteq PublishJobs
        BY <1>1 DEF PublishReceive, Jobs, PublishJobs
    <1>3. FlushTypeOK'
        BY <1>1, <1>2 DEF PublishReceive, TypeOK, FlushTypeOK, errVars
    <1>4. QED
        BY <1>3 DEF PublishReceive, TypeOK, DiskTypeOK, CountersTypeOK, MemTypeOK, CompactTypeOK,
                    ControlTypeOK, ReaderTypeOK, diskVars, seqVars, boundVars, memVars, compVars,
                    ctlVars

\* The publish worker's manifest write keeps the type invariant.
LEMMA TypePublishManifest ==
    ASSUME TypeOK, PublishManifest PROVE TypeOK'
    <1>1. DiskTypeOK'
        BY PublishedManifestType DEF PublishManifest, TypeOK, DiskTypeOK, diskVars, FlushTypeOK, CountersTypeOK, PublishJobs
    <1>2. FlushTypeOK'
        BY DEF PublishManifest, TypeOK, FlushTypeOK, flushVars, errVars, PublishJobs
    <1>3. QED
        BY <1>1, <1>2 DEF PublishManifest, TypeOK, CountersTypeOK, MemTypeOK, CompactTypeOK, ControlTypeOK, ReaderTypeOK, seqVars, boundVars, memVars, compVars, ctlVars

\* The publish worker's error event keeps the type invariant.
LEMMA TypePublishFails ==
    ASSUME TypeOK, PublishFails PROVE TypeOK'
    <1>1. DiskTypeOK'
        BY PublishedManifestType DEF PublishFails, TypeOK, DiskTypeOK, diskVars, FlushTypeOK, CountersTypeOK, PublishJobs
    <1>2. FlushTypeOK'
        BY DEF PublishFails, TypeOK, FlushTypeOK, flushVars, errVars, PublishJobs, FlushEvents
    <1>3. CountersTypeOK'
        BY DEF PublishFails, TypeOK, CountersTypeOK, seqVars, boundVars
    <1>4. QED
        BY <1>1, <1>2, <1>3 DEF PublishFails, TypeOK, MemTypeOK, CompactTypeOK, ControlTypeOK, ReaderTypeOK, memVars, compVars, ctlVars

\* Removing the flushed generation and sending the Adopt event keeps the type invariant.
LEMMA TypeRetireWal ==
    ASSUME TypeOK, RetireWal PROVE TypeOK'
    <1>1. DiskTypeOK'
        BY DEF RetireWal, TypeOK, DiskTypeOK, diskVars, FlushTypeOK, PublishJobs
    <1>2. FlushTypeOK'
        BY DEF RetireWal, TypeOK, FlushTypeOK, flushVars, errVars, PublishJobs, FlushEvents
    <1>3. CountersTypeOK'
        BY DEF RetireWal, TypeOK, CountersTypeOK, seqVars, boundVars
    <1>4. QED
        BY <1>1, <1>2, <1>3 DEF RetireWal, TypeOK, MemTypeOK, CompactTypeOK, ControlTypeOK, ReaderTypeOK, memVars, compVars, ctlVars

\* Processing a Failed event keeps the type invariant.
LEMMA TypeFlushFailed ==
    ASSUME TypeOK, FlushFailed PROVE TypeOK'
    <1>1. Head(events) \in FlushEvents /\ Tail(events) \in Seq(FlushEvents)
        BY Queues DEF FlushFailed, TypeOK, FlushTypeOK
    <1>2. Head(events).gen \in Gens
        BY <1>1 DEF FlushEvents
    <1>3. workQ' \in Seq(Jobs) /\ built' \in Seq(Jobs)
        BY DEF FlushFailed
    <1>4. FlushTypeOK'
        BY <1>1, <1>2, <1>3 DEF FlushFailed, TypeOK, FlushTypeOK, errVars
    <1>5. QED
        BY <1>4 DEF FlushFailed, TypeOK, DiskTypeOK, CountersTypeOK, MemTypeOK, CompactTypeOK,
                    ControlTypeOK, ReaderTypeOK, diskVars, seqVars, boundVars, memVars, compVars

\* The background compaction worker's output keeps the type invariant.
LEMMA TypeCompactBuild ==
    ASSUME TypeOK, CompactBuild PROVE TypeOK'
    <1>1. DiskTypeOK'
        BY CompactedType DEF CompactBuild, TypeOK, DiskTypeOK, diskVars, CompactTypeOK, Compactions
    <1>2. CompactTypeOK'
        BY DEF CompactBuild, TypeOK, CompactTypeOK, compVars, Compactions
    <1>3. QED
        BY <1>1, <1>2 DEF CompactBuild, TypeOK, CountersTypeOK, MemTypeOK, FlushTypeOK, ControlTypeOK, ReaderTypeOK, seqVars, boundVars, memVars, flushVars, errVars, ctlVars

\* A failed background compaction keeps the type invariant.
LEMMA TypeCompactBuildFails ==
    ASSUME TypeOK, CompactBuildFails PROVE TypeOK'
    <1>1. CompactTypeOK'
        BY DEF CompactBuildFails, TypeOK, CompactTypeOK, compVars, Compactions
    <1>2. CountersTypeOK'
        BY DEF CompactBuildFails, TypeOK, CountersTypeOK, seqVars, boundVars
    <1>3. QED
        BY <1>1, <1>2 DEF CompactBuildFails, TypeOK, DiskTypeOK, MemTypeOK, FlushTypeOK, ControlTypeOK, ReaderTypeOK, diskVars, memVars, flushVars, errVars, ctlVars

\* The start of close_fast() keeps the type invariant.
LEMMA TypeCloseFast ==
    ASSUME TypeOK, CloseFast PROVE TypeOK'
    BY DEF CloseFast, TypeOK, DiskTypeOK, CountersTypeOK, MemTypeOK, FlushTypeOK, CompactTypeOK, ControlTypeOK, ReaderTypeOK, diskVars, seqVars, boundVars, memVars, flushVars, errVars, compVars, ctlVars

\* A reader taking the published snapshot keeps the type invariant.
LEMMA TypePinView ==
    ASSUME NEW r \in Readers, TypeOK, PinView(r) PROVE TypeOK'
    <1>1. ReaderTypeOK'
        BY DEF PinView, TypeOK, ReaderTypeOK, Views, Pins
    <1>2. QED
        BY <1>1 DEF PinView, TypeOK, DiskTypeOK, CountersTypeOK, MemTypeOK, FlushTypeOK, CompactTypeOK, ControlTypeOK, diskVars, seqVars, boundVars, memVars, flushVars, errVars, compVars, ctlVars

\* A reader dropping its snapshot keeps the type invariant.
LEMMA TypeUnpinView ==
    ASSUME NEW r \in Readers, TypeOK, UnpinView(r) PROVE TypeOK'
    <1>1. ReaderTypeOK'
        BY DEF UnpinView, TypeOK, ReaderTypeOK
    <1>2. QED
        BY <1>1 DEF UnpinView, TypeOK, DiskTypeOK, CountersTypeOK, MemTypeOK, FlushTypeOK, CompactTypeOK, ControlTypeOK, diskVars, seqVars, boundVars, memVars, flushVars, errVars, compVars, ctlVars

\* freeze_memtable, from any caller and after any planned write, leaves manifest, WAL,
\* memtables and epochs typed.
LEMMA TypeFreeze ==
    ASSUME TypeOK, NEW M \in SUBSET Versions, NEW s \in 0..MaxSeq, NEW n \in 1..(MaxId + 1),
           FreezeMemtable(M, s, n)
    PROVE  manifest' \in Manifests /\ wal' \in [Gens -> SUBSET Versions]
           /\ MemTypeOK' /\ ReaderTypeOK' /\ task' = "enqueue"
    <1>1. manifest.nextGen \in Gens /\ manifest.nextGen + 1 \in 1..(MaxGen + 1)
        <2>1. manifest.nextGen \in 1..(MaxGen + 1)
            BY DEF TypeOK, DiskTypeOK, Manifests
        <2>2. manifest.nextGen <= MaxGen
            BY DEF FreezeMemtable
        <2>3. QED
            BY <2>1, <2>2, ConstantsAssumption DEF Gens
    <1>2. manifest' \in Manifests
        BY <1>1 DEF FreezeMemtable, TypeOK, DiskTypeOK, MemTypeOK, Manifests, Larger
    <1>3. imm' \in IdLists(Gens)
        BY ListOperators DEF FreezeMemtable, TypeOK, MemTypeOK
    <1>4. MemTypeOK' /\ wal' \in [Gens -> SUBSET Versions]
        BY <1>1, <1>3 DEF FreezeMemtable, TypeOK, DiskTypeOK, MemTypeOK
    <1>5. view' \in Views
        BY <1>3 DEF FreezeMemtable, TypeOK, CompactTypeOK, RebuildSources, Views
    <1>6. \A p \in Pins : [p EXCEPT !.live = FALSE, !.mem = M] \in Pins
        BY DEF Pins
    <1>7. pins' \in [Readers -> SUBSET Pins]
        BY <1>6 DEF FreezeMemtable, TypeOK, ReaderTypeOK
    <1>8. QED
        BY <1>2, <1>4, <1>5, <1>7 DEF FreezeMemtable, ReaderTypeOK

\* prepare_backpressure_flush keeps the type invariant.
LEMMA TypeRelieveBackpressure ==
    ASSUME TypeOK, RelieveBackpressure PROVE TypeOK'
    <1>1. mem \in SUBSET Versions /\ engineSeq \in 0..MaxSeq /\ nextId \in 1..(MaxId + 1)
        BY DEF TypeOK, MemTypeOK, CountersTypeOK
    <1>2. CASE imm.ids # {}
        BY <1>2 DEF RelieveBackpressure, TypeOK, DiskTypeOK, CountersTypeOK, MemTypeOK, FlushTypeOK,
                    CompactTypeOK, ControlTypeOK, ReaderTypeOK, diskVars, seqVars, memVars,
                    flushVars, errVars, compVars, boundVars
    <1>3. CASE imm.ids = {}
        BY <1>1, <1>3, TypeFreeze
        DEF RelieveBackpressure, TypeOK, DiskTypeOK, CountersTypeOK, FlushTypeOK, CompactTypeOK,
            ControlTypeOK, seqVars, flushVars, errVars, compVars, boundVars
    <1>4. QED
        BY <1>2, <1>3

\* The first pass of flush() keeps the type invariant.
LEMMA TypeFlushBarrier ==
    ASSUME TypeOK, FlushBarrier PROVE TypeOK'
    <1>1. mem \in SUBSET Versions /\ engineSeq \in 0..MaxSeq /\ nextId \in 1..(MaxId + 1)
        BY DEF TypeOK, MemTypeOK, CountersTypeOK
    <1>2. CASE mem = {}
        <2>1. barrier' \subseteq Gens
            BY <1>2, ListMembers DEF FlushBarrier, TypeOK, MemTypeOK
        <2>2. QED
            BY <1>2, <2>1
            DEF FlushBarrier, TypeOK, DiskTypeOK, CountersTypeOK, MemTypeOK, FlushTypeOK,
                CompactTypeOK, ControlTypeOK, ReaderTypeOK, diskVars, seqVars, memVars, flushVars,
                errVars, compVars, boundVars
    <1>3. CASE mem # {}
        <2>1. /\ FreezeMemtable(mem, engineSeq, nextId) /\ UNCHANGED <<segDirs, segData>>
              /\ barrier' = {activeGen}
            BY <1>3 DEF FlushBarrier
        <2>2. barrier' \subseteq Gens
            BY <2>1 DEF TypeOK, MemTypeOK
        <2>3. QED
            BY <1>1, <2>1, <2>2, TypeFreeze
            DEF FlushBarrier, TypeOK, DiskTypeOK, CountersTypeOK, FlushTypeOK, CompactTypeOK,
                ControlTypeOK, seqVars, flushVars, errVars, compVars, boundVars
    <1>4. QED
        BY <1>2, <1>3

\* The start of close() keeps the type invariant.
LEMMA TypeClose ==
    ASSUME TypeOK, Close PROVE TypeOK'
    <1>1. mem \in SUBSET Versions /\ engineSeq \in 0..MaxSeq /\ nextId \in 1..(MaxId + 1)
        BY DEF TypeOK, MemTypeOK, CountersTypeOK
    <1>2. CASE mem = {}
        BY <1>2 DEF Close, TypeOK, DiskTypeOK, CountersTypeOK, MemTypeOK, FlushTypeOK,
                    CompactTypeOK, ControlTypeOK, ReaderTypeOK, diskVars, seqVars, memVars,
                    flushVars, errVars, compVars, boundVars
    <1>3. CASE mem # {}
        <2>1. FreezeMemtable(mem, engineSeq, nextId) /\ UNCHANGED <<segDirs, segData>>
            BY <1>3 DEF Close
        <2>2. QED
            BY <1>1, <2>1, TypeFreeze
            DEF Close, TypeOK, DiskTypeOK, CountersTypeOK, FlushTypeOK, CompactTypeOK,
                ControlTypeOK, seqVars, flushVars, errVars, compVars, boundVars
    <1>4. QED
        BY <1>2, <1>3

\* A committed write, with the freeze and the enqueue it may cause, keeps the type
\* invariant.
LEMMA TypeWrite ==
    ASSUME TypeOK, NEW P \in SUBSET Ids, NEW D \in SUBSET Ids,
           NEW n \in nextId..(MaxId + 1), Write(P, D, n)
    PROVE  TypeOK'
    <1>1. engineSeq + 1 \in Seqs /\ engineSeq + 1 \in 0..MaxSeq /\ n \in 1..(MaxId + 1)
        BY ConstantsAssumption DEF Write, MayCommit, TypeOK, CountersTypeOK, Seqs
    <1>2. NewVersions(P, D) \subseteq Versions
        <2>1. \A i \in Ids : \A d \in BOOLEAN :
                 [id |-> i, seq |-> engineSeq + 1, del |-> d] \in Versions
            BY <1>1 DEF Versions
        <2>2. QED
            BY <2>1 DEF NewVersions
    <1>3. CountersTypeOK'
        BY <1>1, <1>2 DEF Write, TypeOK, CountersTypeOK, boundVars
    <1> DEFINE M == mem \cup NewVersions(P, D)
    <1>4. M \in SUBSET Versions
        BY <1>2 DEF TypeOK, MemTypeOK
    <1>5. CASE FreezeMemtable(M, engineSeq + 1, n)
        BY <1>1, <1>3, <1>4, <1>5, TypeFreeze
        DEF Write, TypeOK, DiskTypeOK, FlushTypeOK, CompactTypeOK, ControlTypeOK,
            flushVars, errVars, compVars
    <1>6. CASE /\ mem' = M
               /\ unsynced' = IF GroupCommit THEN unsynced \cup NewVersions(P, D) ELSE {}
               /\ wal' = IF GroupCommit THEN wal
                         ELSE [wal EXCEPT ![activeGen] = @ \cup NewVersions(P, D)]
               /\ view' = [view EXCEPT !.seq = engineSeq + 1]
               /\ UNCHANGED <<manifest, activeGen, imm, frozen, pins, task>>
        <2>1. DiskTypeOK'
            BY <1>2, <1>6 DEF Write, TypeOK, DiskTypeOK, MemTypeOK
        <2>2. MemTypeOK'
            BY <1>2, <1>4, <1>6 DEF TypeOK, MemTypeOK
        <2>3. ReaderTypeOK'
            BY <1>1, <1>6 DEF TypeOK, ReaderTypeOK, Views
        <2>4. QED
            BY <1>3, <1>6, <2>1, <2>2, <2>3
            DEF Write, TypeOK, FlushTypeOK, CompactTypeOK, ControlTypeOK, flushVars, errVars,
                compVars
    <1>7. QED
        BY <1>5, <1>6 DEF Write

\* open() rebuilds typed state from any typed disk.
LEMMA TypeOpen ==
    ASSUME TypeOK, Open PROVE TypeOK'
    <1>1. segs' \in IdLists(SegIds)
        <2>1. Without(manifest.segments, manifest.segments.ids \ segDirs) \in IdLists(SegIds)
            BY DEF TypeOK, DiskTypeOK, Manifests, IdLists, Without
        <2>2. QED
            BY <2>1, ReversedType DEF Open, DiskSegments
    <1>2. imm' \in IdLists(Gens)
        BY DEF Open, DiskEpochs, TypeOK, DiskTypeOK, Manifests, IdLists
    <1>3. engineSeq' \in 0..MaxSeq /\ view' \in Views
        BY <1>1, <1>2 DEF Open, RebuildSources, Views
    <1>4. nextId' \in 1..(MaxId + 1) /\ nextSeg' \in 1..(MaxSeg + 1)
        BY ConstantsAssumption DEF Open
    <1>5. DiskTypeOK' /\ MemTypeOK'
        BY <1>2 DEF Open, TypeOK, DiskTypeOK, MemTypeOK, Manifests
    <1>6. QED
        BY <1>1, <1>3, <1>4, <1>5
        DEF Open, TypeOK, CountersTypeOK, FlushTypeOK, CompactTypeOK, ControlTypeOK, ReaderTypeOK,
            flushVars, errVars, compVars, boundVars

\* Scheduling a background compaction allocates the next segment id.
LEMMA TypeSchedule ==
    ASSUME TypeOK, NEW n \in Nat, NEW t \in IdLists(SegIds), MaybeScheduleCompact(n, t)
    PROVE  compact' \subseteq Compactions /\ flushCount' \in Nat /\ nextSeg' \in 1..(MaxSeg + 1)
    BY ConstantsAssumption
    DEF MaybeScheduleCompact, TypeOK, CountersTypeOK, Compactions, SegIds

\* Processing an Adopt event keeps the type invariant.
LEMMA TypeAdoptFlush ==
    ASSUME TypeOK, AdoptFlush PROVE TypeOK'
    <1> DEFINE e == Head(events)
    <1>1. e \in FlushEvents /\ Tail(events) \in Seq(FlushEvents)
        BY Queues DEF AdoptFlush, TypeOK, FlushTypeOK
    <1>2. e.gen \in Gens /\ e.seg \in SegIds
        BY <1>1 DEF FlushEvents
    <1>3. segs' \in IdLists(SegIds)
        BY <1>2, ListOperators DEF AdoptFlush, TypeOK, CompactTypeOK
    <1>4. imm' \in IdLists(Gens)
        BY <1>2, ListOperators DEF AdoptFlush, TypeOK, MemTypeOK
    <1>5. view' \in Views
        BY <1>3, <1>4 DEF AdoptFlush, TypeOK, ReaderTypeOK, CountersTypeOK, RebuildSources, Views
    <1>6. flushCount + 1 \in Nat
        BY DEF TypeOK, CompactTypeOK
    <1>7. compact' \subseteq Compactions /\ flushCount' \in Nat /\ nextSeg' \in 1..(MaxSeg + 1)
        <2>1. CASE compact = {}
            BY <1>3, <1>6, <2>1, TypeSchedule DEF AdoptFlush
        <2>2. CASE compact # {}
            BY <1>6, <2>2 DEF AdoptFlush, TypeOK, CompactTypeOK, CountersTypeOK
        <2>3. QED
            BY <2>1, <2>2
    <1>8. CompactTypeOK' /\ CountersTypeOK'
        BY <1>3, <1>7 DEF AdoptFlush, TypeOK, CompactTypeOK, CountersTypeOK, seqVars, boundVars
    <1>9. FlushTypeOK'
        BY <1>1 DEF AdoptFlush, TypeOK, FlushTypeOK, errVars
    <1>10. QED
        BY <1>4, <1>5, <1>8, <1>9
        DEF AdoptFlush, EventTask, TypeOK, DiskTypeOK, MemTypeOK, ControlTypeOK, ReaderTypeOK,
            diskVars

\* Swapping in a compacted segment keeps the type invariant.
LEMMA TypeApplyCompact ==
    ASSUME TypeOK, ApplyCompact PROVE TypeOK'
    <1>1. PICK c \in compact :
              /\ manifest' = CompactedManifest(c.inputs, c.out)
              /\ segs' = ReplaceInputs(segs, c.inputs, c.out)
              /\ RemoveInputs(c.inputs, segDirs)
        BY DEF ApplyCompact
    <1>2. c.inputs \in IdLists(SegIds) /\ c.out \in SegIds
        BY DEF TypeOK, CompactTypeOK, Compactions
    <1>3. DiskTypeOK'
        BY <1>1, <1>2, CompactedManifestType
        DEF ApplyCompact, RemoveInputs, TypeOK, DiskTypeOK
    <1>4. segs' \in IdLists(SegIds)
        BY <1>1, <1>2, ListOperators DEF ReplaceInputs, TypeOK, CompactTypeOK
    <1>5. compact' \subseteq Compactions /\ flushCount' \in Nat /\ nextSeg' \in 1..(MaxSeg + 1)
        BY <1>4, TypeSchedule DEF ApplyCompact, TypeOK, CompactTypeOK
    <1>6. view' \in Views
        BY <1>4 DEF ApplyCompact, TypeOK, ReaderTypeOK, CountersTypeOK, MemTypeOK, RebuildSources,
                    Views
    <1>7. QED
        BY <1>3, <1>4, <1>5, <1>6
        DEF ApplyCompact, TypeOK, CountersTypeOK, MemTypeOK, FlushTypeOK, CompactTypeOK,
            ControlTypeOK, ReaderTypeOK, seqVars, memVars, flushVars, errVars, ctlVars, boundVars

\* A compaction result that cannot be applied keeps the type invariant.
LEMMA TypeApplyCompactFails ==
    ASSUME TypeOK, ApplyCompactFails PROVE TypeOK'
    <1>1. \A c \in compact : c.inputs \in IdLists(SegIds) /\ c.out \in SegIds
        BY DEF TypeOK, CompactTypeOK, Compactions
    <1>2. manifest' \in Manifests
        BY <1>1, CompactedManifestType DEF ApplyCompactFails, TypeOK, DiskTypeOK
    <1>3. DiskTypeOK' /\ CountersTypeOK'
        BY <1>2 DEF ApplyCompactFails, TypeOK, DiskTypeOK, CountersTypeOK, seqVars
    <1>4. QED
        BY <1>3
        DEF ApplyCompactFails, TypeOK, MemTypeOK, FlushTypeOK, CompactTypeOK, ControlTypeOK,
            ReaderTypeOK, memVars, flushVars, errVars, ctlVars

\* compact() keeps the type invariant.
LEMMA TypeCompact ==
    ASSUME TypeOK, Compact PROVE TypeOK'
    <1>1. nextSeg \in SegIds /\ nextSeg + 1 \in 1..(MaxSeg + 1)
        BY ConstantsAssumption DEF Compact, CompactEnabled, TypeOK, CountersTypeOK, SegIds
    <1>2. Compacted(segs) \subseteq Versions /\ CompactedManifest(segs, nextSeg) \in Manifests
        BY <1>1, CompactedType, CompactedManifestType DEF TypeOK, CompactTypeOK
    <1>3. DiskTypeOK'
        BY <1>1, <1>2 DEF Compact, RemoveInputs, TypeOK, DiskTypeOK
    <1>4. segs' \in IdLists(SegIds)
        BY <1>1 DEF Compact, IdLists
    <1>5. view' \in Views
        BY <1>4 DEF Compact, TypeOK, CountersTypeOK, MemTypeOK, RebuildSources, Views
    <1>6. QED
        BY <1>1, <1>3, <1>4, <1>5
        DEF Compact, TypeOK, CountersTypeOK, MemTypeOK, FlushTypeOK, CompactTypeOK, ControlTypeOK,
            ReaderTypeOK, seqVars, memVars, flushVars, errVars, ctlVars, boundVars

\* A failed compact() keeps the type invariant.
LEMMA TypeCompactFails ==
    ASSUME TypeOK, CompactFails PROVE TypeOK'
    <1>1. nextSeg \in SegIds /\ nextSeg + 1 \in 1..(MaxSeg + 1)
        BY ConstantsAssumption DEF CompactFails, CompactEnabled, TypeOK, CountersTypeOK, SegIds
    <1>2. Compacted(segs) \subseteq Versions /\ CompactedManifest(segs, nextSeg) \in Manifests
        BY <1>1, CompactedType, CompactedManifestType DEF TypeOK, CompactTypeOK
    <1>3. DiskTypeOK' /\ CountersTypeOK'
        <2>1. nextSeg' \in {nextSeg, nextSeg + 1} /\ faults' = faults + 1
            BY DEF CompactFails
        <2>2. CountersTypeOK'
            BY <1>1, <2>1 DEF CompactFails, TypeOK, CountersTypeOK, seqVars
        <2>3. manifest' \in Manifests
            BY <1>2 DEF CompactFails, TypeOK, DiskTypeOK
        <2>4. segDirs' \subseteq SegIds
            BY <1>1 DEF CompactFails, TypeOK, DiskTypeOK
        <2>5. segData' \in [SegIds -> SUBSET Versions]
            BY <1>1, <1>2 DEF CompactFails, TypeOK, DiskTypeOK
        <2>6. QED
            BY <2>2, <2>3, <2>4, <2>5 DEF CompactFails, TypeOK, DiskTypeOK
    <1>4. QED
        BY <1>3
        DEF CompactFails, TypeOK, MemTypeOK, FlushTypeOK, CompactTypeOK, ControlTypeOK,
            ReaderTypeOK, memVars, flushVars, errVars, ctlVars

\* What a stopped process leaves behind is typed: everything in memory is empty.
LEMMA TypeMemoryLost ==
    ASSUME TypeOK, MemoryLost, committed' \subseteq Versions, restarts' \in Nat, faults' \in Nat
    PROVE  /\ CountersTypeOK' /\ MemTypeOK' /\ FlushTypeOK' /\ CompactTypeOK'
           /\ ControlTypeOK' /\ ReaderTypeOK'
    <1>1. workQ' \in Seq(Jobs) /\ built' \in Seq(Jobs) /\ events' \in Seq(FlushEvents)
        BY DEF MemoryLost
    <1>2. \A Id : EmptyIds \in IdLists(Id)
        BY DEF EmptyIds, IdLists
    <1>3. MemTypeOK' /\ CountersTypeOK'
        BY <1>2, ConstantsAssumption DEF MemoryLost, MemTypeOK, CountersTypeOK, Gens
    <1>4. ReaderTypeOK'
        BY <1>2, ConstantsAssumption DEF MemoryLost, ReaderTypeOK, RebuildSources, Views
    <1>5. FlushTypeOK' /\ CompactTypeOK' /\ ControlTypeOK'
        BY <1>1, <1>2 DEF MemoryLost, FlushTypeOK, CompactTypeOK, ControlTypeOK
    <1>6. QED
        BY <1>3, <1>4, <1>5

\* The end of either close keeps the type invariant.
LEMMA TypeCloseFinish ==
    ASSUME TypeOK, CloseFinish PROVE TypeOK'
    <1>1. DiskTypeOK'
        BY DEF CloseFinish, TypeOK, DiskTypeOK, MemTypeOK, CountersTypeOK, Manifests, Larger
    <1>2. committed' \subseteq Versions /\ restarts' \in Nat /\ faults' \in Nat
        BY DEF CloseFinish, TypeOK, CountersTypeOK
    <1>3. QED
        BY <1>1, <1>2, TypeMemoryLost DEF CloseFinish, TypeOK

\* A crash, with any prefix of the unsynced tail surviving, keeps the type invariant.
LEMMA TypeCrash ==
    ASSUME TypeOK, Crash PROVE TypeOK'
    <1>1. DiskTypeOK'
        BY DEF Crash, TypeOK, DiskTypeOK, MemTypeOK
    <1>2. committed' \subseteq Versions /\ restarts' \in Nat /\ faults' \in Nat
        BY DEF Crash, TypeOK, CountersTypeOK
    <1>3. QED
        BY <1>1, <1>2, TypeMemoryLost DEF Crash, TypeOK

\* A new database is typed.
LEMMA TypeInit == Init => TypeOK
    <1> SUFFICES ASSUME Init PROVE TypeOK
        OBVIOUS
    <1>1. \A Id : EmptyIds \in IdLists(Id)
        BY DEF EmptyIds, IdLists
    <1>2. DiskTypeOK
        BY <1>1, ConstantsAssumption DEF Init, DiskTypeOK, Manifests, Gens
    <1>3. CountersTypeOK /\ MemTypeOK
        BY <1>1, ConstantsAssumption DEF Init, CountersTypeOK, MemTypeOK, Gens
    <1>4. workQ \in Seq(Jobs) /\ built \in Seq(Jobs) /\ events \in Seq(FlushEvents)
        BY DEF Init
    <1>5. FlushTypeOK /\ CompactTypeOK /\ ControlTypeOK
        BY <1>1, <1>4 DEF Init, FlushTypeOK, CompactTypeOK, ControlTypeOK
    <1>6. ReaderTypeOK
        BY <1>1, ConstantsAssumption DEF Init, ReaderTypeOK, RebuildSources, Views
    <1>7. QED
        BY <1>2, <1>3, <1>5, <1>6 DEF TypeOK

\* In every reachable state, for every bound and option, every variable holds a value of
\* its type: list operations, recovery and the pipeline never produce an id, a sequence
\* number or an event outside the ranges the code allocates from.
THEOREM TypeCorrect == Spec => []TypeOK
    <1>1. TypeOK /\ [Next]_vars => TypeOK'
        <2> SUFFICES ASSUME TypeOK, [Next]_vars PROVE TypeOK'
            OBVIOUS
        <2>1. CASE Open
            BY <2>1, TypeOpen
        <2>2. CASE ClientStep
            BY <2>2, TypeWrite, TypeFlushBarrier, TypeCompact, TypeCompactFails, TypeClose,
               TypeCloseFast, TypePinView DEF ClientStep
        <2>3. CASE CoordinatorStep
            BY <2>3, TypeRelieveBackpressure, TypeFlushReturns, TypeSurfaceFlushError,
               TypeRetryFlush, TypeEnqueueFlush, TypeEnqueueFails, TypeAdoptFlush,
               TypeFlushFailed, TypeApplyCompact, TypeApplyCompactFails, TypeCloseFinish
            DEF CoordinatorStep
        <2>4. CASE WorkerStep
            BY <2>4, TypeSyncWal, TypeBuildSegment, TypeBuildFails, TypePublishReceive,
               TypePublishManifest, TypePublishFails, TypeRetireWal, TypeCompactBuild,
               TypeCompactBuildFails, TypeUnpinView DEF WorkerStep
        <2>5. CASE Crash
            BY <2>5, TypeCrash
        <2>6. CASE UNCHANGED vars
            BY <2>6 DEF vars, TypeOK, DiskTypeOK, CountersTypeOK, MemTypeOK, FlushTypeOK,
                        CompactTypeOK, ControlTypeOK, ReaderTypeOK, diskVars, seqVars, memVars,
                        flushVars, errVars, compVars, ctlVars, boundVars
        <2>7. QED
            BY <2>1, <2>2, <2>3, <2>4, <2>5, <2>6 DEF Next
    <1>2. QED
        BY <1>1, TypeInit, PTL DEF Spec

-----------------------------------------------------------------------------
(* Recovery.  RecoveryInv is inductive, RecoveredCountersFresh alone is     *)
(* not: that the manifest may be behind the history is made good by the    *)
(* WAL generations it names, so the proof has to know that the engine      *)
(* appends to the generation the manifest calls active, that its counters  *)
(* are ahead of all it ever committed, that only committed versions are    *)
(* stored anywhere, and that the publisher never removes a generation the  *)
(* manifest still names.                                                   *)

\* The variables RecoveryInv talks about, apart from those ClosedIsEmpty adds.
dataVars == <<manifest, wal, segData, seqVars, mem, unsynced, activeGen, frozen, publisher>>

\* Replay reads exactly the versions of the generations the manifest names.
LEMMA ReplayedMembers ==
    \A v : v \in Replayed <=> \E g \in manifest.pending \cup {manifest.active} : v \in wal[g]
    BY DEF Replayed

\* The same in the next state.
LEMMA ReplayedMembersNext ==
    \A v : v \in Replayed' <=> \E g \in manifest'.pending \cup {manifest'.active} : v \in wal'[g]
    BY DEF Replayed

\* A step that changes none of the data, and does not open or close the engine, keeps
\* the invariant if it keeps ClosedIsEmpty.
LEMMA Frame ==
    ASSUME RecoveryInv, UNCHANGED dataVars, ClosedIsEmpty',
           status' # "closed" => status # "closed"
    PROVE  RecoveryInv'
    BY DEF RecoveryInv, dataVars, seqVars, RecoveredCountersFresh, RunningIsAhead,
           StoredIsCommitted, GenerationsDistinct, Replayed

\* A manifest written with counters ahead of the whole history covers it.
LEMMA CountersCaughtUp ==
    ASSUME committed' \subseteq Versions,
           NEW s \in Nat, NEW n \in Nat,
           \A v \in committed' : v.seq <= s /\ (v.del \/ v.id < n),
           manifest'.engineSeq \in Nat, manifest'.nextId \in Nat,
           manifest'.engineSeq >= s, manifest'.nextId >= n
    PROVE  RecoveredCountersFresh'
    BY DEF RecoveredCountersFresh, Versions, Seqs, Ids

\* What the counters of the core and of the manifest are, as numbers.
LEMMA CountersAreNat ==
    ASSUME TypeOK
    PROVE  /\ engineSeq \in Nat /\ nextId \in Nat
           /\ manifest.engineSeq \in Nat /\ manifest.nextId \in Nat
           /\ manifest.nextGen \in Nat /\ manifest.active \in Nat
    BY ConstantsAssumption DEF TypeOK, CountersTypeOK, DiskTypeOK, Manifests, Gens

\* merge_runtime_manifest_counters returns the larger counter.
LEMMA LargerIsMax ==
    ASSUME NEW m \in Nat, NEW n \in Nat
    PROVE  Larger(m, n) \in Nat /\ Larger(m, n) >= m /\ Larger(m, n) >= n
    BY DEF Larger

\* A lookup in the core's sources only returns committed versions of that id.
LEMMA CoreFindCommitted ==
    ASSUME TypeOK, RecoveryInv, NEW i
    PROVE  \A v \in CoreFind(i) : v.id = i /\ v \in committed
    <1>1. \A v \in At(mem, i, engineSeq) : v.id = i /\ v \in committed
        BY DEF At, Winners, RecoveryInv, StoredIsCommitted
    <1>2. \A v \in InFrozen(frozen, imm, i, engineSeq) : v.id = i /\ v \in committed
        <2>1. \A g \in imm.ids : \A v \in At(frozen[g], i, engineSeq) : v.id = i /\ v \in committed
            BY DEF At, Winners, RecoveryInv, StoredIsCommitted, TypeOK, MemTypeOK, IdLists
        <2>2. QED
            BY <2>1 DEF InFrozen, FirstOf
    <1>3. \A v \in InSegments(segs, i) : v.id = i /\ v \in committed
        BY DEF InSegments, FirstOf, RecoveryInv, StoredIsCommitted, TypeOK, CompactTypeOK, IdLists
    <1>4. QED
        BY <1>1, <1>2, <1>3 DEF CoreFind, Find

\* A write therefore updates only ids below the id counter.
LEMMA LiveIdsKnown ==
    ASSUME TypeOK, RecoveryInv, status # "closed", NEW i \in LiveIds
    PROVE  i < nextId
    <1>1. PICK v \in CoreFind(i) : ~v.del
        BY DEF LiveIds, Live
    <1>2. v.id = i /\ v \in committed
        BY <1>1, CoreFindCommitted
    <1>3. QED
        BY <1>1, <1>2 DEF RecoveryInv, RunningIsAhead

\* freeze_memtable, whether in a flush, at close or right after a commit that made the
\* history committed' and the memtable M.
LEMMA RecoveryFreeze ==
    ASSUME TypeOK, RecoveryInv, status # "closed", status' # "closed",
           NEW M, NEW s \in Nat, NEW n \in Nat, FreezeMemtable(M, s, n),
           committed' \subseteq Versions, M \subseteq committed', committed \subseteq committed',
           \A v \in committed' : v.seq <= s /\ (v.del \/ v.id < n),
           engineSeq' = s, nextId' = n, UNCHANGED <<segData, publisher>>
    PROVE  RecoveryInv'
    <1>1. activeGen \in Gens /\ manifest.active = activeGen
        BY DEF TypeOK, MemTypeOK, RecoveryInv, RunningIsAhead
    <1>2. /\ manifest'.pending = manifest.pending \cup {activeGen}
          /\ manifest'.active = manifest.nextGen
          /\ manifest'.nextGen = manifest.nextGen + 1
          /\ manifest'.engineSeq = Larger(manifest.engineSeq, s)
          /\ manifest'.nextId = Larger(manifest.nextId, n)
        BY DEF FreezeMemtable, TypeOK, DiskTypeOK, Manifests
    <1>3. RecoveredCountersFresh'
        <2>1. /\ manifest'.engineSeq \in Nat /\ manifest'.engineSeq >= s
              /\ manifest'.nextId \in Nat /\ manifest'.nextId >= n
            BY <1>2, CountersAreNat, LargerIsMax
        <2>2. QED
            BY <2>1, CountersCaughtUp
    <1>4. RunningIsAhead'
        BY <1>2 DEF RunningIsAhead, FreezeMemtable
    <1>5. StoredIsCommitted'
        <2>1. \A g \in Gens : wal'[g] \subseteq committed'
            BY <1>1 DEF FreezeMemtable, TypeOK, DiskTypeOK, RecoveryInv, StoredIsCommitted
        <2>2. \A g \in Gens : frozen'[g] \subseteq committed'
            BY <1>1 DEF FreezeMemtable, TypeOK, MemTypeOK, RecoveryInv, StoredIsCommitted
        <2>3. mem' = {} /\ unsynced' = {}
            BY DEF FreezeMemtable
        <2>4. \A x \in SegIds : segData'[x] \subseteq committed'
            BY DEF RecoveryInv, StoredIsCommitted
        <2>5. QED
            BY <2>1, <2>2, <2>3, <2>4 DEF StoredIsCommitted
    <1>6. GenerationsDistinct'
        <2>1. \A g \in manifest.pending : g \in Nat
            BY ConstantsAssumption DEF TypeOK, DiskTypeOK, Manifests, Gens
        <2>2. \A w \in publisher : w.gen \in Nat
            BY ConstantsAssumption DEF TypeOK, FlushTypeOK, PublishJobs, Gens
        <2>3. QED
            BY <1>1, <1>2, <2>1, <2>2, CountersAreNat DEF RecoveryInv, GenerationsDistinct
    <1>7. QED
        BY <1>3, <1>4, <1>5, <1>6 DEF RecoveryInv, ClosedIsEmpty, FreezeMemtable

\* A step of a running engine that leaves manifest, WAL and memtables alone and writes
\* only committed, synced versions to segments.
LEMMA RecoverySegments ==
    ASSUME RecoveryInv, status # "closed", status' # "closed",
           UNCHANGED <<manifest, wal, seqVars, mem, unsynced, activeGen, frozen>>,
           \A x \in SegIds : segData'[x] \subseteq committed \ unsynced,
           GenerationsDistinct'
    PROVE  RecoveryInv'
    <1>1. RecoveredCountersFresh' /\ RunningIsAhead' /\ ClosedIsEmpty'
        BY DEF RecoveryInv, RecoveredCountersFresh, RunningIsAhead, ClosedIsEmpty, Replayed, seqVars
    <1>2. StoredIsCommitted'
        BY DEF RecoveryInv, StoredIsCommitted, seqVars
    <1>3. QED
        BY <1>1, <1>2 DEF RecoveryInv

\* A running engine replaces the manifest, with its counters merged in, and leaves WAL
\* and memtables alone.
LEMMA RecoveryManifest ==
    ASSUME TypeOK, RecoveryInv, status # "closed", status' # "closed",
           UNCHANGED <<wal, seqVars, mem, unsynced, activeGen, frozen>>,
           \A x \in SegIds : segData'[x] \subseteq committed \ unsynced,
           manifest'.engineSeq = Larger(manifest.engineSeq, engineSeq),
           manifest'.nextId = Larger(manifest.nextId, nextId),
           manifest'.active = manifest.active,
           GenerationsDistinct'
    PROVE  RecoveryInv'
    <1>1. /\ manifest'.engineSeq \in Nat /\ manifest'.engineSeq >= engineSeq
          /\ manifest'.nextId \in Nat /\ manifest'.nextId >= nextId
        BY CountersAreNat, LargerIsMax
    <1>2. committed' \subseteq Versions
        BY DEF TypeOK, CountersTypeOK, seqVars
    <1>3. \A v \in committed' : v.seq <= engineSeq /\ (v.del \/ v.id < nextId)
        BY DEF RecoveryInv, RunningIsAhead, seqVars
    <1>4. RecoveredCountersFresh'
        BY <1>1, <1>2, <1>3, CountersAreNat, CountersCaughtUp
    <1>5. RunningIsAhead'
        BY <1>3 DEF RecoveryInv, RunningIsAhead, seqVars
    <1>6. StoredIsCommitted'
        BY DEF RecoveryInv, StoredIsCommitted, seqVars
    <1>7. QED
        BY <1>4, <1>5, <1>6 DEF RecoveryInv, ClosedIsEmpty

\* Merging segments only returns versions the segments hold.
LEMMA CompactedCommitted ==
    ASSUME RecoveryInv, NEW t \in IdLists(SegIds)
    PROVE  Compacted(t) \subseteq committed \ unsynced
    <1>1. \A i : InSegments(t, i) \subseteq committed \ unsynced
        BY DEF InSegments, FirstOf, RecoveryInv, StoredIsCommitted, IdLists
    <1>2. QED
        BY <1>1 DEF Compacted

\* The publisher and compaction keep the active generation and the next one.
LEMMA ManifestFields ==
    ASSUME TypeOK
    PROVE  /\ \A w : /\ PublishedManifest(w).engineSeq = Larger(manifest.engineSeq, engineSeq)
                     /\ PublishedManifest(w).nextId = Larger(manifest.nextId, nextId)
                     /\ PublishedManifest(w).active = manifest.active
                     /\ PublishedManifest(w).nextGen = manifest.nextGen
                     /\ PublishedManifest(w).pending = manifest.pending \ {w.gen}
           /\ \A t, out : /\ CompactedManifest(t, out).engineSeq = Larger(manifest.engineSeq, engineSeq)
                          /\ CompactedManifest(t, out).nextId = Larger(manifest.nextId, nextId)
                          /\ CompactedManifest(t, out).active = manifest.active
                          /\ CompactedManifest(t, out).nextGen = manifest.nextGen
                          /\ CompactedManifest(t, out).pending = manifest.pending
    BY DEF PublishedManifest, CompactedManifest, TypeOK, DiskTypeOK, Manifests

\* Opening: what the manifest and the WAL say is what the engine continues from.
LEMMA RecoveryOpen ==
    ASSUME TypeOK, RecoveryInv, Open PROVE RecoveryInv'
    <1>1. unsynced = {} /\ publisher = {}
        BY DEF Open, RecoveryInv, ClosedIsEmpty
    <1>2. /\ manifest' = manifest /\ committed' = committed /\ unsynced' = unsynced
          /\ publisher' = publisher /\ segData' = segData
        BY DEF Open, flushVars
    <1>3. manifest.active \in Gens /\ manifest.pending \subseteq Gens
        BY DEF TypeOK, DiskTypeOK, Manifests
    <1>4. \A g \in manifest.pending \cup {manifest.active} : wal'[g] = wal[g]
        BY <1>3 DEF Open
    <1>5. Replayed' = Replayed
        BY <1>2, <1>4 DEF Replayed
    <1>6. RecoveredCountersFresh'
        BY <1>2, <1>5 DEF RecoveryInv, RecoveredCountersFresh
    <1>7. RunningIsAhead'
        <2>1. activeGen' = manifest'.active
            BY <1>2 DEF Open
        <2>2. \A v \in committed : v.seq <= engineSeq'
            <3>1. IsMax(engineSeq', {manifest.engineSeq} \cup {v.seq : v \in Replayed}) /\ engineSeq' \in Nat
                BY DEF Open
            <3>2. engineSeq' >= manifest.engineSeq /\ \A w \in Replayed : engineSeq' >= w.seq
                BY <3>1 DEF IsMax
            <3>3. Replayed \subseteq Versions /\ committed \subseteq Versions
                BY <1>3 DEF Replayed, TypeOK, DiskTypeOK, CountersTypeOK
            <3>4. QED
                BY <1>1, <3>1, <3>2, <3>3, CountersAreNat
                   DEF RecoveryInv, RecoveredCountersFresh, Versions, Seqs
        <2>3. \A v \in committed : v.del \/ v.id < nextId'
            <3>1. IsMax(nextId', {manifest.nextId} \cup {v.id + 1 : v \in Replayed}) /\ nextId' \in Nat
                BY DEF Open
            <3>2. nextId' >= manifest.nextId /\ \A w \in Replayed : nextId' >= w.id + 1
                BY <3>1 DEF IsMax
            <3>3. Replayed \subseteq Versions /\ committed \subseteq Versions
                BY <1>3 DEF Replayed, TypeOK, DiskTypeOK, CountersTypeOK
            <3>4. QED
                BY <1>1, <3>1, <3>2, <3>3, CountersAreNat
                   DEF RecoveryInv, RecoveredCountersFresh, Versions, Ids
        <2>4. QED
            BY <1>2, <2>1, <2>2, <2>3 DEF RunningIsAhead
    <1>8. StoredIsCommitted'
        <2>1. \A g \in Gens : wal'[g] \cup frozen'[g] \subseteq committed
            BY <1>3 DEF Open, RecoveryInv, StoredIsCommitted
        <2>2. mem' \subseteq committed
            BY <1>3 DEF Open, RecoveryInv, StoredIsCommitted
        <2>3. QED
            BY <1>1, <1>2, <2>1, <2>2 DEF RecoveryInv, StoredIsCommitted
    <1>9. GenerationsDistinct' /\ ClosedIsEmpty'
        BY <1>2 DEF RecoveryInv, GenerationsDistinct, ClosedIsEmpty, Open
    <1>10. QED
        BY <1>2, <1>6, <1>7, <1>8, <1>9 DEF RecoveryInv

\* A commit: the new versions are behind everything stored, so nothing on disk can be
\* mistaken for one of them.
LEMMA NewVersionsFresh ==
    ASSUME TypeOK, RecoveryInv, status # "closed", engineSeq < MaxSeq,
           NEW P \in SUBSET Ids, NEW D \in SUBSET Ids, NEW n \in nextId..(MaxId + 1),
           Planned(P, D, n)
    PROVE  /\ NewVersions(P, D) \subseteq Versions
           /\ NewVersions(P, D) \cap committed = {}
           /\ \A v \in NewVersions(P, D) : v.seq = engineSeq + 1 /\ (v.del \/ v.id < n)
    <1>1. engineSeq + 1 \in Seqs /\ engineSeq \in Nat /\ n \in Nat /\ nextId \in Nat /\ n >= nextId
        BY CountersAreNat, ConstantsAssumption DEF TypeOK, CountersTypeOK, Seqs
    <1>2. NewVersions(P, D) \subseteq Versions
        <2>1. \A i \in Ids : \A d \in BOOLEAN :
                 [id |-> i, seq |-> engineSeq + 1, del |-> d] \in Versions
            BY <1>1 DEF Versions
        <2>2. QED
            BY <2>1 DEF NewVersions
    <1>3. \A v \in NewVersions(P, D) : v.seq = engineSeq + 1
        BY DEF NewVersions
    <1>4. \A v \in committed : v.seq <= engineSeq
        BY DEF RecoveryInv, RunningIsAhead
    <1>5. NewVersions(P, D) \cap committed = {}
        BY <1>1, <1>3, <1>4
    <1>6. \A i \in P : i < n
        <2>1. \A i \in P : i \in LiveIds \/ i \in nextId..(n - 1)
            BY DEF Planned
        <2>2. \A i \in P : i \in LiveIds => i < nextId
            BY LiveIdsKnown
        <2>3. QED
            BY <1>1, <2>1, <2>2 DEF Ids
    <1>7. \A v \in NewVersions(P, D) : v.del \/ v.id \in P
        BY DEF NewVersions
    <1>8. QED
        BY <1>2, <1>3, <1>5, <1>6, <1>7

\* execute_core_write_command: with and without the freeze at the end, in both sync modes.
LEMMA RecoveryWrite ==
    ASSUME TypeOK, RecoveryInv,
           NEW P \in SUBSET Ids, NEW D \in SUBSET Ids, NEW n \in nextId..(MaxId + 1), Write(P, D, n)
    PROVE  RecoveryInv'
    <1> DEFINE new == NewVersions(P, D)
    <1>1. /\ status = "open" /\ status' = status /\ engineSeq < MaxSeq /\ Planned(P, D, n)
          /\ engineSeq' = engineSeq + 1 /\ nextId' = n /\ committed' = committed \cup new
          /\ segData' = segData /\ publisher' = publisher
        BY DEF Write, MayCommit, CoordinatorFree, flushVars
    <1>2. new \subseteq Versions /\ new \cap committed = {}
          /\ \A v \in new : v.seq = engineSeq + 1 /\ (v.del \/ v.id < n)
        BY <1>1, NewVersionsFresh
    <1>3. engineSeq \in Nat /\ n \in Nat /\ nextId \in Nat /\ n >= nextId
        BY CountersAreNat, ConstantsAssumption
    <1>4. committed \subseteq Versions
        BY DEF TypeOK, CountersTypeOK
    <1>5. \A v \in committed' : v.seq <= engineSeq + 1 /\ (v.del \/ v.id < n)
        <2>1. \A v \in committed : v.seq <= engineSeq /\ (v.del \/ v.id < nextId)
            BY <1>1 DEF RecoveryInv, RunningIsAhead
        <2>2. \A v \in committed : v.seq \in Nat /\ v.id \in Nat
            BY <1>4 DEF Versions, Seqs, Ids
        <2>3. QED
            BY <1>1, <1>2, <1>3, <2>1, <2>2
    <1>6. CASE FreezeMemtable(mem \cup new, engineSeq + 1, n)
        <2>1. mem \cup new \subseteq committed'
            BY <1>1 DEF RecoveryInv, StoredIsCommitted
        <2>2. QED
            BY <1>1, <1>2, <1>3, <1>4, <1>5, <1>6, <2>1, RecoveryFreeze
    <1>7. CASE /\ mem' = mem \cup new
               /\ unsynced' = IF GroupCommit THEN unsynced \cup new ELSE {}
               /\ wal' = IF GroupCommit THEN wal ELSE [wal EXCEPT ![activeGen] = @ \cup new]
               /\ UNCHANGED <<manifest, activeGen, frozen>>
        <2>1. manifest.active = activeGen /\ activeGen \in Gens
            BY <1>1 DEF RecoveryInv, RunningIsAhead, TypeOK, MemTypeOK
        <2>2. RunningIsAhead'
            BY <1>1, <1>5, <1>7, <2>1 DEF RunningIsAhead
        <2>3. \A g \in Gens : wal[g] \subseteq wal'[g] /\ wal'[g] \subseteq wal[g] \cup new
            BY <1>7, <2>1 DEF TypeOK, DiskTypeOK
        <2>4. StoredIsCommitted'
            <3>1. CASE GroupCommit
                BY <1>1, <1>2, <1>7, <3>1 DEF RecoveryInv, StoredIsCommitted
            <3>2. CASE ~GroupCommit
                BY <1>1, <1>2, <1>7, <2>3, <3>2 DEF RecoveryInv, StoredIsCommitted
            <3>3. QED
                BY <3>1, <3>2
        <2>5. RecoveredCountersFresh'
            <3>1. Replayed \subseteq Replayed'
                BY <1>7, <2>3, ReplayedMembers, ReplayedMembersNext DEF TypeOK, DiskTypeOK, Manifests
            <3>2. CASE GroupCommit
                BY <1>1, <1>7, <3>1, <3>2 DEF RecoveryInv, RecoveredCountersFresh
            <3>3. CASE ~GroupCommit
                <4>1. new \subseteq Replayed'
                    BY <1>7, <2>1, <3>3, ReplayedMembersNext DEF TypeOK, DiskTypeOK
                <4>2. \A v \in new : v.seq <= v.seq /\ v.id <= v.id
                    BY <1>2 DEF Versions, Seqs, Ids
                <4>3. unsynced = {} /\ unsynced' = {}
                    BY <1>7, <3>3 DEF RecoveryInv
                <4>4. \A v \in committed :
                          /\ v.seq <= manifest'.engineSeq \/ \E w \in Replayed' : v.seq <= w.seq
                          /\ v.del \/ v.id < manifest'.nextId \/ \E w \in Replayed' : v.id <= w.id
                    BY <1>7, <3>1, <4>3 DEF RecoveryInv, RecoveredCountersFresh
                <4>5. QED
                    BY <1>1, <4>1, <4>2, <4>3, <4>4 DEF RecoveredCountersFresh
            <3>4. QED
                BY <3>2, <3>3
        <2>6. GenerationsDistinct' /\ ClosedIsEmpty' /\ (GroupCommit \/ unsynced' = {})
            BY <1>1, <1>7 DEF RecoveryInv, GenerationsDistinct, ClosedIsEmpty
        <2>7. QED
            BY <2>2, <2>4, <2>5, <2>6 DEF RecoveryInv
    <1>8. QED
        BY <1>6, <1>7 DEF Write, memVars

\* The group-commit thread, and sync().
LEMMA RecoverySyncWal ==
    ASSUME TypeOK, RecoveryInv, SyncWal PROVE RecoveryInv'
    <1>1. manifest.active = activeGen /\ activeGen \in Gens /\ status # "closed"
        BY DEF SyncWal, RecoveryInv, RunningIsAhead, TypeOK, MemTypeOK
    <1>2. /\ manifest' = manifest /\ committed' = committed /\ mem' = mem /\ frozen' = frozen
          /\ segData' = segData /\ publisher' = publisher /\ status' = status
          /\ activeGen' = activeGen /\ engineSeq' = engineSeq /\ nextId' = nextId /\ unsynced' = {}
        BY DEF SyncWal, seqVars, flushVars, ctlVars
    <1>3. \A g \in Gens : wal[g] \subseteq wal'[g] /\ wal'[g] \subseteq wal[g] \cup unsynced
        BY <1>1 DEF SyncWal, TypeOK, DiskTypeOK
    <1>4. Replayed \subseteq Replayed' /\ unsynced \subseteq Replayed'
        <2>1. Replayed \subseteq Replayed'
            BY <1>2, <1>3, ReplayedMembers, ReplayedMembersNext DEF TypeOK, DiskTypeOK, Manifests
        <2>2. unsynced \subseteq wal'[activeGen]
            BY <1>1 DEF SyncWal, TypeOK, DiskTypeOK
        <2>3. QED
            BY <1>1, <1>2, <2>1, <2>2, ReplayedMembersNext
    <1>5. RecoveredCountersFresh'
        <2>1. \A v \in unsynced : v.seq <= v.seq /\ v.id <= v.id
            BY DEF TypeOK, MemTypeOK, Versions, Seqs, Ids
        <2>2. QED
            BY <1>2, <1>4, <2>1 DEF RecoveryInv, RecoveredCountersFresh
    <1>6. StoredIsCommitted'
        BY <1>2, <1>3 DEF RecoveryInv, StoredIsCommitted
    <1>7. QED
        BY <1>1, <1>2, <1>5, <1>6 DEF RecoveryInv, RunningIsAhead, GenerationsDistinct, ClosedIsEmpty

\* Steps of the coordinator, of a failing build and of readers that touch none of the
\* data: they need a running engine, so ClosedIsEmpty is not at stake.
LEMMA RecoveryCoordinator ==
    ASSUME RecoveryInv,
           \/ FlushReturns \/ SurfaceFlushError \/ RetryFlush \/ EnqueueFlush \/ EnqueueFails
           \/ AdoptFlush \/ FlushFailed \/ BuildFails \/ CompactBuildFails \/ CloseFast
    PROVE  RecoveryInv'
    <1>1. status # "closed" /\ status' # "closed"
        BY DEF FlushReturns, SurfaceFlushError, RetryFlush, EnqueueFlush, EnqueueFails, AdoptFlush,
               FlushFailed, BuildFails, CompactBuildFails, CloseFast, MayClose, CoordinatorFree,
               RecoveryInv, ClosedIsEmpty, ctlVars
    <1>2. UNCHANGED dataVars
        BY DEF FlushReturns, SurfaceFlushError, RetryFlush, EnqueueFlush, EnqueueFails, AdoptFlush,
               FlushFailed, BuildFails, CompactBuildFails, CloseFast, dataVars, diskVars, seqVars,
               memVars, flushVars
    <1>3. QED
        BY <1>1, <1>2, Frame DEF ClosedIsEmpty

\* Taking and giving back a snapshot, and stuttering, change nothing the invariant
\* talks about.
LEMMA RecoveryReaders ==
    ASSUME RecoveryInv,
           \/ \E r \in Readers : PinView(r) \/ UnpinView(r)
           \/ UNCHANGED vars
    PROVE  RecoveryInv'
    <1>1. UNCHANGED <<diskVars, seqVars, memVars, flushVars, compVars, ctlVars>>
        BY DEF PinView, UnpinView, vars
    <1>2. UNCHANGED dataVars /\ status' = status
        BY <1>1 DEF dataVars, diskVars, seqVars, memVars, flushVars, ctlVars
    <1>3. ClosedIsEmpty'
        BY <1>1 DEF RecoveryInv, ClosedIsEmpty, memVars, flushVars, compVars, ctlVars
    <1>4. QED
        BY <1>2, <1>3, Frame

\* The build worker writes what is frozen, and frozen versions are synced.
LEMMA RecoveryBuildSegment ==
    ASSUME TypeOK, RecoveryInv, BuildSegment PROVE RecoveryInv'
    <1>1. status # "closed" /\ status' # "closed"
        BY DEF BuildSegment, RecoveryInv, ClosedIsEmpty, ctlVars
    <1>2. Head(workQ) \in Jobs
        BY Queues DEF BuildSegment, TypeOK, FlushTypeOK
    <1>3. Winners(frozen[Head(workQ).gen]) \subseteq committed \ unsynced
        BY <1>2 DEF Winners, Jobs, RecoveryInv, StoredIsCommitted
    <1>4. \A x \in SegIds : segData'[x] \subseteq committed \ unsynced
        BY <1>2, <1>3 DEF BuildSegment, Jobs, TypeOK, DiskTypeOK, RecoveryInv, StoredIsCommitted
    <1>5. GenerationsDistinct'
        BY DEF BuildSegment, RecoveryInv, GenerationsDistinct
    <1>6. QED
        BY <1>1, <1>4, <1>5, RecoverySegments DEF BuildSegment, memVars

\* The background compaction worker merges segments.
LEMMA RecoveryCompactBuild ==
    ASSUME TypeOK, RecoveryInv, CompactBuild PROVE RecoveryInv'
    <1>1. status # "closed" /\ status' # "closed"
        BY DEF CompactBuild, RecoveryInv, ClosedIsEmpty, ctlVars
    <1>2. PICK c \in compact : segData' = [segData EXCEPT ![c.out] = Compacted(c.inputs)]
        BY DEF CompactBuild
    <1>3. c.inputs \in IdLists(SegIds) /\ c.out \in SegIds
        BY DEF TypeOK, CompactTypeOK, Compactions
    <1>4. \A x \in SegIds : segData'[x] \subseteq committed \ unsynced
        BY <1>2, <1>3, CompactedCommitted DEF TypeOK, DiskTypeOK, RecoveryInv, StoredIsCommitted
    <1>5. GenerationsDistinct'
        BY DEF CompactBuild, RecoveryInv, GenerationsDistinct, flushVars
    <1>6. QED
        BY <1>1, <1>4, <1>5, RecoverySegments DEF CompactBuild, memVars

\* The publisher takes a result: a job not published yet.
LEMMA RecoveryPublishReceive ==
    ASSUME TypeOK, RecoveryInv, PublishReceive PROVE RecoveryInv'
    <1>1. status # "closed" /\ status' # "closed"
        BY DEF PublishReceive, RecoveryInv, ClosedIsEmpty, ctlVars
    <1>2. GenerationsDistinct'
        BY DEF PublishReceive, RecoveryInv, GenerationsDistinct, diskVars
    <1>3. QED
        BY <1>1, <1>2, RecoverySegments
        DEF PublishReceive, memVars, diskVars, RecoveryInv, StoredIsCommitted

\* The publisher writes the manifest: only now may the generation be removed, and the
\* manifest no longer names it.
LEMMA RecoveryPublishManifest ==
    ASSUME TypeOK, RecoveryInv, PublishManifest PROVE RecoveryInv'
    <1>1. status # "closed" /\ status' # "closed"
        BY DEF PublishManifest, RecoveryInv, ClosedIsEmpty, ctlVars
    <1>2. PICK w \in publisher : /\ ~w.published /\ w.gen \in manifest.pending
                                 /\ manifest' = PublishedManifest(w)
                                 /\ publisher' = {[w EXCEPT !.published = TRUE]}
        BY DEF PublishManifest
    <1>3. /\ manifest'.engineSeq = Larger(manifest.engineSeq, engineSeq)
          /\ manifest'.nextId = Larger(manifest.nextId, nextId)
          /\ manifest'.active = manifest.active /\ manifest'.nextGen = manifest.nextGen
          /\ manifest'.pending = manifest.pending \ {w.gen}
        BY <1>2, ManifestFields
    <1>4. \A u \in publisher' : u.gen = w.gen
        BY <1>2 DEF TypeOK, FlushTypeOK, PublishJobs
    <1>5. GenerationsDistinct'
        BY <1>2, <1>3, <1>4 DEF RecoveryInv, GenerationsDistinct
    <1>6. QED
        BY <1>1, <1>3, <1>5, RecoveryManifest
        DEF PublishManifest, memVars, RecoveryInv, StoredIsCommitted

\* A failed publish leaves the manifest, or has replaced it before it failed; the
\* publisher drops the job either way.
LEMMA RecoveryPublishFails ==
    ASSUME TypeOK, RecoveryInv, PublishFails PROVE RecoveryInv'
    <1>1. status # "closed" /\ status' # "closed"
        BY DEF PublishFails, RecoveryInv, ClosedIsEmpty, ctlVars
    <1>2. UNCHANGED <<wal, segData, seqVars, memVars>> /\ publisher' = {}
        BY DEF PublishFails
    <1>3. CASE UNCHANGED manifest
        <2>1. GenerationsDistinct'
            BY <1>2, <1>3 DEF RecoveryInv, GenerationsDistinct
        <2>2. QED
            BY <1>1, <1>2, <1>3, <2>1, RecoverySegments
            DEF memVars, RecoveryInv, StoredIsCommitted
    <1>4. CASE \E w \in publisher : manifest' = PublishedManifest(w)
        <2>1. PICK w \in publisher : manifest' = PublishedManifest(w)
            BY <1>4
        <2>2. /\ manifest'.engineSeq = Larger(manifest.engineSeq, engineSeq)
              /\ manifest'.nextId = Larger(manifest.nextId, nextId)
              /\ manifest'.active = manifest.active /\ manifest'.nextGen = manifest.nextGen
              /\ manifest'.pending = manifest.pending \ {w.gen}
            BY <2>1, ManifestFields
        <2>3. GenerationsDistinct'
            BY <1>2, <2>2 DEF RecoveryInv, GenerationsDistinct
        <2>4. QED
            BY <1>1, <1>2, <2>2, <2>3, RecoveryManifest
            DEF memVars, RecoveryInv, StoredIsCommitted
    <1>5. QED
        BY <1>3, <1>4 DEF PublishFails

\* Removing a WAL generation: replay does not read it, because the manifest on disk no
\* longer names it.
LEMMA RecoveryRetireWal ==
    ASSUME TypeOK, RecoveryInv, RetireWal PROVE RecoveryInv'
    <1>1. status # "closed" /\ status' # "closed"
        BY DEF RetireWal, RecoveryInv, ClosedIsEmpty, ctlVars
    <1>2. /\ UNCHANGED <<manifest, segData, committed, engineSeq, nextId, mem, unsynced, activeGen,
                         frozen>>
          /\ publisher' = {}
        BY DEF RetireWal, seqVars, memVars
    <1>3. PICK w \in publisher :
              w.published /\ (wal' = [wal EXCEPT ![w.gen] = {}] \/ wal' = wal)
        BY DEF RetireWal
    <1>4. w.gen \notin manifest.pending \cup {manifest.active}
        BY <1>3 DEF RecoveryInv, GenerationsDistinct
    <1>5. /\ \A g \in Gens : wal'[g] \subseteq wal[g]
          /\ \A g \in manifest.pending \cup {manifest.active} : wal'[g] = wal[g]
        BY <1>3, <1>4 DEF TypeOK, DiskTypeOK, Manifests
    <1>6. Replayed' = Replayed
        BY <1>2, <1>5 DEF Replayed
    <1>7. RecoveredCountersFresh' /\ RunningIsAhead'
        BY <1>1, <1>2, <1>6 DEF RecoveryInv, RecoveredCountersFresh, RunningIsAhead
    <1>8. StoredIsCommitted'
        BY <1>2, <1>5 DEF RecoveryInv, StoredIsCommitted
    <1>9. GenerationsDistinct' /\ ClosedIsEmpty'
        BY <1>1, <1>2 DEF RecoveryInv, GenerationsDistinct, ClosedIsEmpty
    <1>10. QED
        BY <1>2, <1>7, <1>8, <1>9 DEF RecoveryInv

\* A running engine replaces the inputs of a compaction in the manifest, or leaves it.
LEMMA RecoveryReplaceInputs ==
    ASSUME TypeOK, RecoveryInv, status # "closed", status' # "closed",
           UNCHANGED <<wal, seqVars, memVars, publisher>>,
           \A x \in SegIds : segData'[x] \subseteq committed \ unsynced,
           manifest' = manifest \/ \E t, out : manifest' = CompactedManifest(t, out)
    PROVE  RecoveryInv'
    <1>1. CASE manifest' = manifest
        BY <1>1, RecoverySegments DEF memVars, RecoveryInv, GenerationsDistinct
    <1>2. CASE \E t, out : manifest' = CompactedManifest(t, out)
        <2>1. /\ manifest'.engineSeq = Larger(manifest.engineSeq, engineSeq)
              /\ manifest'.nextId = Larger(manifest.nextId, nextId)
              /\ manifest'.active = manifest.active /\ manifest'.nextGen = manifest.nextGen
              /\ manifest'.pending = manifest.pending
            BY <1>2, ManifestFields
        <2>2. GenerationsDistinct'
            BY <2>1 DEF RecoveryInv, GenerationsDistinct
        <2>3. QED
            BY <2>1, <2>2, RecoveryManifest DEF memVars
    <1>3. QED
        BY <1>1, <1>2

\* apply_bg_compact_result and its failures.
LEMMA RecoveryApplyCompact ==
    ASSUME TypeOK, RecoveryInv, ApplyCompact \/ ApplyCompactFails PROVE RecoveryInv'
    <1>1. status # "closed" /\ status' # "closed"
        BY DEF ApplyCompact, ApplyCompactFails, ctlVars
    <1>2. UNCHANGED <<wal, segData, seqVars, memVars, publisher>>
        BY DEF ApplyCompact, ApplyCompactFails, flushVars
    <1>3. manifest' = manifest \/ \E t, out : manifest' = CompactedManifest(t, out)
        BY DEF ApplyCompact, ApplyCompactFails
    <1>4. QED
        BY <1>1, <1>2, <1>3, RecoveryReplaceInputs DEF RecoveryInv, StoredIsCommitted

\* compact() and its failures.
LEMMA RecoveryCompact ==
    ASSUME TypeOK, RecoveryInv, Compact \/ CompactFails PROVE RecoveryInv'
    <1>1. status # "closed" /\ status' # "closed"
        BY DEF Compact, CompactFails, CompactEnabled, CoordinatorFree, ctlVars
    <1>2. UNCHANGED <<wal, seqVars, memVars, publisher>>
        BY DEF Compact, CompactFails, flushVars
    <1>3. manifest' = manifest \/ \E t, out : manifest' = CompactedManifest(t, out)
        BY DEF Compact, CompactFails
    <1>4. Compacted(segs) \subseteq committed \ unsynced
        BY CompactedCommitted DEF TypeOK, CompactTypeOK
    <1>5. segData' = segData \/ segData' = [segData EXCEPT ![nextSeg] = Compacted(segs)]
        BY DEF Compact, CompactFails
    <1>6. \A x \in SegIds : segData'[x] \subseteq committed \ unsynced
        BY <1>4, <1>5 DEF TypeOK, DiskTypeOK, RecoveryInv, StoredIsCommitted
    <1>7. QED
        BY <1>1, <1>2, <1>3, <1>6, RecoveryReplaceInputs

\* flush(), close() and a backpressured write freeze the memtable or only wait.
LEMMA RecoveryBarriers ==
    ASSUME TypeOK, RecoveryInv, FlushBarrier \/ Close \/ RelieveBackpressure PROVE RecoveryInv'
    <1>1. status # "closed" /\ status' # "closed"
        BY DEF FlushBarrier, Close, RelieveBackpressure, MayClose, CoordinatorFree
    <1>2. UNCHANGED <<segData, committed, engineSeq, nextId, publisher>>
        BY DEF FlushBarrier, Close, RelieveBackpressure, diskVars, seqVars, flushVars
    <1>3. CASE FreezeMemtable(mem, engineSeq, nextId)
        <2>1. mem \subseteq committed /\ committed \subseteq Versions
            BY DEF RecoveryInv, StoredIsCommitted, TypeOK, CountersTypeOK
        <2>2. \A v \in committed : v.seq <= engineSeq /\ (v.del \/ v.id < nextId)
            BY <1>1 DEF RecoveryInv, RunningIsAhead
        <2>3. QED
            BY <1>1, <1>2, <1>3, <2>1, <2>2, CountersAreNat, RecoveryFreeze
    <1>4. CASE UNCHANGED <<diskVars, memVars>>
        BY <1>1, <1>2, <1>4, Frame DEF dataVars, diskVars, seqVars, memVars, ClosedIsEmpty
    <1>5. QED
        BY <1>3, <1>4 DEF FlushBarrier, Close, RelieveBackpressure

\* The end of the process: what was not synced is either in the WAL or forgotten.
LEMMA RecoveryCrash ==
    ASSUME TypeOK, RecoveryInv, Crash PROVE RecoveryInv'
    <1>1. PICK kept \in SUBSET unsynced :
              /\ wal' = [wal EXCEPT ![activeGen] = @ \cup kept]
              /\ committed' = committed \ (unsynced \ kept)
        <2>1. PICK n \in 0..MaxSeq :
                  /\ wal' = [wal EXCEPT ![activeGen] = @ \cup {v \in unsynced : v.seq <= n}]
                  /\ committed' = committed \ (unsynced \ {v \in unsynced : v.seq <= n})
            BY DEF Crash
        <2>2. QED
            BY <2>1
    <1>2. manifest.active = activeGen /\ activeGen \in Gens
        BY DEF Crash, RecoveryInv, RunningIsAhead, TypeOK, MemTypeOK
    <1>3. /\ manifest' = manifest /\ segData' = segData /\ status' = "closed" /\ mem' = {}
          /\ unsynced' = {} /\ publisher' = {} /\ frozen' = [g \in Gens |-> {}]
        BY DEF Crash, MemoryLost
    <1>4. \A g \in Gens : wal[g] \subseteq wal'[g] /\ wal'[g] \subseteq wal[g] \cup kept
        BY <1>1, <1>2 DEF TypeOK, DiskTypeOK
    <1>5. Replayed \subseteq Replayed' /\ kept \subseteq Replayed'
        <2>1. Replayed \subseteq Replayed'
            BY <1>3, <1>4, ReplayedMembers, ReplayedMembersNext DEF TypeOK, DiskTypeOK, Manifests
        <2>2. kept \subseteq wal'[activeGen]
            BY <1>1, <1>2 DEF TypeOK, DiskTypeOK
        <2>3. QED
            BY <1>2, <1>3, <2>1, <2>2, ReplayedMembersNext
    <1>6. RecoveredCountersFresh'
        <2>1. \A v \in kept : v.seq <= v.seq /\ v.id <= v.id
            BY <1>1 DEF TypeOK, MemTypeOK, Versions, Seqs, Ids
        <2>2. QED
            BY <1>1, <1>3, <1>5, <2>1 DEF RecoveryInv, RecoveredCountersFresh
    <1>7. StoredIsCommitted'
        <2>1. committed \ unsynced \subseteq committed' /\ kept \subseteq committed'
            BY <1>1 DEF RecoveryInv, StoredIsCommitted
        <2>2. \A g \in Gens : wal'[g] \cup frozen'[g] \subseteq committed'
            BY <1>3, <1>4, <2>1 DEF RecoveryInv, StoredIsCommitted
        <2>3. QED
            BY <1>3, <2>1, <2>2 DEF RecoveryInv, StoredIsCommitted
    <1>8. ClosedIsEmpty' /\ RunningIsAhead' /\ GenerationsDistinct'
        BY <1>3 DEF Crash, MemoryLost, RecoveryInv, ClosedIsEmpty, RunningIsAhead,
                    GenerationsDistinct
    <1>9. QED
        BY <1>3, <1>6, <1>7, <1>8 DEF RecoveryInv

\* close_inner: all of the WAL is synced and the manifest carries the counters.
LEMMA RecoveryCloseFinish ==
    ASSUME TypeOK, RecoveryInv, CloseFinish PROVE RecoveryInv'
    <1>1. status # "closed" /\ manifest.active = activeGen /\ activeGen \in Gens
        BY DEF CloseFinish, RecoveryInv, RunningIsAhead, TypeOK, MemTypeOK
    <1>2. /\ committed' = committed /\ segData' = segData /\ status' = "closed" /\ mem' = {}
          /\ unsynced' = {} /\ publisher' = {} /\ frozen' = [g \in Gens |-> {}]
        BY DEF CloseFinish, MemoryLost
    <1>3. /\ manifest'.engineSeq = Larger(manifest.engineSeq, engineSeq)
          /\ manifest'.nextId = Larger(manifest.nextId, nextId)
          /\ manifest'.active = manifest.active /\ manifest'.nextGen = manifest.nextGen
          /\ manifest'.pending = manifest.pending
        BY <1>1 DEF CloseFinish, TypeOK, DiskTypeOK, Manifests
    <1>4. \A g \in Gens : wal'[g] \subseteq wal[g] \cup unsynced
        BY <1>1 DEF CloseFinish, TypeOK, DiskTypeOK
    <1>5. RecoveredCountersFresh'
        <2>1. /\ manifest'.engineSeq \in Nat /\ manifest'.engineSeq >= engineSeq
              /\ manifest'.nextId \in Nat /\ manifest'.nextId >= nextId
            BY <1>3, CountersAreNat, LargerIsMax
        <2>2. committed \subseteq Versions
            BY DEF TypeOK, CountersTypeOK
        <2>3. \A v \in committed : v.seq <= engineSeq /\ (v.del \/ v.id < nextId)
            BY <1>1 DEF RecoveryInv, RunningIsAhead
        <2>4. QED
            BY <1>2, <2>1, <2>2, <2>3, CountersAreNat, CountersCaughtUp
    <1>6. StoredIsCommitted'
        <2>1. \A g \in Gens : wal'[g] \cup frozen'[g] \subseteq committed'
            BY <1>2, <1>4 DEF RecoveryInv, StoredIsCommitted
        <2>2. QED
            BY <1>2, <2>1 DEF RecoveryInv, StoredIsCommitted
    <1>7. ClosedIsEmpty' /\ RunningIsAhead' /\ GenerationsDistinct'
        BY <1>2, <1>3 DEF CloseFinish, MemoryLost, RecoveryInv, ClosedIsEmpty, RunningIsAhead,
                          GenerationsDistinct
    <1>8. QED
        BY <1>2, <1>5, <1>6, <1>7 DEF RecoveryInv

\* A new directory.
LEMMA RecoveryInit == Init => RecoveryInv
    BY DEF Init, RecoveryInv, RecoveredCountersFresh, ClosedIsEmpty, RunningIsAhead,
           StoredIsCommitted, GenerationsDistinct

\* In every reachable state, whatever the options, the interleaving of the threads, the
\* I/O errors and the crashes: the engine appends to the generation the manifest calls
\* active with counters ahead of its history, stores only committed versions, and never
\* removes a WAL generation recovery still needs.
THEOREM RecoveryInductive == Spec => []RecoveryInv
    <1>1. TypeOK /\ RecoveryInv /\ [Next]_vars => RecoveryInv'
        <2> SUFFICES ASSUME TypeOK, RecoveryInv, [Next]_vars PROVE RecoveryInv'
            OBVIOUS
        <2>1. CASE Open
            BY <2>1, RecoveryOpen
        <2>2. CASE ClientStep
            BY <2>2, RecoveryWrite, RecoveryBarriers, RecoveryCompact, RecoveryCoordinator,
               RecoveryReaders DEF ClientStep
        <2>3. CASE CoordinatorStep
            BY <2>3, RecoveryBarriers, RecoveryCoordinator, RecoveryApplyCompact,
               RecoveryCloseFinish DEF CoordinatorStep
        <2>4. CASE WorkerStep
            BY <2>4, RecoverySyncWal, RecoveryBuildSegment, RecoveryCoordinator,
               RecoveryPublishReceive, RecoveryPublishManifest, RecoveryPublishFails,
               RecoveryRetireWal, RecoveryCompactBuild, RecoveryReaders DEF WorkerStep
        <2>5. CASE Crash
            BY <2>5, RecoveryCrash
        <2>6. CASE UNCHANGED vars
            BY <2>6, RecoveryReaders
        <2>7. QED
            BY <2>1, <2>2, <2>3, <2>4, <2>5, <2>6 DEF Next
    <1>2. QED
        BY <1>1, RecoveryInit, TypeCorrect, PTL DEF Spec

\* Whenever the process dies, the counters open() recovers from the manifest and the WAL
\* are behind no durable commit: a sequence number or a record id is never handed out twice.
THEOREM NoReuseAfterCrash == Spec => []RecoveredCountersFresh
    <1>1. RecoveryInv => RecoveredCountersFresh
        BY DEF RecoveryInv
    <1>2. QED
        BY <1>1, RecoveryInductive, PTL

-----------------------------------------------------------------------------
(* The flush pipeline *)

\* Sending to a channel adds one item behind the others.
LEMMA ItemsAppend ==
    ASSUME NEW S, NEW q \in Seq(S), NEW x \in S
    PROVE  /\ Items(Append(q, x)) = Items(q) \cup {x}
           /\ Len(Append(q, x)) = Len(q) + 1 /\ Append(q, x)[Len(q) + 1] = x
           /\ \A k \in 1..Len(q) : Append(q, x)[k] = q[k]
    <1>1. /\ Len(Append(q, x)) = Len(q) + 1 /\ Append(q, x)[Len(q) + 1] = x
          /\ \A k \in 1..Len(q) : Append(q, x)[k] = q[k]
        OBVIOUS
    <1>2. Len(q) \in Nat
        OBVIOUS
    <1>3. \A k \in 1..(Len(q) + 1) : k \in 1..Len(q) \/ k = Len(q) + 1
        BY <1>2
    <1>4. QED
        BY <1>1, <1>2, <1>3 DEF Items

\* Receiving from a channel takes its first item.
LEMMA ItemsTail ==
    ASSUME NEW S, NEW q \in Seq(S), q # <<>>
    PROVE  /\ Items(q) = Items(Tail(q)) \cup {Head(q)}
           /\ Len(q) \in Nat /\ Len(q) >= 1 /\ Len(Tail(q)) = Len(q) - 1 /\ Head(q) = q[1]
           /\ \A k \in 1..(Len(q) - 1) : Tail(q)[k] = q[k + 1]
    <1>1. /\ Len(q) \in Nat /\ Len(q) >= 1 /\ Len(Tail(q)) = Len(q) - 1 /\ Head(q) = q[1]
          /\ \A k \in 1..(Len(q) - 1) : Tail(q)[k] = q[k + 1]
        OBVIOUS
    <1>2. \A k \in 1..Len(q) : k = 1 \/ k - 1 \in 1..(Len(q) - 1)
        BY <1>1
    <1>3. \A k \in 1..Len(q) : k # 1 => q[k] = Tail(q)[k - 1]
        BY <1>1, <1>2
    <1>4. Items(q) \subseteq Items(Tail(q)) \cup {Head(q)}
        BY <1>1, <1>2, <1>3 DEF Items
    <1>5. Items(Tail(q)) \subseteq Items(q) /\ Head(q) \in Items(q)
        BY <1>1 DEF Items
    <1>6. QED
        BY <1>1, <1>4, <1>5

\* An empty channel has no items, and what a channel holds has the type of its messages.
LEMMA ItemsType ==
    ASSUME NEW S, NEW q \in Seq(S)
    PROVE  Items(<<>>) = {} /\ Items(q) \subseteq S
    BY DEF Items

\* A job sent to a channel behind the jobs it holds keeps them in order.
LEMMA AscendingAppend ==
    ASSUME NEW S, NEW q \in Seq(S), NEW x \in S, Ascending(q), \A y \in Items(q) : Ahead(y, x)
    PROVE  Ascending(Append(q, x))
    <1>1. SUFFICES ASSUME NEW j \in 1..(Len(q) + 1), NEW k \in 1..(Len(q) + 1), j < k
                   PROVE  Ahead(Append(q, x)[j], Append(q, x)[k])
        BY ItemsAppend DEF Ascending
    <1>2. Len(q) \in Nat /\ j \in 1..Len(q)
        BY <1>1
    <1>3. CASE k \in 1..Len(q)
        BY <1>1, <1>2, <1>3, ItemsAppend DEF Ascending
    <1>4. CASE k = Len(q) + 1
        BY <1>1, <1>2, <1>4, ItemsAppend DEF Items
    <1>5. QED
        BY <1>1, <1>2, <1>3, <1>4

\* Receiving keeps the order, and the job received was ahead of the rest.
LEMMA AscendingTail ==
    ASSUME NEW S, NEW q \in Seq(S), q # <<>>, Ascending(q)
    PROVE  Ascending(Tail(q)) /\ \A y \in Items(Tail(q)) : Ahead(Head(q), y)
    <1>1. Len(q) \in Nat /\ \A k \in 1..(Len(q) - 1) : k + 1 \in 1..Len(q) /\ 1 \in 1..Len(q) /\ 1 < k + 1
        BY ItemsTail
    <1>2. Ascending(Tail(q))
        BY <1>1, ItemsTail DEF Ascending
    <1>3. \A y \in Items(Tail(q)) : Ahead(Head(q), y)
        BY <1>1, ItemsTail DEF Ascending, Items
    <1>4. QED
        BY <1>2, <1>3

\* The adoptions in the event channel, when an event is sent ...
LEMMA AdoptsAppend ==
    ASSUME NEW q \in Seq(FlushEvents), NEW x \in FlushEvents, AdoptsAscending(q),
           x.kind = "adopt" => \A y \in Items(q) : y.kind = "adopt" => Ahead(y, x)
    PROVE  AdoptsAscending(Append(q, x))
    <1>1. SUFFICES ASSUME NEW j \in 1..(Len(q) + 1), NEW k \in 1..(Len(q) + 1), j < k,
                          Append(q, x)[j].kind = "adopt", Append(q, x)[k].kind = "adopt"
                   PROVE  Ahead(Append(q, x)[j], Append(q, x)[k])
        BY ItemsAppend DEF AdoptsAscending
    <1>2. Len(q) \in Nat /\ j \in 1..Len(q)
        BY <1>1
    <1>3. CASE k \in 1..Len(q)
        BY <1>1, <1>2, <1>3, ItemsAppend DEF AdoptsAscending
    <1>4. CASE k = Len(q) + 1
        BY <1>1, <1>2, <1>4, ItemsAppend DEF Items
    <1>5. QED
        BY <1>1, <1>2, <1>3, <1>4

\* ... and when one is received.
LEMMA AdoptsTail ==
    ASSUME NEW q \in Seq(FlushEvents), q # <<>>, AdoptsAscending(q)
    PROVE  /\ AdoptsAscending(Tail(q))
           /\ Head(q).kind = "adopt" =>
                 \A y \in Items(Tail(q)) : y.kind = "adopt" => Ahead(Head(q), y)
    <1>1. Len(q) \in Nat /\ \A k \in 1..(Len(q) - 1) : k + 1 \in 1..Len(q) /\ 1 \in 1..Len(q) /\ 1 < k + 1
        BY ItemsTail
    <1>2. AdoptsAscending(Tail(q))
        BY <1>1, ItemsTail DEF AdoptsAscending
    <1>3. Head(q).kind = "adopt" => \A y \in Items(Tail(q)) : y.kind = "adopt" => Ahead(Head(q), y)
        BY <1>1, ItemsTail DEF AdoptsAscending, Items
    <1>4. QED
        BY <1>2, <1>3

\* The variables PipelineInv talks about, apart from status, task and compact.
pipeVars == <<manifest, segDirs, activeGen, imm, inflight, segs, nextSeg, worker, workQ, built,
              events, publisher>>

\* What the channels, the publisher and the manifest hold, as numbers.
LEMMA JobTypes ==
    ASSUME TypeOK
    PROVE  /\ Items(workQ) \subseteq Jobs /\ Items(built) \subseteq Jobs
           /\ Items(events) \subseteq FlushEvents
           /\ \A a \in Items(workQ) \cup Items(built) \cup Items(events) \cup publisher :
                 a.gen \in Nat /\ a.seg \in Nat /\ a.gen \in Gens /\ a.seg \in SegIds
           /\ \A g \in manifest.pending \cup imm.ids : g \in Nat
           /\ \A x \in manifest.segments.ids \cup segs.ids : x \in Nat
           /\ nextSeg \in Nat /\ activeGen \in Nat
    <1>1. /\ Items(workQ) \subseteq Jobs /\ Items(built) \subseteq Jobs
          /\ Items(events) \subseteq FlushEvents /\ publisher \subseteq PublishJobs
        BY ItemsType DEF TypeOK, FlushTypeOK
    <1>2. Gens \subseteq Nat /\ SegIds \subseteq Nat
        BY ConstantsAssumption DEF Gens, SegIds
    <1>3. \A a \in Items(workQ) \cup Items(built) \cup Items(events) \cup publisher :
              a.gen \in Gens /\ a.seg \in SegIds
        BY <1>1 DEF Jobs, FlushEvents, PublishJobs
    <1>4. manifest.pending \subseteq Gens /\ manifest.segments.ids \subseteq SegIds
        BY DEF TypeOK, DiskTypeOK, Manifests, IdLists
    <1>5. imm.ids \subseteq Gens /\ segs.ids \subseteq SegIds /\ activeGen \in Gens
        BY DEF TypeOK, MemTypeOK, CompactTypeOK, IdLists
    <1>6. nextSeg \in Nat
        BY ConstantsAssumption DEF TypeOK, CountersTypeOK
    <1>7. QED
        BY <1>1, <1>2, <1>3, <1>4, <1>5, <1>6

\* A step of a running engine that leaves the pipeline alone; a compaction may be dropped.
LEMMA PipelineFrame ==
    ASSUME PipelineInv, UNCHANGED pipeVars, compact' \subseteq compact,
           status # "closed", status' # "closed", task' = "drain" => task = "drain",
           task = "drain" => task' = "drain"
    PROVE  PipelineInv'
    <1>1. /\ Unpublished' = Unpublished /\ Published' = Published /\ Adopting' = Adopting
          /\ Items(workQ)' = Items(workQ) /\ Items(built)' = Items(built)
        BY DEF pipeVars, Unpublished, Published, Adopting, Items
    <1>2. JobsInOrder' /\ WorkersStopped'
        BY <1>1 DEF PipelineInv, JobsInOrder, WorkersStopped, pipeVars, Ascending, AdoptsAscending
    <1>3. EpochsAccounted'
        BY <1>1 DEF PipelineInv, EpochsAccounted, pipeVars, GensOf
    <1>4. SegmentsAccounted'
        BY <1>1 DEF PipelineInv, SegmentsAccounted, pipeVars, SegsOf
    <1>5. DirectoriesExist'
        BY <1>1 DEF PipelineInv, DirectoriesExist, ListedSegmentsExist, pipeVars, SegsOf
    <1>6. QED
        BY <1>2, <1>3, <1>4, <1>5 DEF PipelineInv

\* freeze_memtable: the generation becomes pending and its epoch the newest one.
LEMMA PipelineFreeze ==
    ASSUME TypeOK, RecoveryInv, PipelineInv, status # "closed", status' # "closed", task # "drain",
           NEW M, NEW s, NEW n, FreezeMemtable(M, s, n),
           UNCHANGED <<segDirs, segs, nextSeg, flushVars, compact>>
    PROVE  PipelineInv'
    <1>1. activeGen \in Gens /\ manifest.active = activeGen /\ activeGen < manifest.nextGen
        BY DEF TypeOK, MemTypeOK, RecoveryInv, RunningIsAhead, GenerationsDistinct
    <1>2. /\ manifest'.pending = manifest.pending \cup {activeGen}
          /\ manifest'.active = manifest.nextGen
          /\ manifest'.segments = manifest.segments
        BY DEF FreezeMemtable, TypeOK, DiskTypeOK, Manifests
    <1>3. activeGen' = manifest.nextGen /\ imm' = PushFront(imm, activeGen) /\ task' = "enqueue"
        BY DEF FreezeMemtable
    <1>4. /\ Unpublished' = Unpublished /\ Published' = Published /\ Adopting' = Adopting
          /\ Items(workQ)' = Items(workQ) /\ Items(built)' = Items(built)
          /\ publisher' = publisher /\ inflight' = inflight
        BY DEF flushVars, Unpublished, Published, Adopting, Items
    <1>5. JobsInOrder' /\ WorkersStopped'
        BY <1>3, <1>4 DEF PipelineInv, JobsInOrder, WorkersStopped, flushVars, Ascending, AdoptsAscending
    <1>6. EpochsAccounted'
        <2>1. /\ \A g \in imm.ids : g < activeGen /\ g \in Nat
              /\ activeGen \in Nat /\ manifest.nextGen \in Nat
            BY JobTypes, CountersAreNat DEF PipelineInv, EpochsAccounted
        <2>2. GensOf(Published) \subseteq imm.ids /\ GensOf(Unpublished) \subseteq imm.ids
              /\ inflight \subseteq imm.ids /\ manifest.pending \subseteq imm.ids
            BY DEF PipelineInv, EpochsAccounted
        <2>3. imm'.ids = imm.ids \cup {activeGen}
              /\ imm'.before = imm.before \cup {<<activeGen, y>> : y \in imm.ids \ {activeGen}}
            BY <1>3 DEF PushFront
        <2>4. imm'.before = {p \in imm'.ids \X imm'.ids : p[1] > p[2]}
            BY <2>1, <2>3 DEF PipelineInv, EpochsAccounted
        <2>5. \A g \in inflight : \A h \in imm'.ids : h < g => h \in inflight
            BY <2>1, <2>2, <2>3 DEF PipelineInv, EpochsAccounted
        <2>6. GensOf(Published) \cap manifest'.pending = {}
            BY <1>2, <2>1, <2>2 DEF PipelineInv, EpochsAccounted
        <2>7. GensOf(Unpublished') = GensOf(Unpublished) /\ GensOf(Published') = GensOf(Published)
              /\ GensOf(Unpublished' \cup Published') = GensOf(Unpublished \cup Published)
            BY <1>4
        <2>8. \A g \in imm'.ids : g < activeGen'
            BY <1>1, <1>3, <2>1, <2>3
        <2>9. \A g \in manifest'.pending : g < manifest'.active
            BY <1>2, <1>3, <2>2, <2>3, <2>8
        <2>10. imm'.ids = manifest'.pending \cup GensOf(Published)
            BY <1>2, <2>3 DEF PipelineInv, EpochsAccounted
        <2>11. GensOf(Unpublished) \subseteq manifest'.pending
               /\ GensOf(Unpublished \cup Published) \subseteq inflight
               /\ inflight \subseteq imm'.ids
            BY <1>2, <2>2, <2>3 DEF PipelineInv, EpochsAccounted
        <2>12. QED
            BY <1>4, <2>4, <2>5, <2>6, <2>7, <2>8, <2>9, <2>10, <2>11 DEF EpochsAccounted
    <1>7. SegmentsAccounted' /\ DirectoriesExist'
        BY <1>2, <1>4 DEF PipelineInv, SegmentsAccounted, DirectoriesExist, ListedSegmentsExist, SegsOf
    <1>8. QED
        BY <1>5, <1>6, <1>7 DEF PipelineInv

\* The process ends: the disk stays as it is and the pipeline is gone.
LEMMA PipelineGone ==
    ASSUME PipelineInv, MemoryLost, segDirs' = segDirs, manifest'.segments = manifest.segments,
           manifest'.pending = manifest.pending, manifest'.active = manifest.active
    PROVE  PipelineInv'
    <1>1. /\ status' = "closed" /\ task' = "idle" /\ worker' = "none" /\ workQ' = <<>>
          /\ built' = <<>> /\ events' = <<>> /\ publisher' = {} /\ inflight' = {} /\ compact' = {}
        BY DEF MemoryLost
    <1>2. Items(<<>>) = {} /\ Len(<<>>) = 0
        BY DEF Items
    <1>3. Unpublished' = {} /\ Published' = {} /\ Adopting' = {} /\ Items(built)' = {}
        BY <1>1, <1>2 DEF Unpublished, Published, Adopting
    <1>4. JobsInOrder' /\ WorkersStopped'
        BY <1>1, <1>2, <1>3 DEF JobsInOrder, WorkersStopped, Ascending, AdoptsAscending
    <1>5. EpochsAccounted' /\ SegmentsAccounted' /\ DirectoriesExist'
        BY <1>1, <1>3 DEF PipelineInv, EpochsAccounted, SegmentsAccounted, DirectoriesExist,
                          ListedSegmentsExist, GensOf, SegsOf
    <1>6. QED
        BY <1>4, <1>5 DEF PipelineInv

\* A crash, and the end of close() and close_fast().
LEMMA PipelineEnds ==
    ASSUME TypeOK, RecoveryInv, PipelineInv, Crash \/ CloseFinish PROVE PipelineInv'
    <1>1. CASE Crash
        BY <1>1, PipelineGone DEF Crash
    <1>2. CASE CloseFinish
        <2>1. manifest.active = activeGen
            BY <1>2 DEF CloseFinish, RecoveryInv, RunningIsAhead
        <2>2. /\ manifest'.segments = manifest.segments /\ manifest'.pending = manifest.pending
              /\ manifest'.active = manifest.active /\ MemoryLost /\ segDirs' = segDirs
            BY <1>2, <2>1 DEF CloseFinish, TypeOK, DiskTypeOK, Manifests
        <2>3. QED
            BY <2>2, PipelineGone
    <1>3. QED
        BY <1>1, <1>2

\* Opening: one epoch per pending generation, one reader per listed segment.
LEMMA PipelineOpen ==
    ASSUME TypeOK, RecoveryInv, PipelineInv, Open PROVE PipelineInv'
    <1>1. /\ publisher = {} /\ compact = {} /\ worker = "none" /\ task = "idle" /\ events = <<>>
          /\ workQ = <<>> /\ built = <<>> /\ inflight = {}
        BY DEF Open, RecoveryInv, ClosedIsEmpty, PipelineInv, WorkersStopped
    <1>2. /\ publisher' = {} /\ compact' = {} /\ worker' = "none" /\ task' = "idle"
          /\ events' = <<>> /\ workQ' = <<>> /\ built' = <<>> /\ inflight' = {}
          /\ status' = "open" /\ manifest' = manifest
        BY <1>1 DEF Open, flushVars, compVars
    <1>3. Items(<<>>) = {} /\ Len(<<>>) = 0
        BY DEF Items
    <1>4. Unpublished' = {} /\ Published' = {} /\ Adopting' = {} /\ Items(built)' = {}
        BY <1>2, <1>3 DEF Unpublished, Published, Adopting
    <1>5. JobsInOrder' /\ WorkersStopped'
        BY <1>2, <1>3, <1>4 DEF JobsInOrder, WorkersStopped, Ascending, AdoptsAscending
    <1>6. EpochsAccounted'
        <2>1. /\ imm'.ids = manifest.pending /\ activeGen' = manifest.active
              /\ imm'.before = {p \in manifest.pending \X manifest.pending : p[1] > p[2]}
            BY DEF Open, DiskEpochs
        <2>2. \A g \in manifest.pending : g < manifest.active
            BY DEF PipelineInv, EpochsAccounted
        <2>3. QED
            BY <1>2, <1>4, <2>1, <2>2 DEF EpochsAccounted, GensOf
    <1>7. segDirs' = manifest.segments.ids
        BY DEF Open, PipelineInv, DirectoriesExist, ListedSegmentsExist
    <1>8. SegmentsAccounted'
        <2>1. segs'.ids = manifest.segments.ids
            BY DEF Open, DiskSegments, Reversed, Without, PipelineInv, DirectoriesExist,
                   ListedSegmentsExist
        <2>2. PICK m \in 0..MaxSeg : /\ IsMax(m, {0} \cup manifest.segments.ids \cup segDirs)
                                     /\ nextSeg' = m + 1
            BY DEF Open
        <2>3. \A x \in manifest.segments.ids : x < nextSeg'
            BY <2>2, JobTypes DEF IsMax
        <2>4. QED
            BY <1>2, <1>4, <2>1, <2>3 DEF SegmentsAccounted, SegsOf
    <1>9. DirectoriesExist'
        BY <1>2, <1>4, <1>7 DEF DirectoriesExist, ListedSegmentsExist, SegsOf
    <1>10. QED
        BY <1>5, <1>6, <1>8, <1>9 DEF PipelineInv

\* A commit, with and without the freeze at its end.
LEMMA PipelineWrite ==
    ASSUME TypeOK, RecoveryInv, PipelineInv,
           NEW P, NEW D, NEW n, Write(P, D, n)
    PROVE  PipelineInv'
    <1>1. /\ status # "closed" /\ status' # "closed" /\ task = "idle"
          /\ UNCHANGED <<segDirs, segs, nextSeg, flushVars, compact>>
        BY DEF Write, CoordinatorFree, compVars
    <1>2. CASE FreezeMemtable(mem \cup NewVersions(P, D), engineSeq + 1, n)
        BY <1>1, <1>2, PipelineFreeze
    <1>3. CASE UNCHANGED <<manifest, activeGen, imm, frozen, pins, task>>
        BY <1>1, <1>3, PipelineFrame DEF pipeVars, flushVars
    <1>4. QED
        BY <1>2, <1>3 DEF Write

\* flush(), close() and a backpressured write freeze the memtable or only wait.
LEMMA PipelineBarriers ==
    ASSUME TypeOK, RecoveryInv, PipelineInv, FlushBarrier \/ Close \/ RelieveBackpressure
    PROVE  PipelineInv'
    <1>1. /\ status # "closed" /\ status' # "closed" /\ task = "idle"
          /\ UNCHANGED <<segs, nextSeg, flushVars, compact>>
        BY DEF FlushBarrier, Close, RelieveBackpressure, MayClose, CoordinatorFree, compVars
    <1>2. segDirs' = segDirs
        BY DEF FlushBarrier, Close, RelieveBackpressure, diskVars
    <1>3. CASE FreezeMemtable(mem, engineSeq, nextId)
        BY <1>1, <1>2, <1>3, PipelineFreeze
    <1>4. CASE UNCHANGED <<diskVars, memVars>> /\ task' # "drain"
        BY <1>1, <1>4, PipelineFrame DEF pipeVars, flushVars, diskVars, memVars
    <1>5. QED
        BY <1>3, <1>4 DEF FlushBarrier, Close, RelieveBackpressure

\* The coordinator's and the readers' steps that touch neither disk nor pipeline.
LEMMA PipelineAlone ==
    ASSUME PipelineInv, RecoveryInv,
           \/ SyncWal \/ FlushReturns \/ SurfaceFlushError \/ RetryFlush \/ EnqueueFails
           \/ \E r \in Readers : PinView(r) \/ UnpinView(r)
           \/ UNCHANGED vars
    PROVE  PipelineInv'
    <1>1. CASE UNCHANGED vars \/ \E r \in Readers : UnpinView(r)
        <2>1. /\ UNCHANGED <<manifest, segDirs, activeGen, imm, inflight, segs, nextSeg, worker,
                             workQ, built, events, publisher>>
              /\ UNCHANGED <<compact, status, task>>
            BY <1>1 DEF vars, UnpinView, diskVars, memVars, flushVars, compVars, ctlVars
        <2>2. CASE status = "closed"
            <3>1. /\ Unpublished' = Unpublished /\ Published' = Published /\ Adopting' = Adopting
                  /\ Items(workQ)' = Items(workQ) /\ Items(built)' = Items(built)
                BY <2>1 DEF Unpublished, Published, Adopting, Items
            <3>2. JobsInOrder' /\ WorkersStopped'
                BY <2>1, <3>1
                DEF PipelineInv, JobsInOrder, WorkersStopped, Ascending, AdoptsAscending
            <3>3. EpochsAccounted' /\ SegmentsAccounted' /\ DirectoriesExist'
                BY <2>1, <3>1
                DEF PipelineInv, EpochsAccounted, SegmentsAccounted, DirectoriesExist,
                    ListedSegmentsExist, GensOf, SegsOf
            <3>4. QED
                BY <3>2, <3>3 DEF PipelineInv
        <2>3. CASE status # "closed"
            BY <2>1, <2>3, PipelineFrame DEF pipeVars
        <2>4. QED
            BY <2>2, <2>3
    <1>2. ASSUME SyncWal \/ FlushReturns \/ SurfaceFlushError \/ RetryFlush \/ EnqueueFails
                 \/ \E r \in Readers : PinView(r)
          PROVE  PipelineInv'
        <2>1. /\ UNCHANGED <<diskVars, segs, nextSeg, flushVars, compVars>> \/ SyncWal
              /\ UNCHANGED <<manifest, segDirs, activeGen, imm, segs, nextSeg, flushVars, compVars>>
            BY <1>2 DEF SyncWal, FlushReturns, SurfaceFlushError, RetryFlush, EnqueueFails, PinView,
                        diskVars, memVars
        <2>2. status # "closed" /\ status' = status
            BY <1>2 DEF SyncWal, FlushReturns, SurfaceFlushError, RetryFlush, EnqueueFails, PinView,
                        ctlVars, RecoveryInv, ClosedIsEmpty
        <2>3. task' = task \/ (task # "drain" /\ task' # "drain")
            BY <1>2 DEF SyncWal, FlushReturns, SurfaceFlushError, RetryFlush, EnqueueFails, PinView,
                        ctlVars
        <2>4. QED
            BY <2>1, <2>2, <2>3, PipelineFrame DEF pipeVars, flushVars, compVars
    <1>3. QED
        BY <1>1, <1>2

\* enqueue_flush: the job is behind everything in flight, and its segment id is new.
LEMMA PipelineEnqueue ==
    ASSUME TypeOK, RecoveryInv, PipelineInv, EnqueueFlush PROVE PipelineInv'
    <1>1. PICK g \in LastOf(imm, NonInFlight) :
              /\ workQ' = Append(workQ, [gen |-> g, seg |-> nextSeg])
              /\ inflight' = inflight \cup {g} /\ task' # "drain"
        BY DEF EnqueueFlush
    <1> DEFINE job == [gen |-> g, seg |-> nextSeg]
    <1>2. /\ status # "closed" /\ status' # "closed" /\ task # "drain"
          /\ UNCHANGED <<manifest, segDirs, activeGen, imm, segs, built, events, publisher, compact>>
          /\ nextSeg' = nextSeg + 1 /\ worker' # "none"
        BY DEF EnqueueFlush, RecoveryInv, ClosedIsEmpty, diskVars, memVars, compVars, TypeOK, FlushTypeOK
    <1>3. /\ g \in imm.ids /\ g \notin inflight
          /\ \A h \in imm.ids \ inflight : <<g, h>> \notin imm.before
        BY DEF LastOf, NonInFlight
    <1>4. g \in Gens /\ nextSeg \in SegIds /\ job \in Jobs /\ job.gen = g /\ job.seg = nextSeg
        BY <1>3, ConstantsAssumption
        DEF EnqueueFlush, TypeOK, CountersTypeOK, MemTypeOK, IdLists, SegIds, Jobs
    <1>5. /\ Items(workQ)' = Items(workQ) \cup {job} /\ Items(built)' = Items(built)
          /\ Unpublished' = Unpublished \cup {job} /\ Published' = Published /\ Adopting' = Adopting
        <2>1. Items(workQ') = Items(workQ) \cup {job}
            BY <1>1, <1>4, ItemsAppend DEF TypeOK, FlushTypeOK
        <2>2. Items(built') = Items(built) /\ Adopting' = Adopting /\ publisher' = publisher
            BY <1>2 DEF Adopting
        <2>3. Published' = Published
            BY <1>2, <2>2 DEF Published
        <2>4. Unpublished' = Unpublished \cup {job}
            BY <2>1, <2>2 DEF Unpublished, Items
        <2>5. QED
            BY <2>1, <2>2, <2>3, <2>4 DEF Items
    <1>6. \A h \in inflight : h < g
        <2>1. \A h \in inflight : h \in imm.ids /\ h # g /\ h \in Nat /\ g \in Nat
            BY <1>3, JobTypes DEF PipelineInv, EpochsAccounted
        <2>2. \A h \in inflight : ~(g < h)
            BY <1>2, <1>3 DEF PipelineInv, EpochsAccounted
        <2>3. QED
            BY <2>1, <2>2
    <1>7. \A a \in Unpublished \cup Published : a.gen \in inflight /\ a.seg < nextSeg /\ Ahead(a, job)
        <2>1. \A a \in Unpublished \cup Published : a.gen \in inflight
            BY <1>2 DEF PipelineInv, EpochsAccounted, GensOf
        <2>2. \A a \in Unpublished \cup Published : a.seg < nextSeg
            BY <1>2 DEF PipelineInv, SegmentsAccounted, SegsOf
        <2>3. QED
            BY <1>4, <1>6, <2>1, <2>2 DEF Ahead
    <1> HIDE DEF job
    <1>8. /\ Items(workQ) \cup Items(built) \subseteq Unpublished
          /\ publisher \cup Adopting \subseteq Unpublished \cup Published
        BY DEF Unpublished, Published
    <1>9. JobsInOrder'
        <2>1. Ascending(workQ')
            BY <1>1, <1>4, <1>7, <1>8, AscendingAppend DEF job, TypeOK, FlushTypeOK, PipelineInv, JobsInOrder
        <2>2. Ascending(built') /\ AdoptsAscending(events')
            BY <1>2 DEF PipelineInv, JobsInOrder
        <2>3. QED
            BY <1>2, <1>5, <1>7, <1>8, <2>1, <2>2 DEF PipelineInv, JobsInOrder
    <1>10. WorkersStopped'
        BY <1>1, <1>2 DEF PipelineInv, WorkersStopped
    <1>11. EpochsAccounted'
        <2>1. GensOf(Published) \subseteq inflight /\ g \notin inflight
              /\ imm.ids = manifest.pending \cup GensOf(Published)
            BY <1>2, <1>3 DEF PipelineInv, EpochsAccounted, GensOf
        <2>2. g \in manifest.pending
            BY <1>3, <2>1
        <2>3. GensOf(Unpublished') = GensOf(Unpublished) \cup {g} /\ GensOf(Published') = GensOf(Published)
              /\ GensOf(Unpublished' \cup Published') = GensOf(Unpublished \cup Published) \cup {g}
            BY <1>4, <1>5 DEF GensOf
        <2>4. \A d \in inflight' : \A h \in imm.ids : h < d => h \in inflight'
            <3>1. \A h \in imm.ids : h \in Nat
                BY JobTypes
            <3>2. \A h \in imm.ids : h < g => h \in inflight
                BY <1>2, <1>3, <3>1 DEF PipelineInv, EpochsAccounted
            <3>3. QED
                BY <1>1, <1>2, <3>2 DEF PipelineInv, EpochsAccounted
        <2>5. QED
            BY <1>1, <1>2, <1>3, <2>2, <2>3, <2>4 DEF PipelineInv, EpochsAccounted
    <1>12. SegmentsAccounted'
        <2>1. SegsOf(Unpublished') = SegsOf(Unpublished) \cup {nextSeg} /\ SegsOf(Published') = SegsOf(Published)
            BY <1>4, <1>5 DEF SegsOf
        <2>2. \A x \in SegsOf(Unpublished) \cup SegsOf(Published) : x \in Nat
            BY JobTypes DEF SegsOf, Unpublished, Published, Adopting
        <2>3. \A c \in compact : c.out \in Nat
            BY ConstantsAssumption DEF TypeOK, CompactTypeOK, Compactions, SegIds
        <2>4. QED
            BY <1>2, <2>1, <2>2, <2>3, JobTypes DEF PipelineInv, SegmentsAccounted
    <1>13. DirectoriesExist'
        BY <1>2, <1>5 DEF PipelineInv, DirectoriesExist, ListedSegmentsExist, SegsOf
    <1>14. QED
        BY <1>9, <1>10, <1>11, <1>12, <1>13 DEF PipelineInv

\* The build worker's success: the job moves on, its directory exists.
LEMMA PipelineBuild ==
    ASSUME TypeOK, RecoveryInv, PipelineInv, BuildSegment PROVE PipelineInv'
    <1> DEFINE job == Head(workQ)
    <1>1. /\ workQ # <<>> /\ built' = Append(built, job) /\ workQ' = Tail(workQ)
          /\ segDirs' = segDirs \cup {job.seg} /\ worker = "running"
          /\ UNCHANGED <<manifest, activeGen, imm, segs, nextSeg, worker, events, publisher, inflight,
                         compact, status, task>>
        BY DEF BuildSegment, memVars, compVars, ctlVars
    <1>2. job \in Jobs /\ job \in Items(workQ)
        BY <1>1, Queues, ItemsTail DEF TypeOK, FlushTypeOK
    <1>3. Items(workQ) = Items(workQ') \cup {job} /\ Items(built') = Items(built) \cup {job}
        BY <1>1, <1>2, ItemsTail, ItemsAppend DEF TypeOK, FlushTypeOK
    <1>4. Ascending(workQ') /\ \A y \in Items(workQ') : Ahead(job, y)
        BY <1>1, AscendingTail DEF TypeOK, FlushTypeOK, PipelineInv, JobsInOrder
    <1> HIDE DEF job
    <1>5. Unpublished' = Unpublished /\ Published' = Published /\ Adopting' = Adopting
        BY <1>1, <1>3 DEF Unpublished, Published, Adopting
    <1>6. JobsInOrder'
        <2>1. Ascending(built')
            BY <1>1, <1>2, AscendingAppend DEF TypeOK, FlushTypeOK, PipelineInv, JobsInOrder
        <2>2. QED
            BY <1>1, <1>3, <1>4, <1>5, <2>1 DEF PipelineInv, JobsInOrder
    <1>7. WorkersStopped' /\ EpochsAccounted' /\ SegmentsAccounted'
        BY <1>1, <1>5 DEF PipelineInv, WorkersStopped, EpochsAccounted, SegmentsAccounted
    <1>8. DirectoriesExist'
        BY <1>1, <1>3 DEF PipelineInv, DirectoriesExist, ListedSegmentsExist, SegsOf
    <1>9. QED
        BY <1>6, <1>7, <1>8 DEF PipelineInv

\* Sending a failure leaves the adoptions that are due as they were.
LEMMA FailureSent ==
    ASSUME TypeOK, JobsInOrder, NEW e \in FlushEvents, e.kind = "failed", events' = Append(events, e)
    PROVE  AdoptsAscending(events') /\ Adopting' = Adopting
    <1>1. Items(events') = Items(events) \cup {e} /\ events \in Seq(FlushEvents)
        BY ItemsAppend DEF TypeOK, FlushTypeOK
    <1>2. AdoptsAscending(events')
        BY <1>1, AdoptsAppend DEF JobsInOrder
    <1>3. QED
        BY <1>1, <1>2 DEF Adopting

\* A failed build: the job is dropped, its epoch stays in flight until the event is handled.
LEMMA PipelineBuildFails ==
    ASSUME TypeOK, RecoveryInv, PipelineInv, BuildFails PROVE PipelineInv'
    <1> DEFINE job == Head(workQ)
               e   == [kind |-> "failed", gen |-> job.gen, seg |-> job.seg]
    <1>1. /\ workQ # <<>> /\ workQ' = Tail(workQ) /\ worker' = "cancelled" /\ worker = "running"
          /\ events' = Append(events, e)
          /\ UNCHANGED <<manifest, segDirs, activeGen, imm, segs, nextSeg, built, publisher, inflight,
                         compact, status, task>>
        BY DEF BuildFails, diskVars, memVars, compVars, ctlVars
    <1>2. job \in Jobs /\ e \in FlushEvents /\ e.kind = "failed"
        <2>1. job \in Jobs
            BY <1>1, Queues DEF TypeOK, FlushTypeOK
        <2>2. QED
            BY <2>1 DEF Jobs, FlushEvents
    <1>3. Items(workQ') \subseteq Items(workQ) /\ Ascending(workQ')
        BY <1>1, ItemsTail, AscendingTail DEF TypeOK, FlushTypeOK, PipelineInv, JobsInOrder
    <1>4. AdoptsAscending(events') /\ Adopting' = Adopting
        BY <1>1, <1>2, FailureSent DEF PipelineInv
    <1> HIDE DEF job, e
    <1>5. Unpublished' \subseteq Unpublished /\ Published' = Published /\ Items(built)' = Items(built)
        BY <1>1, <1>3, <1>4 DEF Unpublished, Published, Items
    <1>6. JobsInOrder'
        BY <1>1, <1>3, <1>4, <1>5 DEF PipelineInv, JobsInOrder
    <1>7. WorkersStopped' /\ EpochsAccounted' /\ SegmentsAccounted' /\ DirectoriesExist'
        BY <1>1, <1>5 DEF PipelineInv, WorkersStopped, EpochsAccounted, SegmentsAccounted,
                          DirectoriesExist, ListedSegmentsExist, GensOf, SegsOf
    <1>8. QED
        BY <1>6, <1>7 DEF PipelineInv

\* The publisher takes the oldest job that is built.
LEMMA PipelineReceive ==
    ASSUME TypeOK, RecoveryInv, PipelineInv, PublishReceive PROVE PipelineInv'
    <1> DEFINE job == Head(built)
               w   == [gen |-> job.gen, seg |-> job.seg, published |-> FALSE]
    <1>1. /\ built # <<>> /\ built' = Tail(built) /\ publisher = {} /\ publisher' = {w}
          /\ worker = "running"
          /\ UNCHANGED <<manifest, segDirs, activeGen, imm, segs, nextSeg, workQ, worker, events,
                         inflight, compact, status, task>>
        BY DEF PublishReceive, diskVars, memVars, compVars, ctlVars
    <1>2. Items(built) = Items(built') \cup {job} /\ Ascending(built') /\ job \in Jobs
          /\ \A y \in Items(built') : Ahead(job, y)
        BY <1>1, ItemsTail, AscendingTail, Queues DEF TypeOK, FlushTypeOK, PipelineInv, JobsInOrder
    <1>3. w.gen = job.gen /\ w.seg = job.seg /\ w.published = FALSE
        OBVIOUS
    <1> HIDE DEF job, w
    <1>4. Items(workQ)' = Items(workQ) /\ Adopting' = Adopting /\ Published' = Published
        BY <1>1, <1>3 DEF Published, Adopting, Items
    <1>5. Unpublished' = Items(workQ) \cup Items(built') \cup {w}
          /\ Unpublished = Items(workQ) \cup Items(built') \cup {job}
        BY <1>1, <1>2, <1>3, <1>4 DEF Unpublished
    <1>6. /\ GensOf(Unpublished') = GensOf(Unpublished) /\ SegsOf(Unpublished') = SegsOf(Unpublished)
          /\ GensOf(Unpublished' \cup Published') = GensOf(Unpublished \cup Published)
        BY <1>3, <1>4, <1>5 DEF GensOf, SegsOf
    <1>7. JobsInOrder'
        <2>1. \A y : Ahead(job, y) <=> Ahead(w, y)
            BY <1>3 DEF Ahead
        <2>2. \A y : Ahead(y, job) <=> Ahead(y, w)
            BY <1>3 DEF Ahead
        <2>3. QED
            BY <1>1, <1>2, <1>4, <2>1, <2>2 DEF PipelineInv, JobsInOrder
    <1>8. WorkersStopped' /\ EpochsAccounted' /\ SegmentsAccounted'
        BY <1>1, <1>4, <1>6 DEF PipelineInv, WorkersStopped, EpochsAccounted, SegmentsAccounted
    <1>9. DirectoriesExist'
        BY <1>1, <1>2, <1>3 DEF PipelineInv, DirectoriesExist, ListedSegmentsExist, SegsOf
    <1>10. QED
        BY <1>7, <1>8, <1>9 DEF PipelineInv

\* The publisher writes the manifest: its epoch is no longer pending, its segment is listed.
LEMMA PipelinePublish ==
    ASSUME TypeOK, RecoveryInv, PipelineInv, PublishManifest PROVE PipelineInv'
    <1>1. PICK w \in publisher : /\ ~w.published /\ w.gen \in manifest.pending
                                 /\ manifest' = PublishedManifest(w)
                                 /\ publisher' = {[w EXCEPT !.published = TRUE]}
        BY DEF PublishManifest
    <1> DEFINE u == [w EXCEPT !.published = TRUE]
    <1>2. /\ UNCHANGED <<segDirs, activeGen, imm, segs, nextSeg, workQ, built, worker, events,
                         inflight, compact, status, task>>
          /\ status # "closed"
        BY DEF PublishManifest, memVars, compVars, ctlVars, RecoveryInv, ClosedIsEmpty
    <1>3. u.gen = w.gen /\ u.seg = w.seg /\ u.published = TRUE /\ publisher = {w}
        BY <1>1 DEF TypeOK, FlushTypeOK, PublishJobs, PipelineInv, WorkersStopped
    <1>4. /\ manifest'.pending = manifest.pending \ {w.gen} /\ manifest'.active = manifest.active
          /\ manifest'.segments.ids = manifest.segments.ids \cup {w.seg}
        <2>1. PublishedManifest(w).segments.ids = manifest.segments.ids \cup {w.seg}
            BY DEF PublishedManifest, PushBack, TypeOK, DiskTypeOK, Manifests
        <2>2. QED
            BY <1>1, <2>1, ManifestFields
    <1> HIDE DEF u
    <1>5. /\ Items(workQ)' = Items(workQ) /\ Items(built)' = Items(built) /\ Adopting' = Adopting
          /\ publisher' = {u}
          /\ Unpublished = Items(workQ) \cup Items(built) \cup {w}
          /\ Unpublished' = Items(workQ) \cup Items(built)
          /\ Published = Adopting /\ Published' = Adopting \cup {u}
        BY <1>1, <1>2, <1>3 DEF Unpublished, Published, Adopting, Items, u
    <1>6. /\ \A a \in Items(workQ) \cup Items(built) : w.gen < a.gen /\ w.seg < a.seg
          /\ \A a \in Adopting : a.gen < w.gen /\ a.seg < w.seg
          /\ \A a \in Items(workQ) \cup Items(built) \cup Adopting \cup {w} : a.gen \in Nat /\ a.seg \in Nat
        BY <1>3, JobTypes DEF PipelineInv, JobsInOrder, Ahead, Adopting
    <1>7. JobsInOrder'
        BY <1>2, <1>3, <1>5, <1>6 DEF PipelineInv, JobsInOrder, Ahead
    <1>8. WorkersStopped'
        BY <1>2, <1>3, <1>5 DEF PipelineInv, WorkersStopped
    <1>9. EpochsAccounted'
        <2>1. /\ GensOf(Published') = GensOf(Published) \cup {w.gen}
              /\ GensOf(Unpublished') \subseteq GensOf(Unpublished)
              /\ GensOf(Unpublished' \cup Published') \subseteq GensOf(Unpublished \cup Published)
            BY <1>3, <1>5 DEF GensOf
        <2>2. GensOf(Unpublished') \subseteq manifest'.pending
            BY <1>4, <1>5, <1>6 DEF PipelineInv, EpochsAccounted, GensOf
        <2>3. GensOf(Published') \cap manifest'.pending = {}
              /\ imm.ids = manifest'.pending \cup GensOf(Published')
            BY <1>1, <1>2, <1>4, <2>1 DEF PipelineInv, EpochsAccounted
        <2>4. \A g \in manifest'.pending : g < manifest'.active
            BY <1>4 DEF PipelineInv, EpochsAccounted
        <2>5. task # "drain" => GensOf(Unpublished' \cup Published') \subseteq inflight
            BY <2>1 DEF PipelineInv, EpochsAccounted
        <2>6. QED
            BY <1>2, <2>2, <2>3, <2>4, <2>5 DEF PipelineInv, EpochsAccounted
    <1>10. w.seg < nextSeg /\ w.seg \notin manifest.segments.ids
        BY <1>5 DEF PipelineInv, SegmentsAccounted, SegsOf
    <1>11. SegmentsAccounted'
        <2>1. SegsOf(Published') = SegsOf(Published) \cup {w.seg} /\ SegsOf(Unpublished') \subseteq SegsOf(Unpublished)
              /\ w.seg \in SegsOf(Unpublished)
            BY <1>3, <1>5 DEF SegsOf
        <2>2. \A x \in SegsOf(Unpublished') : x # w.seg
            BY <1>5, <1>6 DEF SegsOf
        <2>3. QED
            BY <1>2, <1>4, <1>10, <2>1, <2>2 DEF PipelineInv, SegmentsAccounted
    <1>12. DirectoriesExist'
        BY <1>1, <1>2, <1>3, <1>4, <1>5 DEF PipelineInv, DirectoriesExist, ListedSegmentsExist, SegsOf
    <1>13. QED
        BY <1>7, <1>8, <1>9, <1>11, <1>12 DEF PipelineInv

\* A failed publish: the manifest is as it was and the job is dropped.
LEMMA PipelinePublishFails ==
    ASSUME TypeOK, RecoveryInv, PipelineInv, PublishFails PROVE PipelineInv'
    <1>1. PICK w \in publisher : /\ ~w.published /\ manifest' = manifest
                                 /\ events' = Append(events, [kind |-> "failed", gen |-> w.gen, seg |-> w.seg])
        BY DEF PublishFails, PipelineInv
    <1> DEFINE e == [kind |-> "failed", gen |-> w.gen, seg |-> w.seg]
    <1>2. /\ UNCHANGED <<segDirs, activeGen, imm, segs, nextSeg, workQ, built, inflight, compact, status, task>>
          /\ publisher' = {} /\ worker' = "cancelled"
        BY DEF PublishFails, memVars, compVars, ctlVars
    <1>3. e \in FlushEvents /\ e.kind = "failed"
        BY <1>1 DEF TypeOK, FlushTypeOK, PublishJobs, FlushEvents
    <1>4. AdoptsAscending(events') /\ Adopting' = Adopting
        BY <1>1, <1>3, FailureSent DEF PipelineInv
    <1>5. publisher = {w}
        BY <1>1 DEF PipelineInv, WorkersStopped
    <1> HIDE DEF e
    <1>6. /\ Items(workQ)' = Items(workQ) /\ Items(built)' = Items(built)
          /\ Unpublished' \subseteq Unpublished /\ Published' = Published
        BY <1>1, <1>2, <1>4, <1>5 DEF Unpublished, Published, Items
    <1>7. task # "drain" \/ worker # "none" => task # "drain"
        BY DEF PipelineInv, WorkersStopped
    <1>8. worker # "none"
        BY <1>5 DEF PipelineInv, WorkersStopped
    <1>9. JobsInOrder' /\ WorkersStopped'
        BY <1>2, <1>4, <1>6, <1>7, <1>8 DEF PipelineInv, JobsInOrder, WorkersStopped
    <1>10. EpochsAccounted' /\ SegmentsAccounted' /\ DirectoriesExist'
        BY <1>1, <1>2, <1>6 DEF PipelineInv, EpochsAccounted, SegmentsAccounted,
                                DirectoriesExist, ListedSegmentsExist, GensOf, SegsOf
    <1>11. QED
        BY <1>9, <1>10 DEF PipelineInv

\* The adoption is announced.
LEMMA PipelineRetire ==
    ASSUME TypeOK, RecoveryInv, PipelineInv, RetireWal PROVE PipelineInv'
    <1>1. PICK w \in publisher : /\ w.published
                                 /\ events' = Append(events, [kind |-> "adopt", gen |-> w.gen, seg |-> w.seg])
        BY DEF RetireWal
    <1> DEFINE e == [kind |-> "adopt", gen |-> w.gen, seg |-> w.seg]
    <1>2. /\ UNCHANGED <<manifest, segDirs, activeGen, imm, segs, nextSeg, workQ, built, worker, inflight,
                         compact, status, task>>
          /\ publisher' = {}
        BY DEF RetireWal, memVars, compVars, ctlVars
    <1>3. e \in FlushEvents /\ e.kind = "adopt" /\ e.gen = w.gen /\ e.seg = w.seg
        BY <1>1 DEF TypeOK, FlushTypeOK, PublishJobs, FlushEvents
    <1>4. Items(events') = Items(events) \cup {e}
        BY <1>1, <1>3, ItemsAppend DEF TypeOK, FlushTypeOK
    <1>5. publisher = {w}
        BY <1>1 DEF PipelineInv, WorkersStopped
    <1>6. AdoptsAscending(events')
        <2>1. \A y \in Items(events) : y.kind = "adopt" => Ahead(y, e)
            BY <1>3, <1>5 DEF PipelineInv, JobsInOrder, Adopting, Ahead
        <2>2. QED
            BY <1>1, <1>3, <2>1, AdoptsAppend DEF TypeOK, FlushTypeOK, PipelineInv, JobsInOrder
    <1> HIDE DEF e
    <1>7. /\ Items(workQ)' = Items(workQ) /\ Items(built)' = Items(built) /\ Adopting' = Adopting \cup {e}
          /\ Unpublished' = Unpublished /\ Published = Adopting \cup {w} /\ Published' = Adopting \cup {e}
        BY <1>1, <1>2, <1>3, <1>4, <1>5 DEF Unpublished, Published, Adopting, Items
    <1>8. /\ GensOf(Published') = GensOf(Published) /\ SegsOf(Published') = SegsOf(Published)
          /\ GensOf(Unpublished' \cup Published') = GensOf(Unpublished \cup Published)
        BY <1>3, <1>7 DEF GensOf, SegsOf
    <1>9. JobsInOrder'
        <2>1. \A y : Ahead(w, y) <=> Ahead(e, y)
            BY <1>3 DEF Ahead
        <2>2. QED
            BY <1>2, <1>5, <1>6, <1>7, <2>1 DEF PipelineInv, JobsInOrder
    <1>10. WorkersStopped' /\ EpochsAccounted' /\ SegmentsAccounted'
        BY <1>2, <1>7, <1>8 DEF PipelineInv, WorkersStopped, EpochsAccounted, SegmentsAccounted
    <1>11. DirectoriesExist'
        BY <1>2, <1>7 DEF PipelineInv, DirectoriesExist, ListedSegmentsExist, SegsOf
    <1>12. QED
        BY <1>9, <1>10, <1>11 DEF PipelineInv

\* The adoption at the head of the channel is due, and is not due a second time.
LEMMA AdoptionTaken ==
    ASSUME TypeOK, JobsInOrder, events # <<>>, Head(events).kind = "adopt", events' = Tail(events)
    PROVE  /\ Head(events) \in FlushEvents
           /\ Adopting = Adopting' \cup {Head(events)}
           /\ AdoptsAscending(events') /\ \A a \in Adopting' : Ahead(Head(events), a)
    <1>1. events \in Seq(FlushEvents)
        BY DEF TypeOK, FlushTypeOK
    <1>2. Items(events) = Items(events') \cup {Head(events)}
        BY <1>1, ItemsTail
    <1>3. AdoptsAscending(events')
          /\ \A y \in Items(events') : y.kind = "adopt" => Ahead(Head(events), y)
        BY <1>1, AdoptsTail DEF JobsInOrder
    <1>4. QED
        BY <1>1, <1>2, <1>3, Queues DEF Adopting

\* maybe_schedule_bg_compact takes a new segment id, or leaves things as they are.
LEMMA ScheduleKeeps ==
    ASSUME TypeOK, NEW n, NEW t, MaybeScheduleCompact(n, t)
    PROVE  /\ nextSeg' \in {nextSeg, nextSeg + 1}
           /\ \A c \in compact' : /\ c.out = nextSeg /\ nextSeg' = nextSeg + 1 /\ c.inputs = t
                                  /\ c.phase = "running"
                                  /\ \A d \in compact' : c = d
    BY DEF MaybeScheduleCompact

\* process_bg_flush_event, Adopt: the published job leaves the pipeline, its segment is the
\* newest reader and its epoch is gone.
LEMMA PipelineAdopt ==
    ASSUME TypeOK, RecoveryInv, PipelineInv, AdoptFlush PROVE PipelineInv'
    <1> DEFINE e == Head(events)
    <1>1. /\ status # "closed" /\ task \in {"idle", "drain"} /\ events # <<>> /\ e.kind = "adopt"
          /\ segs' = PushFront(segs, e.seg) /\ imm' = Without(imm, {e.gen})
          /\ inflight' = inflight \ {e.gen} /\ events' = Tail(events) /\ task' = EventTask
          /\ UNCHANGED <<manifest, segDirs, activeGen, worker, workQ, built, publisher, status>>
        BY DEF AdoptFlush, diskVars
    <1>2. /\ e \in FlushEvents /\ Adopting = Adopting' \cup {e}
          /\ AdoptsAscending(events') /\ \A a \in Adopting' : Ahead(e, a)
        BY <1>1, AdoptionTaken DEF PipelineInv
    <1>3. CASE \/ compact = {} /\ MaybeScheduleCompact(flushCount + 1, segs')
               \/ UNCHANGED <<compact, nextSeg>>
        <2> HIDE DEF e
        <2>1. /\ Items(workQ)' = Items(workQ) /\ Items(built)' = Items(built)
              /\ Unpublished' = Unpublished /\ Published = Published' \cup {e}
            BY <1>1, <1>2 DEF Unpublished, Published, Items
        <2>2. \A a \in Published' \cup Unpublished : Ahead(e, a) /\ a.gen \in Nat /\ a.seg \in Nat
            <3>1. \A a \in publisher \cup Items(built) \cup Items(workQ) : Ahead(e, a)
                BY <1>2 DEF PipelineInv, JobsInOrder
            <3>2. Published' \cup Unpublished \subseteq Adopting' \cup publisher \cup Items(built) \cup Items(workQ)
                BY <1>1 DEF Published, Unpublished
            <3>3. Adopting' \subseteq Items(events)
                BY <1>2 DEF Adopting
            <3>4. QED
                BY <1>2, <3>1, <3>2, <3>3, JobTypes
        <2>3. e.gen \in Nat /\ e.seg \in Nat
            BY <1>2, JobTypes DEF Adopting
        <2>4. JobsInOrder'
            BY <1>1, <1>2, <2>1 DEF PipelineInv, JobsInOrder
        <2>5. task' = "drain" => task = "drain"
            BY <1>1 DEF EventTask
        <2>6. WorkersStopped'
            BY <1>1, <2>5 DEF PipelineInv, WorkersStopped
        <2>7. task # "drain" \/ task' = "drain" \/ (Unpublished' = {} /\ Published' = {})
            <3>1. ASSUME task = "drain", task' # "drain"
                  PROVE  Unpublished' = {} /\ Published' = {}
                <4>1. Len(events) \in Nat /\ Len(events) >= 1 /\ ~(Len(events) > 1) /\ Len(events') = Len(events) - 1
                    BY <1>1, <3>1, ItemsTail DEF EventTask, TypeOK, FlushTypeOK
                <4>2. Items(events') = {}
                    BY <4>1 DEF Items
                <4>3. publisher = {} /\ workQ = <<>> /\ built = <<>>
                    BY <3>1 DEF PipelineInv, WorkersStopped
                <4>4. Items(<<>>) = {}
                    BY DEF Items
                <4>5. QED
                    BY <1>1, <4>2, <4>3, <4>4 DEF Unpublished, Published, Adopting
            <3>2. QED
                BY <3>1
        <2>8. GensOf(Published) = GensOf(Published') \cup {e.gen} /\ SegsOf(Published) = SegsOf(Published') \cup {e.seg}
              /\ e.gen \notin GensOf(Published') /\ e.seg \notin SegsOf(Published')
              /\ e.gen \notin GensOf(Unpublished) /\ e.seg \notin SegsOf(Unpublished)
            BY <2>1, <2>2, <2>3 DEF GensOf, SegsOf, Ahead
        <2>9. EpochsAccounted'
            <3>1. imm'.ids = imm.ids \ {e.gen}
                  /\ imm'.before = {p \in imm.before : p[1] # e.gen /\ p[2] # e.gen}
                BY <1>1 DEF Without
            <3>2. imm'.before = {p \in imm'.ids \X imm'.ids : p[1] > p[2]}
                BY <1>1, <3>1 DEF PipelineInv, EpochsAccounted
            <3>3. e.gen \notin manifest.pending /\ e.gen \in GensOf(Published)
                BY <2>8 DEF PipelineInv, EpochsAccounted
            <3>4. imm'.ids = manifest.pending \cup GensOf(Published')
                <4>1. imm.ids = manifest.pending \cup GensOf(Published)
                    BY <1>1 DEF PipelineInv, EpochsAccounted
                <4>2. QED
                    BY <2>8, <3>1, <3>3, <4>1
            <3>5. task' # "drain" => GensOf(Unpublished' \cup Published') \subseteq inflight'
                <4>1. CASE task # "drain"
                    BY <1>1, <2>1, <2>8, <4>1 DEF PipelineInv, EpochsAccounted, GensOf
                <4>2. CASE Unpublished' = {} /\ Published' = {}
                    BY <4>2 DEF GensOf
                <4>3. QED
                    BY <2>7, <4>1, <4>2
            <3>6. \A g \in imm'.ids : g < activeGen'
                BY <1>1, <3>1 DEF PipelineInv, EpochsAccounted
            <3>7. inflight' \subseteq imm'.ids
                  /\ \A g \in inflight' : \A h \in imm'.ids : h < g => h \in inflight'
                BY <1>1, <3>1 DEF PipelineInv, EpochsAccounted
            <3>8. GensOf(Published') \cap manifest.pending = {} /\ GensOf(Unpublished') \subseteq manifest.pending
                BY <2>1, <2>8 DEF PipelineInv, EpochsAccounted
            <3>9. QED
                BY <1>1, <3>2, <3>4, <3>5, <3>6, <3>7, <3>8 DEF PipelineInv, EpochsAccounted
        <2>10. SegmentsAccounted' /\ DirectoriesExist'
            <3>1. segs'.ids = segs.ids \cup {e.seg}
                BY <1>1 DEF PushFront
            <3>2. manifest.segments.ids = segs'.ids \cup SegsOf(Published') /\ segs'.ids \cap SegsOf(Published') = {}
                BY <1>1, <2>8, <3>1 DEF PipelineInv, SegmentsAccounted
            <3>3. nextSeg' \in {nextSeg, nextSeg + 1} /\ nextSeg \in Nat
                BY <1>3, ScheduleKeeps, JobTypes
            <3>4. \A x \in manifest.segments.ids \cup SegsOf(Unpublished) : x \in Nat /\ x < nextSeg
                BY <1>1, <2>2, JobTypes DEF PipelineInv, SegmentsAccounted, SegsOf
            <3>5. \A x \in manifest.segments.ids \cup SegsOf(Unpublished) : x < nextSeg' /\ x # nextSeg
                BY <3>3, <3>4
            <3>6. \A c \in compact' :
                      /\ c.out < nextSeg' /\ c.out \notin manifest.segments.ids \cup SegsOf(Unpublished)
                      /\ c.inputs.ids \subseteq segs'.ids
                      /\ c.phase = "built" => c.out \in segDirs
                      /\ \A d \in compact' : c = d
                <4>1. CASE UNCHANGED <<compact, nextSeg>>
                    BY <3>1, <4>1 DEF PipelineInv, SegmentsAccounted, DirectoriesExist
                <4>2. CASE compact = {} /\ MaybeScheduleCompact(flushCount + 1, segs')
                    BY <3>3, <3>5, <4>2, ScheduleKeeps
                <4>3. QED
                    BY <1>3, <4>1, <4>2
            <3>7. QED
                BY <1>1, <2>1, <3>2, <3>5, <3>6
                DEF PipelineInv, SegmentsAccounted, DirectoriesExist, ListedSegmentsExist
        <2>11. QED
            BY <2>4, <2>6, <2>9, <2>10 DEF PipelineInv
    <1>4. QED
        BY <1>3 DEF AdoptFlush

\* process_bg_flush_event, Failed: everything in flight is taken back, and what is already
\* published is adopted before anything is enqueued again.
LEMMA PipelineFailed ==
    ASSUME TypeOK, RecoveryInv, PipelineInv, FlushFailed PROVE PipelineInv'
    <1>1. /\ status # "closed" /\ publisher = {} /\ events # <<>> /\ Head(events).kind = "failed"
          /\ worker' = "none" /\ workQ' = <<>> /\ built' = <<>> /\ inflight' = {}
          /\ events' = Tail(events) /\ task' = IF Len(events) > 1 THEN "drain" ELSE "idle"
          /\ UNCHANGED <<manifest, segDirs, activeGen, imm, segs, nextSeg, publisher, compact, status>>
        BY DEF FlushFailed, diskVars, memVars, compVars
    <1>2. events \in Seq(FlushEvents)
        BY DEF TypeOK, FlushTypeOK
    <1>3. /\ Items(events) = Items(events') \cup {Head(events)} /\ AdoptsAscending(events')
          /\ Len(events) \in Nat /\ Len(events) >= 1 /\ Len(events') = Len(events) - 1
        BY <1>1, <1>2, ItemsTail, AdoptsTail DEF PipelineInv, JobsInOrder
    <1>4. Adopting' = Adopting /\ Items(<<>>) = {} /\ Len(<<>>) = 0
        BY <1>1, <1>3 DEF Adopting, Items
    <1>5. Unpublished' = {} /\ Published' = Published
        BY <1>1, <1>4 DEF Unpublished, Published
    <1>6. task' # "drain" => Published' = {}
        <2>1. task' # "drain" => Items(events') = {}
            BY <1>1, <1>3 DEF Items
        <2>2. QED
            BY <1>1, <2>1 DEF Published, Adopting
    <1>7. JobsInOrder' /\ WorkersStopped'
        BY <1>1, <1>3, <1>4 DEF JobsInOrder, WorkersStopped, Ascending
    <1>8. EpochsAccounted'
        <2>1. task' # "drain" => GensOf(Unpublished' \cup Published') = {}
            BY <1>5, <1>6 DEF GensOf
        <2>2. GensOf(Unpublished') = {} /\ GensOf(Published') = GensOf(Published)
            BY <1>5 DEF GensOf
        <2>3. QED
            BY <1>1, <2>1, <2>2 DEF PipelineInv, EpochsAccounted
    <1>9. SegmentsAccounted' /\ DirectoriesExist'
        BY <1>1, <1>4, <1>5 DEF PipelineInv, SegmentsAccounted, DirectoriesExist, ListedSegmentsExist, SegsOf
    <1>10. QED
        BY <1>7, <1>8, <1>9 DEF PipelineInv

\* A step that leaves the flush pipeline and the epochs alone and changes segments only.
LEMMA PipelineSegments ==
    ASSUME PipelineInv, manifest'.pending = manifest.pending, manifest'.active = manifest.active,
           UNCHANGED <<activeGen, imm, inflight, worker, workQ, built, events, publisher, status, task>>,
           SegmentsAccounted', DirectoriesExist'
    PROVE  PipelineInv'
    <1>1. /\ Unpublished' = Unpublished /\ Published' = Published /\ Adopting' = Adopting
          /\ Items(workQ)' = Items(workQ) /\ Items(built)' = Items(built)
        BY DEF Unpublished, Published, Adopting, Items
    <1>2. JobsInOrder' /\ WorkersStopped'
        BY <1>1 DEF PipelineInv, JobsInOrder, WorkersStopped, Ascending, AdoptsAscending
    <1>3. EpochsAccounted'
        BY <1>1 DEF PipelineInv, EpochsAccounted, GensOf
    <1>4. QED
        BY <1>2, <1>3 DEF PipelineInv

\* The compaction worker's end, in success or failure.
LEMMA PipelineCompactBuild ==
    ASSUME TypeOK, RecoveryInv, PipelineInv, CompactBuild \/ CompactBuildFails PROVE PipelineInv'
    <1>1. PICK c \in compact, ph \in {"built", "failed"} :
              /\ compact' = {[c EXCEPT !.phase = ph]}
              /\ segDirs \subseteq segDirs' /\ (ph = "built" => c.out \in segDirs')
        BY DEF CompactBuild, CompactBuildFails, diskVars
    <1>2. UNCHANGED <<manifest, activeGen, imm, inflight, segs, nextSeg, worker, workQ, built, events,
                      publisher, status, task>>
        BY DEF CompactBuild, CompactBuildFails, diskVars, memVars, flushVars, ctlVars
    <1>3. /\ Unpublished' = Unpublished /\ Published' = Published /\ Items(built)' = Items(built)
        BY <1>2 DEF Unpublished, Published, Adopting, Items
    <1>4. \A d \in compact' : /\ d.out = c.out /\ d.inputs = c.inputs /\ d.phase = ph
                              /\ \A f \in compact' : d = f
        BY <1>1 DEF TypeOK, CompactTypeOK, Compactions
    <1>5. SegmentsAccounted'
        BY <1>2, <1>3, <1>4 DEF PipelineInv, SegmentsAccounted
    <1>6. DirectoriesExist'
        BY <1>1, <1>2, <1>3, <1>4 DEF PipelineInv, DirectoriesExist, ListedSegmentsExist
    <1>7. QED
        BY <1>2, <1>5, <1>6, PipelineSegments

\* What a compaction does to the lists of ids.
LEMMA ReplacedIds ==
    ASSUME TypeOK, NEW t, NEW out
    PROVE  /\ CompactedManifest(t, out).segments = ReplaceInputs(manifest.segments, t, out)
           /\ \A l : ReplaceInputs(l, t, out).ids = (l.ids \ t.ids) \cup {out}
    BY DEF CompactedManifest, ReplaceInputs, PushBack, Without, TypeOK, DiskTypeOK, Manifests

\* apply_bg_compact_result: the output takes the place of the inputs in both lists.
LEMMA PipelineApply ==
    ASSUME TypeOK, RecoveryInv, PipelineInv, ApplyCompact PROVE PipelineInv'
    <1>1. PICK c \in compact : /\ c.phase = "built" /\ c.inputs.ids \subseteq manifest.segments.ids
                               /\ manifest' = CompactedManifest(c.inputs, c.out)
                               /\ segs' = ReplaceInputs(segs, c.inputs, c.out)
                               /\ RemoveInputs(c.inputs, segDirs)
        BY DEF ApplyCompact
    <1>2. /\ status # "closed"
          /\ UNCHANGED <<activeGen, imm, inflight, worker, workQ, built, events, publisher, status, task>>
          /\ MaybeScheduleCompact(flushCount, segs')
        BY DEF ApplyCompact, memVars, flushVars, ctlVars
    <1>3. /\ manifest'.pending = manifest.pending /\ manifest'.active = manifest.active
          /\ manifest'.segments.ids = (manifest.segments.ids \ c.inputs.ids) \cup {c.out}
          /\ segs'.ids = (segs.ids \ c.inputs.ids) \cup {c.out}
        BY <1>1, ManifestFields, ReplacedIds
    <1>4. /\ Unpublished' = Unpublished /\ Published' = Published /\ Items(built)' = Items(built)
          /\ publisher' = publisher
        BY <1>2 DEF Unpublished, Published, Adopting, Items
    <1>5. /\ c.out < nextSeg /\ c.out \notin manifest.segments.ids \cup SegsOf(Unpublished)
          /\ c.inputs.ids \subseteq segs.ids /\ c.out \in segDirs /\ c.out \in Nat
        BY <1>1, ConstantsAssumption DEF PipelineInv, SegmentsAccounted, DirectoriesExist, TypeOK,
                                         CompactTypeOK, Compactions, SegIds
    <1>6. nextSeg' \in {nextSeg, nextSeg + 1} /\ nextSeg \in Nat
        BY <1>2, ScheduleKeeps, JobTypes
    <1>7. \A x \in manifest'.segments.ids \cup SegsOf(Unpublished) : x < nextSeg' /\ x # nextSeg
        <2>1. \A x \in SegsOf(Unpublished) : x \in Nat
            BY JobTypes DEF SegsOf, Unpublished
        <2>2. QED
            BY <1>2, <1>3, <1>5, <1>6, <2>1, JobTypes DEF PipelineInv, SegmentsAccounted
    <1>8. SegmentsAccounted'
        <2>1. manifest'.segments.ids = segs'.ids \cup SegsOf(Published)
              /\ segs'.ids \cap SegsOf(Published) = {}
            BY <1>2, <1>3, <1>5 DEF PipelineInv, SegmentsAccounted
        <2>2. \A x \in SegsOf(Unpublished) : x \notin manifest'.segments.ids
            BY <1>3, <1>5 DEF PipelineInv, SegmentsAccounted
        <2>3. \A d \in compact' : /\ d.out < nextSeg' /\ d.out \notin manifest'.segments.ids \cup SegsOf(Unpublished)
                                  /\ d.inputs.ids \subseteq segs'.ids
                                  /\ \A f \in compact' : d = f
            BY <1>2, <1>6, <1>7, ScheduleKeeps
        <2>4. QED
            BY <1>4, <1>7, <2>1, <2>2, <2>3 DEF SegmentsAccounted
    <1>9. DirectoriesExist'
        <2>1. segDirs \ c.inputs.ids \subseteq segDirs'
            BY <1>1 DEF RemoveInputs
        <2>2. c.out \in segDirs'
            BY <1>1, <1>5, <2>1
        <2>3. SegsOf(Items(built) \cup {w \in publisher : ~w.published}) \cap c.inputs.ids = {}
            BY <1>1 DEF PipelineInv, SegmentsAccounted, SegsOf, Unpublished
        <2>4. \A d \in compact' : d.phase # "built"
            BY <1>2, ScheduleKeeps
        <2>5. QED
            BY <1>3, <1>4, <2>1, <2>2, <2>3, <2>4 DEF PipelineInv, DirectoriesExist, ListedSegmentsExist
    <1>10. QED
        BY <1>2, <1>3, <1>8, <1>9, PipelineSegments

\* A background compaction that is given up: only the directory of its output goes.
LEMMA PipelineApplyFails ==
    ASSUME TypeOK, RecoveryInv, PipelineInv, ApplyCompactFails PROVE PipelineInv'
    <1>1. PICK c \in compact : segDirs' = segDirs \ {c.out} /\ manifest' = manifest
        BY DEF ApplyCompactFails, PipelineInv
    <1>2. /\ compact' = {}
          /\ UNCHANGED <<activeGen, imm, inflight, segs, nextSeg, worker, workQ, built, events, publisher,
                         status, task>>
        BY DEF ApplyCompactFails, memVars, flushVars, ctlVars
    <1>3. /\ Unpublished' = Unpublished /\ Published' = Published /\ Items(built)' = Items(built)
        BY <1>2 DEF Unpublished, Published, Adopting, Items
    <1>4. SegmentsAccounted'
        BY <1>1, <1>2, <1>3 DEF PipelineInv, SegmentsAccounted
    <1>5. DirectoriesExist'
        <2>1. c.out \notin manifest.segments.ids /\ c.out \notin SegsOf(Unpublished)
            BY DEF PipelineInv, SegmentsAccounted
        <2>2. SegsOf(Items(built) \cup {w \in publisher : ~w.published}) \subseteq SegsOf(Unpublished)
            BY DEF SegsOf, Unpublished
        <2>3. QED
            BY <1>1, <1>2, <1>3, <2>1, <2>2 DEF PipelineInv, DirectoriesExist, ListedSegmentsExist
    <1>6. QED
        BY <1>1, <1>2, <1>4, <1>5, PipelineSegments

\* compact() runs when nothing is in the pipeline.
LEMMA QuietPipeline ==
    ASSUME TypeOK, RecoveryInv, PipelineInv, CompactEnabled
    PROVE  /\ status # "closed" /\ Unpublished = {} /\ Published = {} /\ compact = {}
           /\ manifest.segments.ids = segs.ids /\ nextSeg \notin segs.ids /\ nextSeg \notin manifest.segments.ids
    <1>1. status # "closed" /\ task # "drain" /\ imm.ids = {} /\ compact = {}
        BY DEF CompactEnabled, CoordinatorFree
    <1>2. GensOf(Unpublished \cup Published) = {}
        BY <1>1 DEF PipelineInv, EpochsAccounted
    <1>3. Unpublished = {} /\ Published = {}
        BY <1>2 DEF GensOf
    <1>4. SegsOf(Published) = {}
        BY <1>3 DEF SegsOf
    <1>5. manifest.segments.ids = segs.ids /\ \A x \in manifest.segments.ids : x < nextSeg
        BY <1>1, <1>4 DEF PipelineInv, SegmentsAccounted
    <1>6. ~(nextSeg < nextSeg)
        BY JobTypes
    <1>7. QED
        BY <1>1, <1>3, <1>5, <1>6

\* compact() and its failures.
LEMMA PipelineCompact ==
    ASSUME TypeOK, RecoveryInv, PipelineInv, Compact \/ CompactFails PROVE PipelineInv'
    <1>1. /\ CompactEnabled
          /\ UNCHANGED <<activeGen, imm, inflight, worker, workQ, built, events, publisher, status, task, compact>>
        BY DEF Compact, CompactFails, memVars, flushVars, ctlVars
    <1>2. /\ status # "closed" /\ Unpublished = {} /\ Published = {} /\ compact = {}
          /\ manifest.segments.ids = segs.ids /\ nextSeg \notin segs.ids
        BY <1>1, QuietPipeline
    <1>3. /\ Unpublished' = {} /\ Published' = {} /\ Items(built)' = Items(built) /\ Items(built) = {}
          /\ publisher' = publisher /\ {w \in publisher : ~w.published} = {}
        <2>1. /\ Unpublished' = Unpublished /\ Published' = Published /\ Items(built)' = Items(built)
              /\ publisher' = publisher
            BY <1>1 DEF Unpublished, Published, Adopting, Items
        <2>2. Items(built) = {} /\ {w \in publisher : ~w.published} = {}
            BY <1>2 DEF Unpublished
        <2>3. QED
            BY <1>2, <2>1, <2>2
    <1>4. nextSeg \in Nat /\ \A x \in segs.ids : x \in Nat /\ x < nextSeg
        BY <1>2, JobTypes DEF PipelineInv, SegmentsAccounted
    <1>5. CASE Compact
        <2>1. /\ manifest' = CompactedManifest(segs, nextSeg) /\ segs' = [ids |-> {nextSeg}, before |-> {}]
              /\ nextSeg' = nextSeg + 1 /\ segDirs' \in {segDirs \cup {nextSeg}, (segDirs \cup {nextSeg}) \ segs.ids}
            BY <1>5 DEF Compact, RemoveInputs
        <2>2. /\ manifest'.pending = manifest.pending /\ manifest'.active = manifest.active
              /\ manifest'.segments.ids = {nextSeg} /\ segs'.ids = {nextSeg}
            BY <1>2, <2>1, ManifestFields, ReplacedIds
        <2>3. SegmentsAccounted' /\ DirectoriesExist'
            BY <1>1, <1>2, <1>3, <1>4, <2>1, <2>2
            DEF SegmentsAccounted, DirectoriesExist, ListedSegmentsExist, SegsOf
        <2>4. QED
            BY <1>1, <2>2, <2>3, PipelineSegments
    <1>6. CASE CompactFails
        <2>1. /\ manifest' = manifest /\ segs' = segs /\ nextSeg' \in {nextSeg, nextSeg + 1}
              /\ segDirs \subseteq segDirs'
            BY <1>6 DEF CompactFails, PipelineInv
        <2>2. SegmentsAccounted' /\ DirectoriesExist'
            BY <1>1, <1>2, <1>3, <1>4, <2>1
            DEF PipelineInv, SegmentsAccounted, DirectoriesExist, ListedSegmentsExist, SegsOf
        <2>3. QED
            BY <1>1, <2>1, <2>2, PipelineSegments
    <1>7. QED
        BY <1>5, <1>6

\* close_fast() stops the workers; what they hold stays in the channels.
LEMMA PipelineCloseFast ==
    ASSUME TypeOK, RecoveryInv, PipelineInv, CloseFast PROVE PipelineInv'
    <1>1. /\ status # "closed" /\ status' # "closed" /\ compact' = {} /\ (worker' = "none" => worker = "none")
          /\ task = "idle" /\ task' = task
          /\ UNCHANGED <<manifest, segDirs, activeGen, imm, inflight, segs, nextSeg, workQ, built, events, publisher>>
        BY DEF CloseFast, MayClose, CoordinatorFree, diskVars, memVars
    <1>2. /\ Unpublished' = Unpublished /\ Published' = Published /\ Adopting' = Adopting
          /\ Items(workQ)' = Items(workQ) /\ Items(built)' = Items(built)
        BY <1>1 DEF Unpublished, Published, Adopting, Items
    <1>3. JobsInOrder'
        BY <1>1, <1>2 DEF PipelineInv, JobsInOrder
    <1>4. WorkersStopped'
        BY <1>1 DEF PipelineInv, WorkersStopped
    <1>5. EpochsAccounted'
        BY <1>1, <1>2 DEF PipelineInv, EpochsAccounted
    <1>6. SegmentsAccounted' /\ DirectoriesExist'
        BY <1>1, <1>2 DEF PipelineInv, SegmentsAccounted, DirectoriesExist, ListedSegmentsExist
    <1>7. QED
        BY <1>3, <1>4, <1>5, <1>6 DEF PipelineInv

\* A new directory.
LEMMA PipelineInit == ~LateFaults /\ Init => PipelineInv
    <1> SUFFICES ASSUME ~LateFaults, Init PROVE PipelineInv
        OBVIOUS
    <1>1. /\ status = "closed" /\ task = "idle" /\ worker = "none" /\ workQ = <<>> /\ built = <<>>
          /\ events = <<>> /\ publisher = {} /\ inflight = {} /\ compact = {}
          /\ manifest.pending = {} /\ manifest.segments.ids = {}
        BY DEF Init, EmptyIds
    <1>2. Items(<<>>) = {} /\ Len(<<>>) = 0
        BY DEF Items
    <1>3. Unpublished = {} /\ Published = {} /\ Adopting = {} /\ Items(built) = {}
        BY <1>1, <1>2 DEF Unpublished, Published, Adopting
    <1>4. JobsInOrder /\ WorkersStopped
        BY <1>1, <1>2, <1>3 DEF JobsInOrder, WorkersStopped, Ascending, AdoptsAscending
    <1>5. EpochsAccounted /\ SegmentsAccounted /\ DirectoriesExist
        BY <1>1, <1>3 DEF EpochsAccounted, SegmentsAccounted, DirectoriesExist, ListedSegmentsExist,
                          GensOf, SegsOf
    <1>6. QED
        BY <1>4, <1>5 DEF PipelineInv

\* One step of any thread.
LEMMA PipelineStep ==
    ASSUME TypeOK, RecoveryInv, PipelineInv, [Next]_vars PROVE PipelineInv'
    <1>1. CASE Open
        BY <1>1, PipelineOpen
    <1>2. CASE ClientStep
        BY <1>2, PipelineWrite, PipelineBarriers, PipelineCompact, PipelineCloseFast, PipelineAlone
        DEF ClientStep
    <1>3. CASE CoordinatorStep
        BY <1>3, PipelineBarriers, PipelineAlone, PipelineEnqueue, PipelineAdopt, PipelineFailed,
           PipelineApply, PipelineApplyFails, PipelineEnds
        DEF CoordinatorStep
    <1>4. CASE WorkerStep
        BY <1>4, PipelineAlone, PipelineBuild, PipelineBuildFails, PipelineReceive, PipelinePublish,
           PipelinePublishFails, PipelineRetire, PipelineCompactBuild
        DEF WorkerStep
    <1>5. CASE Crash
        BY <1>5, PipelineEnds
    <1>6. CASE UNCHANGED vars
        BY <1>6, PipelineAlone
    <1>7. QED
        BY <1>1, <1>2, <1>3, <1>4, <1>5, <1>6 DEF Next

\* In every reachable state, whatever the options, the interleaving of coordinator, build
\* worker, publisher and compaction, the I/O errors and the crashes, as long as no manifest
\* write fails after its rename: the flush jobs are in the order of their epochs, the epochs
\* in memory are those the manifest calls pending or is done with, and the open segments are
\* those it lists or is about to.
THEOREM PipelineInductive == ~LateFaults /\ Spec => []PipelineInv
    <1>1. TypeOK /\ RecoveryInv /\ PipelineInv /\ [Next]_vars => PipelineInv'
        BY PipelineStep
    <1>2. QED
        BY <1>1, PipelineInit, TypeCorrect, RecoveryInductive, PTL DEF Spec

\* Every segment the manifest lists has its directory, so open() never skips one silently.
THEOREM NoSegmentLost == ~LateFaults /\ Spec => []ListedSegmentsExist
    <1>1. PipelineInv => ListedSegmentsExist
        BY DEF PipelineInv, DirectoriesExist
    <1>2. QED
        BY <1>1, PipelineInductive, PTL

\* Every epoch in memory is still pending in the manifest or about to be adopted, so a
\* flush that failed can be retried.
THEOREM FlushesCanBeRetried == ~LateFaults /\ Spec => []EpochsRetryable
    <1>1. ASSUME TypeOK, PipelineInv, status # "closed", NEW g \in imm.ids, g \notin manifest.pending
          PROVE  \/ \E w \in publisher : w.gen = g /\ w.published
                 \/ \E k \in 1..Len(events) : events[k].gen = g /\ events[k].kind = "adopt"
        <2>1. g \in GensOf(Published)
            BY <1>1 DEF PipelineInv, EpochsAccounted
        <2>2. PICK j \in Published : j.gen = g
            BY <2>1 DEF GensOf
        <2>3. QED
            BY <2>2 DEF Published, Adopting, Items
    <1>2. TypeOK /\ PipelineInv => EpochsRetryable
        BY <1>1 DEF EpochsRetryable
    <1>3. QED
        BY <1>2, PipelineInductive, TypeCorrect, PTL
=============================================================================
