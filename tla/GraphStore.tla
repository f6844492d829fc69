----------------------------- MODULE GraphStore -----------------------------
(***************************************************************************)
(* The graph above the LSM sources: how writes are planned against what    *)
(* the memtables and segments hold, how lookups by key, by triple and by   *)
(* adjacency merge the sources, and what freezing, flushing, compacting    *)
(* and pruning do to the graph a client sees.                              *)
(*                                                                         *)
(* Data: a source (memtable or segment) is a record of two functions, "n"  *)
(* from node ids and "e" from edge ids to slots; a slot is Absent, a       *)
(* tombstone or a live record.  A node has labels, a key and `low`, whether *)
(* it matches the registered prune policy; an edge has its endpoints and   *)
(* `valid`, whether is_edge_valid_at(now) holds; all edges have one label. *)
(* "d" of a source is its degree overlay, or a segment's degree sidecar.   *)
(* All operations of a commit carry one seq.  A write that returns an      *)
(* error or plans no operation is no step.                                 *)
(***************************************************************************)
EXTENDS Integers, Sequences, FiniteSets, SequencesExt

CONSTANTS
    Labels, Keys,   \* node labels and node keys
    MaxNode,        \* bound: node ids are 1..MaxNode
    MaxEdge,        \* bound: edge ids are 1..MaxEdge
    MaxSeq,         \* bound: commits and policy changes per history, a batch
                    \* or patch counting two
    MaxSources,     \* bound: frozen memtables and segments, one more while
                    \* a compaction runs
    Ends,           \* bound: the (from, to) pairs that clients connect
    Weights,        \* bound: the values of `low` that upsert_node writes
    MaxPatchParts   \* bound: entries of one graph_patch or batch

ASSUME GraphConstantsAssumption ==
    /\ Cardinality(Labels) > 1 /\ Keys # {}
    /\ MaxNode \in Nat \ 0..2 /\ MaxEdge \in Nat \ {0, 1}
    /\ Ends \subseteq (1..MaxNode) \X (1..MaxNode)
    /\ MaxSeq \in Nat /\ MaxSources \in Nat
    /\ MaxPatchParts \in Nat
    /\ Weights \subseteq BOOLEAN

NodeIds == 1..MaxNode
EdgeIds == 1..MaxEdge

VARIABLES
    active,     \* the active memtable
    frozen,     \* the immutable epochs' memtables, newest first
    segments,   \* the segments, newest first
    nextNode, nextEdge,
    seq,        \* commits so far
    extras,     \* bound: batches, patches and policy changes so far
    unique,     \* DbOptions::edge_uniqueness
    policy,     \* TRUE: a weight policy is registered
    job,        \* the background compaction: {} or {[n, out, policy]}
    dangled,    \* history: the nodes that were ever given an edge to a node
                \* that was not live
    pruned      \* history: the nodes that a compaction left out of its output
                \* though its inputs had them, for a prune policy

storeVars == <<active, frozen, segments>>
vars == <<active, frozen, segments, nextNode, nextEdge, seq, extras, unique,
          policy, job, dangled, pruned>>

-----------------------------------------------------------------------------
(* Slots and sources *)

Absent  == [kind |-> "absent"]
Dead    == [kind |-> "dead"]
NodeRecord(labels, key, low) ==
    [kind |-> "live", labels |-> labels, key |-> key, low |-> low]
EdgeRecord(from, to, valid) ==
    [kind |-> "live", from |-> from, to |-> to, valid |-> valid]

(* d is an Option: {} for a segment without a degree sidecar. *)
EmptySource == [n |-> [i \in NodeIds |-> Absent], e |-> [i \in EdgeIds |-> Absent],
                d |-> {[i \in NodeIds |-> <<0, 0>>]}]

IsLive(slot) == slot.kind = "live"
IsDead(slot) == slot.kind = "dead"

Op(on, id, slot) == [on |-> on, id |-> id, slot |-> slot]

(* Memtable::apply_op, once per operation of a commit: the last one wins. *)
Stamped(slot, s) == [x \in {"seq"} \union DOMAIN slot |-> IF x = "seq" THEN s ELSE slot[x]]
ApplyOp(source, op, s) == [source EXCEPT ![op.on][op.id] = Stamped(op.slot, s)]
ApplyLoop(source, ops, s) ==
    LET r[i \in 0..Len(ops)] == IF i = 0 THEN source ELSE ApplyOp(r[i - 1], ops[i], s) IN r
ApplyOps(source, ops, s) == ApplyLoop(source, ops, s)[Len(ops)]

Touches(slot, n) == IsLive(slot) /\ n \in {slot.from, slot.to}
OtherEnd(slot, n) == IF slot.from = n THEN slot.to ELSE slot.from

(* DegreeDelta as <<degree in both directions, temporal_edge_count>>.  An  *)
(* edge that is not valid now is a cache-bypass edge.                      *)
AddDelta(a, b) == <<a[1] + b[1], a[2] + b[2]>>
EdgeDelta(slot, n, sign) ==
    IF ~Touches(slot, n) THEN <<0, 0>>
    ELSE IF slot.valid THEN <<sign, 0>> ELSE <<0, sign>>

\* Mutant: the batch's own earlier operations on an edge are not its old state.
DegreeDeltasStale(ops, edges) ==
    LET step(d, op) ==
            IF op.on # "e" THEN d
            ELSE [n \in NodeIds |-> AddDelta(d[n], AddDelta(EdgeDelta(op.slot, n, 1),
                                                  EdgeDelta(edges[op.id], n, -1)))]
    IN  FoldLeft(step, [n \in NodeIds |-> <<0, 0>>], ops)

(* collect_degree_delta_for_op over a commit: each edge operation takes    *)
(* back what the edge's state before it contributed.  Node operations      *)
(* contribute nothing.                                                     *)
StageDelta(acc, op) ==
    IF op.on # "e" THEN acc
    ELSE [d |-> [n \in NodeIds |->
                    AddDelta(acc.d[n], AddDelta(EdgeDelta(op.slot, n, 1),
                                        EdgeDelta(acc.edges[op.id], n, -1)))],
          edges |-> [acc.edges EXCEPT ![op.id] = op.slot]]
DegreeLoop(ops, edges) ==
    LET r[i \in 0..Len(ops)] ==
            IF i = 0 THEN [d |-> [n \in NodeIds |-> <<0, 0>>], edges |-> edges]
            ELSE StageDelta(r[i - 1], ops[i])
    IN  r
DegreeDeltas(ops, edges) == DegreeLoop(ops, edges)[Len(ops)].d

(* apply_degree_deltas_to_active_overlay; the same sum folds sidecars. *)
SumLoop(ds, n) ==
    LET r[i \in 0..Len(ds)] == IF i = 0 THEN <<0, 0>> ELSE AddDelta(r[i - 1], ds[i][n]) IN r
SumOverlays(ds) == [n \in NodeIds |-> SumLoop(ds, n)[Len(ds)]]

(* append_and_apply_normalized: the memtable and its overlay.  edges are   *)
(* the newest edge states before it.                                       *)
AppendAndApply(source, ops, s, edges) ==
    [ApplyOps(source, ops, s) EXCEPT
        !.d = {SumOverlays(<<d, DegreeDeltas(ops, edges)>>) : d \in @}]

(* SourceList: the active memtable, the immutable epochs, the segments. *)
Sources == <<active>> \o frozen \o segments

(* The first source that has a record or a tombstone decides. *)
Opinion(srcs, on, id) ==
    LET held == {i \in DOMAIN srcs : srcs[i][on][id] # Absent}
    IN  IF held = {} THEN Absent ELSE srcs[Min(held)][on][id]

Newest(srcs, on) == [id \in DOMAIN srcs[1][on] |-> Opinion(srcs, on, id)]

LiveNodes(srcs) == {n \in NodeIds : IsLive(Opinion(srcs, "n", n))}
LiveEdges(srcs) == {e \in EdgeIds : IsLive(Opinion(srcs, "e", e))}

(* collect_tombstones: the union over all sources, whatever shadows what. *)
Tombstones(srcs, on) ==
    {id \in DOMAIN srcs[1][on] : \E i \in DOMAIN srcs : IsDead(srcs[i][on][id])}

\* Mutant: the owner found is returned without looking at its newest record.
KeyLookupUnverified(srcs, label, key) ==
    LET owners(i) == {n \in NodeIds : LET s == srcs[i].n[n]
                                      IN  IsLive(s) /\ label \in s.labels /\ s.key = key}
        held      == {i \in DOMAIN srcs : owners(i) # {}}
    IN  IF held # {} THEN {Max(owners(Min(held)))} ELSE {}

(* find_node_by_label_key: the first source that knows an owner names the  *)
(* candidate; it is the answer if its newest record is live and still      *)
(* carries the label.  An Option, as a set.                                *)
KeyLookup(srcs, label, key) ==
    LET owners(i) == {n \in NodeIds : LET s == srcs[i].n[n]
                                      IN  IsLive(s) /\ label \in s.labels /\ s.key = key}
        held      == {i \in DOMAIN srcs : owners(i) # {}}
        candidate == Max(owners(Min(held)))
        newest    == Opinion(srcs, "n", candidate)
    IN  IF held # {} /\ IsLive(newest) /\ label \in newest.labels /\ newest.key = key
        THEN {candidate} ELSE {}

(* find_edge_by_triple: the first source that holds the triple, unless a   *)
(* newer one has the edge's tombstone.                                     *)
TripleLookup(srcs, from, to) ==
    LET matches(i) == {e \in EdgeIds : LET s == srcs[i].e[e]
                                       IN  IsLive(s) /\ s.from = from /\ s.to = to}
        held       == {i \in DOMAIN srcs : matches(i) # {}}
        edge       == Max(matches(Min(held)))
    IN  IF held # {} /\ ~\E i \in 1..(Min(held) - 1) : IsDead(srcs[i].e[edge])
        THEN {edge} ELSE {}

(* Memtable::neighbors_at and SegmentReader::neighbors hide what the same  *)
(* source has deleted; the segment does not look at the node itself.       *)
SourceNeighbors(src, isMemtable, n) ==
    {e \in EdgeIds :
        /\ Touches(src.e[e], n)
        /\ ~IsDead(src.n[OtherEnd(src.e[e], n)])
        /\ isMemtable => ~IsDead(src.n[n])}

\* Mutant: an older source's entry replaces the one seen first.
NeighborsRawOldest(srcs, memtables, n) ==
    LET lists == [i \in DOMAIN srcs |-> SourceNeighbors(srcs[i], i <= memtables, n)]
    IN  {e \in UNION {lists[i] : i \in DOMAIN lists} :
            LET entry == srcs[Max({j \in DOMAIN lists : e \in lists[j]})].e[e]
            IN  /\ e \notin Tombstones(srcs, "e")
                /\ OtherEnd(entry, n) \notin Tombstones(srcs, "n")
                /\ entry.valid}

(* neighbors_raw(n, Both): the edges it returns.  memtables is the number  *)
(* of leading sources that are memtables.                                  *)
NeighborsRaw(srcs, memtables, n) ==
    LET lists == [i \in DOMAIN srcs |-> SourceNeighbors(srcs[i], i <= memtables, n)]
        deadNodes == Tombstones(srcs, "n")
        deadEdges == Tombstones(srcs, "e")
    IN  {e \in UNION {lists[i] : i \in DOMAIN lists} :
            LET i     == Min({j \in DOMAIN lists : e \in lists[j]})
                entry == srcs[i].e[e]
            IN  /\ i = 1 \/ (e \notin deadEdges /\ OtherEnd(entry, n) \notin deadNodes)
                /\ entry.valid}

(* degree_entry_fast_path: the overlays and sidecars of all sources summed, *)
(* if no policy is registered, every segment has a sidecar and the node    *)
(* has no temporal edge.  An Option.                                       *)
FastDegree(srcs, pruning, n) ==
    LET sum == SumOverlays([i \in DOMAIN srcs |-> CHOOSE d \in srcs[i].d : TRUE])[n]
    IN  IF pruning \/ (\E i \in DOMAIN srcs : srcs[i].d = {}) THEN {}
        ELSE IF sum[2] > 0 THEN {} ELSE {Max({sum[1], 0})}

IncidentNow(n) == NeighborsRaw(Sources, 1 + Len(frozen), n)
Owner(label, key) == KeyLookup(Sources, label, key)

-----------------------------------------------------------------------------
(* Write planning.  A plan is [ops, nodes, edges]: the operations and the  *)
(* id counters after them; an Option, {} standing for an error.            *)

Plan(ops, nodes, edges) == {[ops |-> ops, nodes |-> nodes, edges |-> edges]}

NodeInput(labels, key, low) == [labels |-> labels, key |-> key, low |-> low]
EdgeInput(from, to, valid)  == [from |-> from, to |-> to, valid |-> valid]

UpsertNodeOp(id, input) == Op("n", id, NodeRecord(input.labels, input.key, input.low))
UpsertEdgeOp(id, input) == Op("e", id, EdgeRecord(input.from, input.to, input.valid))

(* find_existing_node_for_label_set: two owners are an error. *)
PlanUpsertNode(input) ==
    LET owners == UNION {Owner(l, input.key) : l \in input.labels}
    IN  IF Cardinality(owners) > 1 THEN {}
        ELSE IF owners = {} THEN Plan(<<UpsertNodeOp(nextNode, input)>>, nextNode + 1, nextEdge)
        ELSE Plan(<<UpsertNodeOp(Max(owners), input)>>, nextNode, nextEdge)

PlanAddNodeLabel(id, label) ==
    LET current == Opinion(Sources, "n", id)
    IN  IF \/ ~IsLive(current)
           \/ label \in current.labels
           \/ Owner(label, current.key) \ {id} # {}
        THEN {}
        ELSE Plan(<<Op("n", id, NodeRecord(current.labels \union {label}, current.key,
                                           current.low))>>, nextNode, nextEdge)

PlanRemoveNodeLabel(id, label) ==
    LET current == Opinion(Sources, "n", id)
    IN  IF ~IsLive(current) \/ label \notin current.labels \/ Cardinality(current.labels) = 1
        THEN {}
        ELSE Plan(<<Op("n", id, NodeRecord(current.labels \ {label}, current.key,
                                           current.low))>>, nextNode, nextEdge)

PlanUpsertEdge(input) ==
    LET existing == IF unique THEN TripleLookup(Sources, input.from, input.to) ELSE {}
    IN  IF existing = {} THEN Plan(<<UpsertEdgeOp(nextEdge, input)>>, nextNode, nextEdge + 1)
        ELSE Plan(<<UpsertEdgeOp(Max(existing), input)>>, nextNode, nextEdge)

(* plan_node_upsert_records: the batch's own keys come before the          *)
(* committed ones, and a label a node loses in the batch no longer names   *)
(* it.  batch[l, k] is the node that holds the key, 0 for none.            *)
NodeHolder(acc, l, k) ==
    IF acc.batch[l, k] # 0 THEN {acc.batch[l, k]}
    ELSE IF <<l, k>> \in acc.removed THEN {}
    ELSE Owner(l, k)
NodeWinners(acc, input) == UNION {NodeHolder(acc, l, input.key) : l \in input.labels}
StageNode(acc, input, winners) ==
    LET id   == IF winners = {} THEN acc.next ELSE Max(winners)
        old  == IF id \in DOMAIN acc.staged THEN acc.staged[id]
                ELSE IF winners = {} THEN {}
                ELSE Opinion(Sources, "n", id).labels
        lost == (old \ input.labels) \X {input.key}
        held == input.labels \X {input.key}
    IN  IF acc.failed \/ Cardinality(winners) > 1
        THEN [acc EXCEPT !.failed = TRUE]
        ELSE [batch   |-> [lk \in Labels \X Keys |->
                              IF lk \in held THEN id
                              ELSE IF lk \in lost THEN 0 ELSE acc.batch[lk]],
              removed |-> (acc.removed \union lost) \ held,
              staged  |-> [n \in {id} \union DOMAIN acc.staged |->
                              IF n = id THEN input.labels ELSE acc.staged[n]],
              next    |-> IF winners = {} THEN acc.next + 1 ELSE acc.next,
              ops     |-> Append(acc.ops, UpsertNodeOp(id, input)),
              failed  |-> FALSE]
NodeLoop(inputs) ==
    LET start == [batch |-> [lk \in Labels \X Keys |-> 0], removed |-> {}, staged |-> <<>>,
                  next |-> nextNode, ops |-> <<>>, failed |-> FALSE]
        r[i \in 0..Len(inputs)] ==
            IF i = 0 THEN start
            ELSE StageNode(r[i - 1], inputs[i], NodeWinners(r[i - 1], inputs[i]))
    IN  r
NodeRecords(inputs) == NodeLoop(inputs)[Len(inputs)]

PlanBatchUpsertNodes(inputs) ==
    LET acc == NodeRecords(inputs)
    IN  IF acc.failed THEN {} ELSE Plan(acc.ops, acc.next, nextEdge)

(* The edge loop of a batch or a patch: with uniqueness, the batch's own   *)
(* triples come before the committed ones.                                 *)
EdgeHolder(acc, input) ==
    LET staged == {op \in ToSet(acc.ops) : op.slot.from = input.from /\ op.slot.to = input.to}
    IN  IF ~unique THEN {}
        ELSE IF staged # {} THEN {op.id : op \in staged}
        ELSE TripleLookup(Sources, input.from, input.to)
StageEdge(acc, input, known) ==
    [next |-> IF known = {} THEN acc.next + 1 ELSE acc.next,
     ops  |-> Append(acc.ops, UpsertEdgeOp(IF known = {} THEN acc.next ELSE Max(known), input))]
EdgeLoop(inputs) ==
    LET r[i \in 0..Len(inputs)] ==
            IF i = 0 THEN [next |-> nextEdge, ops |-> <<>>]
            ELSE StageEdge(r[i - 1], inputs[i], EdgeHolder(r[i - 1], inputs[i]))
    IN  r
EdgeRecords(inputs) == EdgeLoop(inputs)[Len(inputs)]

PlanBatchUpsertEdges(inputs) ==
    LET acc == EdgeRecords(inputs) IN Plan(acc.ops, nextNode, acc.next)

DeleteOps(on, ids) ==
    LET order == SetToSeq(ids) IN [i \in 1..Len(order) |-> Op(on, order[i], Dead)]
DeleteEdgeOps(ids) == DeleteOps("e", ids)

\* Mutant: the cascade looks at the memtables only.
PlanDeleteNodeInMemory(id) ==
    Plan(Append(DeleteEdgeOps(NeighborsRaw(<<active>> \o frozen, 1 + Len(frozen), id)),
                Op("n", id, Dead)), nextNode, nextEdge)

PlanDeleteNode(id) ==
    Plan(Append(DeleteEdgeOps(IncidentNow(id)), Op("n", id, Dead)), nextNode, nextEdge)

PlanDeleteEdge(id) == Plan(<<Op("e", id, Dead)>>, nextNode, nextEdge)

Invalidated(slot) == EdgeRecord(slot.from, slot.to, FALSE)

PlanInvalidateEdge(id) ==
    LET current == Opinion(Sources, "e", id)
    IN  IF ~IsLive(current) THEN {}
        ELSE Plan(<<Op("e", id, Invalidated(current))>>, nextNode, nextEdge)

(* A patch: nodes, edges, invalidations (of the patch's own edges or of    *)
(* committed ones), edge deletions, then node deletions, which cascade to  *)
(* the adjacent edges of the sources and of the patch.                     *)
StagedAt(ops, id) == {i \in DOMAIN ops : ops[i].id = id}
StageInvalidation(ops, id) ==
    LET committed == Opinion(Sources, "e", id)
        current   == IF StagedAt(ops, id) = {} THEN committed ELSE ops[Max(StagedAt(ops, id))].slot
    IN  IF IsLive(current) THEN Append(ops, Op("e", id, Invalidated(current))) ELSE ops
InvalidateLoop(ops, ids) ==
    LET r[i \in 0..Len(ids)] == IF i = 0 THEN ops ELSE StageInvalidation(r[i - 1], ids[i]) IN r

PlanGraphPatch(patch) ==
    LET nodes  == NodeRecords(patch.nodes)
        edges  == EdgeRecords(patch.edges)
        edgeOps == InvalidateLoop(edges.ops, patch.invalidate)[Len(patch.invalidate)]
        incident(n) == IncidentNow(n)
                       \union {op.id : op \in {o \in ToSet(edgeOps) : Touches(o.slot, n)}}
        deleted == ToSet(patch.deleteEdges)
                   \union UNION {incident(n) : n \in ToSet(patch.deleteNodes)}
    IN  IF nodes.failed THEN {}
        ELSE Plan(nodes.ops \o edgeOps \o DeleteEdgeOps(deleted)
                      \o [i \in DOMAIN patch.deleteNodes |-> Op("n", patch.deleteNodes[i], Dead)],
                  nodes.next, edges.next)

(* prune(policy): every live node that matches, with its adjacent edges. *)
PlanPrune ==
    LET targets == {n \in LiveNodes(Sources) : Opinion(Sources, "n", n).low}
        edges   == UNION {IncidentNow(n) : n \in targets}
    IN  Plan(DeleteEdgeOps(edges) \o DeleteOps("n", targets), nextNode, nextEdge)

-----------------------------------------------------------------------------
(* Writes *)

(* The nodes with a valid edge to a node that is not live. *)
Dangling(srcs) ==
    LET edges == Newest(srcs, "e") live == LiveNodes(srcs)
    IN  {n \in NodeIds : \E e \in EdgeIds :
            Touches(edges[e], n) /\ edges[e].valid /\ OtherEnd(edges[e], n) \notin live}

(* commit_core_write_plan, for a plan within the bounds. *)
Commit(plans) ==
    /\ seq + extras < MaxSeq
    /\ \E plan \in plans :
          /\ plan.ops # <<>>
          /\ plan.nodes <= MaxNode + 1 /\ plan.edges <= MaxEdge + 1
          /\ active' = AppendAndApply(active, plan.ops, seq + 1, Newest(Sources, "e"))
          /\ dangled' = dangled \union Dangling(<<active'>> \o frozen \o segments)
          /\ seq' = seq + 1
          /\ nextNode' = plan.nodes /\ nextEdge' = plan.edges
    /\ UNCHANGED <<frozen, segments, unique, policy, job, pruned>>

LabelSets  == SUBSET Labels \ {{}}
KnownNodes == 1..(nextNode - 1)
KnownEdges == 1..(nextEdge - 1)
KnownEnds  == Ends \cap (KnownNodes \X KnownNodes)

Single(plans) == Commit(plans) /\ UNCHANGED extras

UpsertNode ==
    \E ls \in LabelSets, k \in Keys, low \in Weights :
        Single(PlanUpsertNode(NodeInput(ls, k, low)))
AddNodeLabel    == \E n \in KnownNodes, l \in Labels : Single(PlanAddNodeLabel(n, l))
RemoveNodeLabel == \E n \in KnownNodes, l \in Labels : Single(PlanRemoveNodeLabel(n, l))
UpsertEdge ==
    \E p \in KnownEnds, v \in BOOLEAN : Single(PlanUpsertEdge(EdgeInput(p[1], p[2], v)))
DeleteNode      == \E n \in KnownNodes : Single(PlanDeleteNode(n))
DeleteEdge      == \E e \in KnownEdges : Single(PlanDeleteEdge(e))
InvalidateEdge  == \E e \in KnownEdges : Single(PlanInvalidateEdge(e))
Prune           == Single(PlanPrune)

(* The bound MaxSeq for a batch or a patch. *)
RoomForBatch == seq + extras + 1 < MaxSeq

Several(plans) == Commit(plans) /\ extras' = extras + 1

(* Batch and patch entries are high-weight nodes and valid edges. *)
NodeInputs == {NodeInput(ls, k, FALSE) : ls \in LabelSets, k \in Keys}
EdgeInputs == {EdgeInput(p[1], p[2], TRUE) : p \in KnownEnds}

BatchUpsertNodes ==
    /\ RoomForBatch
    /\ \E inputs \in TupleOf(NodeInputs, MaxPatchParts) : Several(PlanBatchUpsertNodes(inputs))
BatchUpsertEdges ==
    /\ RoomForBatch
    /\ \E inputs \in TupleOf(EdgeInputs, MaxPatchParts) : Several(PlanBatchUpsertEdges(inputs))
GraphPatch ==
    /\ RoomForBatch
    /\ \E ns \in BoundedSeq(NodeInputs, 1), es \in BoundedSeq(EdgeInputs, 1),
          inv \in BoundedSeq((KnownEdges \union {nextEdge}) \cap EdgeIds, 1),
          de \in BoundedSeq(KnownEdges, 1), dn \in BoundedSeq(KnownNodes, 1) :
          /\ Len(ns) + Len(es) + Len(inv) + Len(de) + Len(dn) \in 2..MaxPatchParts
          /\ Several(PlanGraphPatch([nodes |-> ns, edges |-> es, invalidate |-> inv,
                                     deleteEdges |-> de, deleteNodes |-> dn]))

(* set_prune_policy, remove_prune_policy: read filters and later compactions. *)
SetPrunePolicy ==
    /\ seq + extras < MaxSeq
    /\ policy' = ~policy /\ extras' = extras + 1
    /\ UNCHANGED <<active, frozen, segments, nextNode, nextEdge, seq, unique, job, dangled,
                   pruned>>

-----------------------------------------------------------------------------
(* Freezing, flushing and compaction *)

MaintenanceFrame == UNCHANGED <<nextNode, nextEdge, seq, extras, unique, policy, dangled>>

Freeze ==
    /\ active # EmptySource
    /\ Len(frozen) + Len(segments) < MaxSources + Cardinality(job)
    /\ frozen' = <<active>> \o frozen /\ active' = EmptySource
    /\ UNCHANGED <<segments, job, pruned>> /\ MaintenanceFrame

Flush ==
    /\ frozen # <<>>
    /\ segments' = <<Last(frozen)>> \o segments /\ frozen' = Front(frozen)
    /\ UNCHANGED <<active, job, pruned>> /\ MaintenanceFrame

(* segments_are_non_overlapping: the id ranges of the live records. *)
NonOverlapping(inputs, on) ==
    LET live(i) == {id \in DOMAIN inputs[i][on] : IsLive(inputs[i][on][id])}
    IN  \A i, j \in DOMAIN inputs :
            i # j /\ live(i) # {} /\ live(j) # {} =>
                Max(live(i)) < Min(live(j)) \/ Max(live(j)) < Min(live(i))

(* v3_plan_winners: the newest record of each id, unless any input has its *)
(* tombstone, it matches a policy, or one of its endpoints did not survive. *)
Winners(inputs, pruning) ==
    LET newestRecord(on, id) ==
            LET held == {i \in DOMAIN inputs : IsLive(inputs[i][on][id])}
            IN  IF held = {} \/ id \in Tombstones(inputs, on) THEN Absent
                ELSE inputs[Min(held)][on][id]
        nodes == [n \in NodeIds |->
                     LET s == newestRecord("n", n)
                     IN  IF IsLive(s) /\ pruning /\ s.low THEN Absent ELSE s]
    IN  [n |-> nodes,
         e |-> [e \in EdgeIds |->
                   LET s == newestRecord("e", e)
                   IN  IF IsLive(s) /\ IsLive(nodes[s.from]) /\ IsLive(nodes[s.to])
                       THEN s ELSE Absent]]

(* The degree sidecars folded into one: none with a policy, or without all. *)
FoldedSidecar(inputs, pruning) ==
    IF pruning \/ \E i \in DOMAIN inputs : inputs[i].d = {} THEN {}
    ELSE {SumOverlays([i \in DOMAIN inputs |-> CHOOSE d \in inputs[i].d : TRUE])}

(* select_compaction_path: without tombstones, policies and overlaps the   *)
(* inputs are concatenated, dangling edges included.                       *)
Merge(inputs, pruning) ==
    IF /\ Tombstones(inputs, "n") = {} /\ Tombstones(inputs, "e") = {}
       /\ ~pruning
       /\ NonOverlapping(inputs, "n") /\ NonOverlapping(inputs, "e")
    THEN [n |-> Newest(inputs, "n"), e |-> Newest(inputs, "e"),
          d |-> FoldedSidecar(inputs, pruning)]
    ELSE [n |-> Winners(inputs, pruning).n, e |-> Winners(inputs, pruning).e,
          d |-> FoldedSidecar(inputs, pruning)]

(* start_bg_compact: the inputs and the policies are taken here; the       *)
(* worker reads nothing else.                                              *)
StartCompact ==
    /\ job = {} /\ Len(segments) >= 2
    /\ job' = {[n |-> Len(segments), out |-> Merge(segments, policy), policy |-> policy]}
    /\ UNCHANGED <<storeVars, pruned>> /\ MaintenanceFrame

\* Mutant: segments flushed while the compaction ran end up behind its output.
FinishCompactFirst ==
    /\ \E j \in job :
          segments' = <<j.out>> \o SubSeq(segments, 1, Len(segments) - j.n)
    /\ job' = {}
    /\ UNCHANGED <<active, frozen, pruned>> /\ MaintenanceFrame

(* The nodes that the inputs of a compaction have and its output has not. *)
LeftOut(inputs, out) == {n \in LiveNodes(inputs) : ~IsLive(out.n[n])}

(* apply_bg_compact_result: the inputs are the oldest segments still. *)
FinishCompact ==
    /\ \E j \in job :
          /\ segments' = Append(SubSeq(segments, 1, Len(segments) - j.n), j.out)
          /\ pruned' = pruned \union LeftOut(SubSeq(segments, Len(segments) - j.n + 1,
                                                   Len(segments)), j.out)
    /\ job' = {}
    /\ UNCHANGED <<active, frozen>> /\ MaintenanceFrame

(* cancel_bg_compact, or a worker that fails. *)
CancelCompact ==
    /\ job # {} /\ job' = {}
    /\ UNCHANGED <<storeVars, pruned>> /\ MaintenanceFrame

-----------------------------------------------------------------------------
(* Databases to start with, each a few commits, a freeze and a flush away   *)
(* from the empty one: an edge between two nodes that have the same key    *)
(* under different labels; and a third node with another key, which        *)
(* matches the prune policy, and an edge to it, with and without the       *)
(* policy in the manifest.                                                 *)
FirstKey == CHOOSE k \in Keys : TRUE
PairOps ==
    LET one == {CHOOSE l \in Labels : TRUE}
    IN  <<UpsertNodeOp(1, NodeInput(one, FirstKey, FALSE)),
          UpsertNodeOp(2, NodeInput(Labels \ one, FirstKey, FALSE)),
          UpsertEdgeOp(1, EdgeInput(1, 2, TRUE))>>

StarOps(key) == PairOps \o <<UpsertNodeOp(3, NodeInput(Labels, key, TRUE)),
                            UpsertEdgeOp(2, EdgeInput(1, 3, TRUE))>>

StartWith(ops, nodes, edges, commits) ==
    /\ active = EmptySource /\ frozen = <<>>
    /\ segments = IF ops = <<>> THEN <<>>
                  ELSE <<AppendAndApply(EmptySource, ops, 0, EmptySource.e)>>
    /\ nextNode = nodes /\ nextEdge = edges /\ seq = commits /\ extras = 0
    /\ unique \in BOOLEAN
    /\ job = {} /\ dangled = {} /\ pruned = {}

Init ==
    \/ policy = FALSE /\ StartWith(<<>>, 1, 1, 0)
    \/ policy \in BOOLEAN /\ \E key \in Keys \ {FirstKey} : StartWith(StarOps(key), 4, 3, 1)

Write ==
    \/ UpsertNode \/ AddNodeLabel \/ RemoveNodeLabel
    \/ UpsertEdge \/ DeleteNode \/ DeleteEdge \/ InvalidateEdge
    \/ Prune
    \/ BatchUpsertNodes \/ BatchUpsertEdges \/ GraphPatch

Maintain ==
    Freeze \/ Flush \/ StartCompact \/ FinishCompact \/ CancelCompact

Next == Write \/ SetPrunePolicy \/ Maintain

Spec == Init /\ [][Next]_vars

-----------------------------------------------------------------------------
(* Properties *)

(* A lookup by (label, key) returns exactly the live nodes that carry the  *)
(* label and the key, so at most one, whatever stale owners older sources  *)
(* still hold (find_nodes_by_label_keys); with edge_uniqueness a lookup by *)
(* triple returns exactly the live edges of the triple                     *)
(* (find_edge_by_triple).                                                  *)
LookupsExact ==
    LET nodes == Newest(Sources, "n")
        edges == Newest(Sources, "e")
    IN  /\ \A l \in Labels, k \in Keys :
              Owner(l, k) = {n \in NodeIds : IsLive(nodes[n]) /\ l \in nodes[n].labels
                                             /\ nodes[n].key = k}
        /\ unique => \A f, t \in NodeIds :
              TripleLookup(Sources, f, t) =
                  {e \in EdgeIds : IsLive(edges[e]) /\ edges[e].from = f /\ edges[e].to = t}

(* Between two live nodes, neighbors_raw returns exactly the valid live    *)
(* edges: merging adjacency per source, with one global set of tombstones, *)
(* loses no edge and revives none, and an edge's newest validity counts.   *)
NeighborsExact ==
    LET live  == LiveNodes(Sources)
        edges == Newest(Sources, "e")
        toLive(e, n) == Touches(edges[e], n) /\ OtherEnd(edges[e], n) \in live
    IN  \A n \in live :
            {e \in IncidentNow(n) : ~IsLive(edges[e]) \/ toLive(e, n)}
            = {e \in EdgeIds : toLive(e, n) /\ edges[e].valid}

(* degree() answered from the overlays and sidecars is the number of edges *)
(* neighbors() returns, through every update, deletion, cascade, batch,    *)
(* flush and compaction, for a live node that never had an edge to a node  *)
(* that was not live.                                                      *)
DegreesExact ==
    \A n \in LiveNodes(Sources) \ dangled :
        FastDegree(Sources, policy, n) \subseteq {Cardinality(IncidentNow(n))}

(* The nodes reads return when `hidden` policies filter them, and the edges *)
(* between them, those at the nodes of `except` left out.                  *)
Visible(srcs, hidden, except) ==
    LET nodes == Newest(srcs, "n")
        edges == Newest(srcs, "e")
        shown == {n \in NodeIds : IsLive(nodes[n]) /\ ~(hidden /\ nodes[n].low)}
    IN  <<[n \in shown |-> nodes[n]],
          {<<e, edges[e]>> : e \in {x \in EdgeIds :
                /\ IsLive(edges[x])
                /\ {edges[x].from, edges[x].to} \subseteq shown \ except}}>>

(* Freezing, flushing and compacting never change the graph that reads     *)
(* return, the nodes hidden by the policy in force or by the one a running *)
(* compaction captured excepted: a compaction that drops tombstones,       *)
(* shadowed records and orphaned edges from the inputs it took cannot be   *)
(* told from outside, whatever was written, flushed or deleted meanwhile.  *)
(* Also excepted are the edges at a node that a compaction has left out    *)
(* for a prune policy (v3_plan_winners): if a newer record of the          *)
(* node, in a memtable, no longer matches, or the policy is removed, this  *)
(* compaction or a later one has dropped live edges at a visible node.     *)
MaintenanceInvisible ==
    [][LET hidden == policy \/ \E j \in job : j.policy
       IN  seq' = seq /\ policy' = policy
               => Visible(Sources', hidden, pruned') = Visible(Sources, hidden, pruned')]_vars

(* A step that deletes a node (delete_node, graph_patch, prune) leaves no  *)
(* valid edge between it and a live node, wherever the edge's records are. *)
CascadeReachesLive ==
    [][\A n \in LiveNodes(Sources) :
          IsDead(Opinion(Sources', "n", n)) =>
              ~\E e \in LiveEdges(Sources') :
                  LET s == Opinion(Sources', "e", e)
                  IN  s.valid /\ Touches(s, n) /\ OtherEnd(s, n) \in LiveNodes(Sources')]_vars
=============================================================================
