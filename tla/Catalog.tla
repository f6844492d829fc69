------------------------------ MODULE Catalog -------------------------------
(***************************************************************************)
(* The node-label catalog and the schemas: how a label gets its token id,  *)
(* where the id is written down (WAL generations, the manifest, records,   *)
(* index and schema entries, prune policies), what recovery makes of it,   *)
(* and how writes are validated against the published schemas.             *)
(* RuntimeLabelCatalog (engine/mod.rs), LabelResolutionPlan and schema     *)
(* validation (engine/write.rs, schema.rs), engine/schema_management.rs.   *)
(*                                                                         *)
(* Data: a token is a pair <<label, id>>.  The program stores the id only; *)
(* the label beside it is the one the caller named, kept to state what the *)
(* id must still mean later.  A label without a token has id 0.  There are *)
(* two nodes and one edge from the first to the second; a node is the set  *)
(* of its tokens ({}: no live node), the edge is "none", "valid" or        *)
(* "ended" (invalidated).  Schemas are their label rules.                  *)
(***************************************************************************)
EXTENDS Integers, Sequences, FiniteSets, SequencesExt

CONSTANTS
    Labels,     \* the node labels callers name
    Profiles,   \* workloads, one chosen at the start: which calls, which faults, which bounds
    MaxGen      \* bound: WAL generations

Calls == {"ensure", "upsert", "relabel", "delete", "edge", "txn", "nodeSchema", "edgeSchema",
          "graphSchema", "index", "policy", "storage", "faults"}

ASSUME CatalogAssumption ==
    /\ IsFiniteSet(Labels) /\ MaxGen \in Nat \ {0}
    /\ \A p \in Profiles :
        /\ p.calls \subseteq Calls /\ p.mode \in {"group", "immediate"}
        /\ p.nodes \subseteq {1, 2} /\ p.ops \in Nat /\ p.restarts \in Nat

Nodes == {1, 2}
Ends  == [from |-> 1, to |-> 2]

VARIABLES
    (* EngineCore *)
    cat,       \* RuntimeLabelCatalog: ids, the WAL generation of each token (0: none), next id
    graph,     \* what memtables and segments hold together
    mem,       \* self.manifest: schemas and prune policy
    rules,     \* runtime_schema_catalog
    pubIds,    \* the label catalog of the published snapshot
    (* disk *)
    disk,      \* manifest.current
    wal,       \* generation -> the batches in its file
    synced,    \* how many batches of the active generation are fsynced
    stored,    \* what the segments in the manifest hold
    (* history and bounds *)
    pc,        \* "up", "down" or "failed": the database could not be opened
    profile, ops, restarts,
    lost,      \* a crash has lost acknowledged writes
    faulted    \* an fsync or a manifest write has failed half-way

core  == <<cat, graph, mem, rules, pubIds>>
files == <<disk, wal, synced, stored>>
hist  == <<profile, restarts, lost, faulted>>
vars  == <<core, files, pc, ops, hist>>

-----------------------------------------------------------------------------
(* Label tokens *)

Label(t) == t[1]
Id(t)    == t[2]
Ids(ts)  == {Id(t) : t \in ts}
Taken(f) == {f[l] : l \in Labels} \ {0}
Known(f) == {l \in Labels : f[l] # 0}
Tokens(f, ls) == {<<l, f[l]>> : l \in ls}
MaxOf(S) == CHOOSE x \in S : \A y \in S : y <= x

\* resolve_node_label_for_write, in the order of the request: known labels keep their id,
\* each new one takes the next.
ResolveOne(c, l) ==
    IF c.ids[l] # 0 THEN c ELSE [c EXCEPT !.ids[l] = c.next, !.next = c.next + 1]
ResolveLoop(c, request) ==
    LET r[k \in 0..Len(request)] == IF k = 0 THEN c ELSE ResolveOne(r[k - 1], request[k]) IN r
Resolve(c, request) == ResolveLoop(c, request)[Len(request)]

\* node_labels_to_create: what the plan c2 has beyond the catalog c1.
Created(c1, c2) == Tokens(c2.ids, Known(c2.ids) \ Known(c1.ids))

\* apply_node_label fails when the label or the id is assigned otherwise.
Conflicts(c, t) ==
    \/ c.ids[Label(t)] \notin {0, Id(t)}
    \/ c.ids[Label(t)] = 0 /\ Id(t) \in Taken(c.ids)

\* The ids f with the tokens ts entered, and the next id behind those in use.  The tokens of a
\* batch, a plan or a manifest have different labels.
Assign(f, ts) ==
    [l \in Labels |-> IF \E t \in ts : Label(t) = l THEN Id(CHOOSE t \in ts : Label(t) = l) ELSE f[l]]
NextAfter(next, ids) == MaxOf({next} \cup {i + 1 : i \in ids})

\* apply_node_label for each of the tokens; a token keeps the lowest generation it was seen in,
\* generation 0 stands for None (a token created in the manifest).
ApplyNodeLabels(c, ts, gen) ==
    [ids  |-> Assign(c.ids, ts),
     gens |-> [l \in Labels |->
                  IF gen = 0 \/ l \notin {Label(t) : t \in ts} \/ (c.gens[l] # 0 /\ c.gens[l] < gen)
                  THEN c.gens[l] ELSE gen],
     next |-> NextAfter(c.next, Ids(ts))]

\* stage_label_tokens_in_manifest: fails on a conflict, else adds the tokens.
CanStage(m, ts) == \A t \in ts : ~Conflicts([ids |-> m.tokens], t)
Stage(m, ts) == [m EXCEPT !.tokens = Assign(@, ts), !.next = NextAfter(@, Ids(ts))]

\* apply_to_manifest: the whole runtime catalog.
ApplyToManifest(m, c) == [m EXCEPT !.tokens = c.ids, !.next = c.next]

\* apply_checkpointed_to_manifest: only tokens whose WAL generation is at most maxGen, on top
\* of those already there.
ApplyCheckpointed(m, c, maxGen) ==
    LET merged == [l \in Labels |->
                      IF c.ids[l] # 0 /\ c.gens[l] # 0 /\ c.gens[l] <= maxGen
                      THEN c.ids[l] ELSE m.tokens[l]]
    IN  [m EXCEPT !.tokens = merged, !.next = NextAfter(@, Taken(merged))]

-----------------------------------------------------------------------------
(* Schemas.  s.node: entries [on, never], "a node with label `on` does not    *)
(* carry `never`"; s.edge: at most one entry, the tokens its `from` endpoint *)
(* must have (all_of) and those its `to` endpoint must not have (none_of).   *)

NoSchemas == [node |-> {}, edge |-> {}]
NoGraph   == [nodes |-> [n \in Nodes |-> {}], edge |-> "none"]

\* has_edge_endpoint_constraints, edge_schema_has_endpoint_rules: there is one edge label.
HasEndpointRules(s) == \E e \in s.edge : e.from # {} \/ e.to # {}
EndpointRelevant(s) == UNION {Ids(e.from \cup e.to) : e \in s.edge}

NodeHasApplicableSchema(s, ids) == \E e \in s.node : Id(e.on) \in ids

\* validate_node_record_detailed: every applicable schema.
NodeOk(s, ids) == \A e \in s.node : Id(e.on) \in ids => Id(e.never) \notin ids

\* validate_edge_endpoint_labels_detailed; labels {} stand for a missing endpoint.
EndpointsOk(s, from, to) ==
    \A e \in s.edge :
        /\ e.from # {} => from # {} /\ Ids(e.from) \subseteq from
        /\ e.to # {}   => to # {} /\ Ids(e.to) \cap to = {}

\* The schemas of the whole graph, by ids.
Conforms(s, g) ==
    /\ \A n \in Nodes : NodeOk(s, Ids(g.nodes[n]))
    /\ g.edge # "none" => EndpointsOk(s, Ids(g.nodes[Ends.from]), Ids(g.nodes[Ends.to]))

\* A batch of WAL operations by its final effect: the nodes it writes ({}: deletes) and what
\* becomes of the edge ("keep": not in the batch).
Same == [nodes |-> <<>>, edge |-> "keep"]
Put(n, ts) == [nodes |-> [m \in {n} |-> ts], edge |-> "keep"]
Effect(g, d) ==
    [nodes |-> [n \in Nodes |-> IF n \in DOMAIN d.nodes THEN d.nodes[n] ELSE g.nodes[n]],
     edge  |-> IF d.edge = "keep" THEN g.edge ELSE d.edge]

\* Mutant: only a label that was taken away is looked at.
LostLabelMayAffect(s, old, new) == \E i \in EndpointRelevant(s) : i \in old /\ i \notin new

\* label_change_may_affect_endpoint_rules
LabelChangeMayAffect(s, old, new) == \E i \in EndpointRelevant(s) : (i \in old) # (i \in new)

\* build_schema_write_overlay: what of the batch is kept for validation.
Written(d)       == {n \in DOMAIN d.nodes : d.nodes[n] # {}}
Deleted(d)       == DOMAIN d.nodes \ Written(d)
FinalNodes(s, d) == {n \in Written(d) : \/ HasEndpointRules(s)
                                        \/ NodeHasApplicableSchema(s, Ids(d.nodes[n]))}

\* validate_endpoint_incident_edges: the edge that the batch leaves alone is looked at when an
\* endpoint of it is deleted or changes in a way the rules can notice.
IncidentEdgeAffected(s, g, d) ==
    /\ HasEndpointRules(s) /\ d.edge = "keep" /\ g.edge # "none"
    /\ \/ Deleted(d) # {}
       \/ \E n \in FinalNodes(s, d) : LabelChangeMayAffect(s, Ids(g.nodes[n]), Ids(d.nodes[n]))

\* validate_schema_for_wal_ops: the nodes and the edge of the batch, and the incident edge.
ValidateOps(s, g, d) ==
    LET labels(n) == IF n \in FinalNodes(s, d) \cup Deleted(d) THEN Ids(d.nodes[n])
                     ELSE Ids(g.nodes[n])
    IN  /\ \A n \in FinalNodes(s, d) : NodeOk(s, Ids(d.nodes[n]))
        /\ d.edge \in {"valid", "ended"} \/ IncidentEdgeAffected(s, g, d) =>
               EndpointsOk(s, labels(Ends.from), labels(Ends.to))

-----------------------------------------------------------------------------
(* Writes *)

Manifest == [schemas |-> disk.schemas, policy |-> disk.policy]

Init ==
    /\ cat = [ids |-> [l \in Labels |-> 0], gens |-> [l \in Labels |-> 0], next |-> 1]
    /\ graph = NoGraph /\ stored = NoGraph
    /\ disk = [tokens |-> cat.ids, next |-> 1, active |-> 1, frozen |-> {},
               schemas |-> NoSchemas, policy |-> {}, indexes |-> {}]
    /\ mem = Manifest /\ rules = NoSchemas /\ pubIds = cat.ids
    /\ wal = [g \in 1..MaxGen |-> <<>>] /\ synced = 0
    /\ pc = "up" /\ profile \in Profiles /\ ops = 0 /\ restarts = 0
    /\ lost = FALSE /\ faulted = FALSE

\* Only a profile with storage events has its calls logged and counted: nothing else reads the log.
Durable == "storage" \in profile.calls
Call(kind) ==
    /\ pc = "up" /\ kind \in profile.calls
    /\ Durable => ops < profile.ops
    /\ ops' = IF Durable THEN ops + 1 ELSE ops

Logged(batch) == [wal EXCEPT ![disk.active] = Append(@, batch)]

\* commit_core_write_plan behind every planned write: the operations d, planned with the label
\* resolution c.  A write of an immediate database whose fsync fails stays in the file and is
\* not applied.
Write(c, d) ==
    LET new   == Created(cat, c)
        batch == [tokens |-> new, d |-> d, applied |-> TRUE]
    IN  /\ ValidateOps(rules, graph, d)
        /\ new # {} \/ d # Same
        /\ \/ /\ cat' = ApplyNodeLabels(cat, new, disk.active)
              /\ graph' = Effect(graph, d)
              /\ pubIds' = IF new # {} THEN cat'.ids ELSE pubIds
              /\ wal' = IF Durable THEN Logged(batch) ELSE wal
              /\ synced' = IF Durable /\ profile.mode = "immediate"
                           THEN Len(wal[disk.active]) + 1 ELSE synced
              /\ UNCHANGED <<mem, rules, disk, stored, pc, hist>>
           \/ /\ "faults" \in profile.calls /\ ~faulted /\ profile.mode = "immediate"
              /\ wal' = Logged([batch EXCEPT !.applied = FALSE])
              /\ faulted' = TRUE
              /\ UNCHANGED <<core, disk, synced, stored, pc, profile, restarts, lost>>

EnsureNodeLabel(l) ==
    /\ Call("ensure")
    /\ Write(Resolve(cat, <<l>>), Same)

\* Requests name labels in any order, without repetition.
Requests == UNION {{<<l>>} \cup {<<l, m>> : m \in Labels \ {l}} : l \in Labels}

\* A live node is found again by its key and one of its labels; else the call makes a new node.
UpsertNode(n, request) ==
    LET c == Resolve(cat, request)
    IN  /\ Call("upsert")
        /\ graph.nodes[n] # {} => \E l \in Range(request) : cat.ids[l] \in Ids(graph.nodes[n])
        /\ Write(c, Put(n, Tokens(c.ids, Range(request))))

AddNodeLabel(n, l) ==
    LET c == Resolve(cat, <<l>>)
    IN  /\ Call("relabel")
        /\ graph.nodes[n] # {} /\ cat.ids[l] \notin Ids(graph.nodes[n])
        /\ Write(c, Put(n, graph.nodes[n] \cup {<<l, c.ids[l]>>}))

RemoveNodeLabel(n, l) ==
    /\ Call("relabel")
    /\ cat.ids[l] \in Ids(graph.nodes[n]) /\ Cardinality(graph.nodes[n]) > 1
    /\ Write(cat, Put(n, {t \in graph.nodes[n] : Id(t) # cat.ids[l]}))

\* The cascade asks neighbors_raw, which does not show an edge that has ended.
DeleteNode(n) ==
    /\ Call("delete")
    /\ graph.nodes[n] # {}
    /\ Write(cat, [Put(n, {}) EXCEPT !.edge = IF graph.edge = "valid" THEN "none" ELSE "keep"])

WriteEdge(state) == Write(cat, [Same EXCEPT !.edge = state])

UpsertEdge     == Call("edge") /\ graph.edge = "none" /\ WriteEdge("valid")
DeleteEdge     == Call("edge") /\ graph.edge # "none" /\ WriteEdge("none")
InvalidateEdge == Call("edge") /\ graph.edge = "valid" /\ WriteEdge("ended")

\* A transaction: nodes written or deleted, and the edge with them.  Its deletions take every
\* incident edge.
TxnCommit(request, writes, edge) ==
    LET c    == Resolve(cat, request)
        gone == \E n \in DOMAIN writes : writes[n] = {}
    IN  /\ Call("txn")
        /\ \A n \in DOMAIN writes : writes[n] = {} => graph.nodes[n] # {}
        /\ Write(c, [nodes |-> [n \in DOMAIN writes |-> Tokens(c.ids, writes[n])],
                     edge  |-> IF gone /\ (edge # "keep" \/ graph.edge # "none") THEN "none"
                               ELSE edge])

-----------------------------------------------------------------------------
(* Calls that write the manifest *)

\* load_current_manifest_for_write
Loaded == ApplyCheckpointed(disk, cat, disk.active - 1)

\* with_runtime_manifest_write, then apply_manifest_token_creations and the runtime schema
\* catalog.  The write may fail after its rename: the file is new, memory is not.
WriteManifest(m, new, schemas, publish) ==
    /\ disk' = m
    /\ \/ /\ mem' = [schemas |-> m.schemas, policy |-> m.policy]
          /\ cat' = ApplyNodeLabels(cat, new, 0)
          /\ rules' = schemas
          /\ pubIds' = IF publish THEN cat'.ids ELSE pubIds
          /\ UNCHANGED <<graph, hist>>
       \/ /\ "faults" \in profile.calls /\ ~faulted
          /\ faulted' = TRUE
          /\ UNCHANGED <<core, profile, restarts, lost>>
    /\ UNCHANGED <<wal, synced, stored, pc>>

\* Mutant: only new labels are staged.
NewLabelsToStage(c, l) == {<<l, c.ids[l]>>} \cap Created(cat, c)

\* The label of the declaration is staged whether it is new or not: its token may still be in
\* an unsynced WAL only.
LabelsToStage(c, l) == {<<l, c.ids[l]>>}

\* Declared already, the manifest is written without a new declaration and nothing is published.
EnsureNodePropertyIndex(l) ==
    LET c == Resolve(cat, <<l>>)
        declared == c.ids[l] \in Ids(disk.indexes)
    IN  /\ Call("index")
        /\ CanStage(Loaded, LabelsToStage(c, l))
        /\ WriteManifest([Stage(Loaded, LabelsToStage(c, l)) EXCEPT
                             !.indexes = IF declared THEN @ ELSE @ \cup {<<l, c.ids[l]>>}],
                         Created(cat, c), rules, ~declared)

DropNodePropertyIndex(l) ==
    /\ Call("index")
    /\ cat.ids[l] \in Ids(disk.indexes)
    /\ WriteManifest([Loaded EXCEPT !.indexes = {t \in @ : Id(t) # cat.ids[l]}], {}, rules, TRUE)

\* A prune policy keeps the name of its label.
SetPrunePolicy(l) ==
    LET c == Resolve(cat, <<l>>)
    IN  /\ Call("policy")
        /\ mem.policy # {l}
        /\ CanStage(Loaded, LabelsToStage(c, l))
        /\ WriteManifest([Stage(Loaded, LabelsToStage(c, l)) EXCEPT !.policy = {l}],
                         Created(cat, c), rules, TRUE)

RemovePrunePolicy ==
    /\ Call("policy")
    /\ mem.policy # {}
    /\ WriteManifest([Loaded EXCEPT !.policy = {}], {}, rules, TRUE)

\* Mutant: targets that have a schema already are not validated again.
ExistingOkNewTargets(s, nodeTargets, edgeTarget) ==
    /\ \A n \in Nodes : Ids(graph.nodes[n]) \cap (nodeTargets \ {Id(e.on) : e \in rules.node}) # {} =>
           NodeOk(s, Ids(graph.nodes[n]))
    /\ edgeTarget /\ rules.edge = {} /\ graph.edge # "none" =>
           EndpointsOk(s, Ids(graph.nodes[Ends.from]), Ids(graph.nodes[Ends.to]))

\* validate_existing_nodes_for_schema and validate_existing_edges_for_schema, for the targets of
\* the call.
ExistingOk(s, nodeTargets, edgeTarget) ==
    /\ \A n \in Nodes : Ids(graph.nodes[n]) \cap nodeTargets # {} => NodeOk(s, Ids(graph.nodes[n]))
    /\ edgeTarget /\ graph.edge # "none" =>
           EndpointsOk(s, Ids(graph.nodes[Ends.from]), Ids(graph.nodes[Ends.to]))

NodeEntry(c, l, x) == [on |-> <<l, c.ids[l]>>, never |-> <<x, c.ids[x]>>]
EdgeEntry(c, from, to) == [from |-> Tokens(c.ids, from), to |-> Tokens(c.ids, to)]
UpsertEntry(entries, e) == {x \in entries : Id(x.on) # Id(e.on)} \cup {e}

\* The common part of the schema publications: validate what is proposed for its targets, then
\* put the whole runtime catalog, the new tokens and the entries into the manifest.
PublishSchemas(c, proposed, nodeTargets, edgeTarget, published, always) ==
    LET new == Created(cat, c)
    IN  /\ ExistingOk(proposed, nodeTargets, edgeTarget)
        /\ WriteManifest([Stage(ApplyToManifest(Loaded, cat), new) EXCEPT !.schemas = published],
                         new, published, always \/ new # {})

\* The single-target calls validate their entry among the schemas in memory and put it among
\* those on disk.
SetNodeSchema(l, x) ==
    LET c          == Resolve(cat, <<l, x>>)
        Entered(s) == [s EXCEPT !.node = UpsertEntry(@, NodeEntry(c, l, x))]
    IN  /\ Call("nodeSchema")
        /\ PublishSchemas(c, Entered(mem.schemas), {c.ids[l]}, FALSE, Entered(disk.schemas), TRUE)

SetEdgeSchema(from, to) ==
    LET c          == Resolve(cat, SetToSeq(from \cup to))
        Entered(s) == [s EXCEPT !.edge = {EdgeEntry(c, from, to)}]
    IN  /\ Call("edgeSchema")
        /\ PublishSchemas(c, Entered(mem.schemas), {}, TRUE, Entered(disk.schemas), TRUE)

\* set_graph_schema replaces everything, alter_graph_schema adds to what is there; both publish
\* what they validated.
GraphSchema(l, x, from, to, replaces) ==
    LET c        == Resolve(cat, <<l, x>> \o SetToSeq((from \cup to) \ {l, x}))
        kept     == IF replaces THEN {} ELSE mem.schemas.node
        proposed == [node |-> UpsertEntry(kept, NodeEntry(c, l, x)), edge |-> {EdgeEntry(c, from, to)}]
    IN  /\ Call("graphSchema")
        /\ PublishSchemas(c, proposed, {c.ids[l]}, TRUE, proposed, FALSE)

\* drop_node_schema, drop_edge_schema, the drops of alter_graph_schema and drop_graph_schema.
DropSchemas(kind, kept) ==
    /\ Call(kind)
    /\ WriteManifest([Loaded EXCEPT !.schemas = kept], {}, kept, FALSE)

DropNodeSchema(l) ==
    /\ \E e \in mem.schemas.node : Id(e.on) = cat.ids[l]
    /\ DropSchemas("nodeSchema", [disk.schemas EXCEPT !.node = {e \in @ : Id(e.on) # cat.ids[l]}])
DropEdgeSchema ==
    mem.schemas.edge # {} /\ DropSchemas("edgeSchema", [disk.schemas EXCEPT !.edge = {}])
DropGraphSchema ==
    mem.schemas # NoSchemas /\ DropSchemas("graphSchema", NoSchemas)

-----------------------------------------------------------------------------
(* WAL generations, crashes and recovery *)

Storage == pc = "up" /\ Durable

\* The group-commit thread or sync().
Sync ==
    /\ Storage /\ profile.mode = "group"
    /\ synced < Len(wal[disk.active])
    /\ synced' = Len(wal[disk.active])
    /\ UNCHANGED <<core, disk, wal, stored, pc, ops, hist>>

\* with_synced_runtime_manifest_write: the WAL is on disk, so is every token.
SyncedManifest == ApplyToManifest(disk, cat)

\* freeze_memtable: sync, manifest, next generation.  Tokens alone leave the memtable empty.
Freeze ==
    /\ Storage /\ disk.active < MaxGen
    /\ \E b \in Range(wal[disk.active]) : b.applied /\ b.d # Same
    /\ disk' = [SyncedManifest EXCEPT !.frozen = @ \cup {disk.active}, !.active = @ + 1]
    /\ mem' = Manifest
    /\ synced' = 0
    /\ UNCHANGED <<cat, graph, rules, pubIds, wal, stored, pc, ops, hist>>

\* What the flush of a frozen memtable adds to the segments: the batches applied to it, in order.
FlushLoop(g, batches) ==
    LET r[k \in 0..Len(batches)] ==
            IF k = 0 THEN g
            ELSE IF batches[k].applied THEN Effect(r[k - 1], batches[k].d) ELSE r[k - 1]
    IN  r

\* The publisher thread: the segment of the oldest frozen generation enters the manifest, with
\* the tokens of generations up to it; the generation's file goes.
PublishFlush ==
    LET g == CHOOSE g \in disk.frozen : \A h \in disk.frozen : g <= h
    IN  /\ Storage /\ disk.frozen # {}
        /\ disk' = [ApplyCheckpointed(disk, cat, g) EXCEPT !.frozen = @ \ {g}]
        /\ stored' = FlushLoop(stored, wal[g])[Len(wal[g])]
        /\ wal' = [wal EXCEPT ![g] = <<>>]
        /\ UNCHANGED <<core, synced, pc, ops, hist>>

Stop(m, kept) ==
    /\ Storage /\ restarts < profile.restarts
    /\ restarts' = restarts + 1
    /\ pc' = "down"
    /\ disk' = m
    /\ wal' = [wal EXCEPT ![disk.active] = SubSeq(@, 1, kept)]
    /\ lost' = (lost \/ \E k \in kept + 1 .. Len(wal[disk.active]) : wal[disk.active][k].applied)
    /\ synced' = kept
    /\ UNCHANGED <<core, stored, ops, profile, faulted>>

\* close: sync, then the manifest with the whole catalog.
Close == Stop(SyncedManifest, Len(wal[disk.active]))

\* A crash keeps the fsynced batches and perhaps some behind them.
Crash == \E kept \in synced..Len(wal[disk.active]) : Stop(disk, kept)

\* validate_or_apply_replayed_label_token_op for the operations of one batch of generation g.
ReplayBatch(r, b, g) ==
    LET c       == ApplyNodeLabels(r.cat, b.tokens, g)
        written == UNION {Ids(b.d.nodes[n]) : n \in DOMAIN b.d.nodes}
    IN  IF ~r.ok \/ (\E t \in b.tokens : Conflicts(r.cat, t)) \/ ~(written \subseteq Taken(c.ids))
        THEN [r EXCEPT !.ok = FALSE]
        ELSE [ok |-> TRUE, cat |-> c, graph |-> Effect(r.graph, b.d)]

ReplayLoop(from, batches, g) ==
    LET r[k \in 0..Len(batches)] == IF k = 0 THEN from ELSE ReplayBatch(r[k - 1], batches[k], g) IN r
ReplayGeneration(r, g) == ReplayLoop(r, wal[g], g)[Len(wal[g])]

\* The checks of load_manifest on tokens, index declarations and schemas.
SchemaIds(s) ==
    {Id(e.on) : e \in s.node} \cup {Id(e.never) : e \in s.node}
        \cup (UNION {Ids(e.from \cup e.to) : e \in s.edge})
ManifestValid(m) ==
    /\ \A l, k \in Known(m.tokens) : m.tokens[l] = m.tokens[k] => l = k
    /\ \A i \in Taken(m.tokens) : i < m.next
    /\ Ids(m.indexes) \cup SchemaIds(m.schemas) \subseteq Taken(m.tokens)

\* from_manifest, then the frozen generations in order and the active one behind them.
FromManifest ==
    [ok    |-> ManifestValid(disk),
     cat   |-> [ids |-> disk.tokens, gens |-> [l \in Labels |-> 0], next |-> disk.next],
     graph |-> stored]
RecoveryLoop ==
    LET r[g \in 0..disk.active] ==
            IF g = 0 THEN FromManifest
            ELSE IF g \in disk.frozen \cup {disk.active} THEN ReplayGeneration(r[g - 1], g)
            ELSE r[g - 1]
    IN  r
Recovered == RecoveryLoop[disk.active]

\* The labels prune policies name must be in the recovered catalog.
PoliciesResolve(c) == disk.policy \subseteq Known(c.ids)

Open ==
    LET r == Recovered
    IN  /\ pc = "down"
        /\ IF r.ok /\ PoliciesResolve(r.cat)
           THEN /\ pc' = "up"
                /\ cat' = r.cat /\ graph' = r.graph
                /\ mem' = Manifest /\ rules' = disk.schemas
                /\ pubIds' = r.cat.ids
                /\ wal' = [g \in DOMAIN wal |->
                              [k \in DOMAIN wal[g] |-> [wal[g][k] EXCEPT !.applied = TRUE]]]
           ELSE pc' = "failed" /\ UNCHANGED <<core, wal>>
        /\ UNCHANGED <<disk, synced, stored, ops, hist>>

-----------------------------------------------------------------------------

LabelSets == {{l} : l \in Labels} \cup {{}}
Writes == UNION {[D -> {{}} \cup {Range(q) : q \in Requests}] : D \in SUBSET Nodes}

NodeCall ==
    \E n \in profile.nodes :
        \/ DeleteNode(n)
        \/ \E q \in Requests : UpsertNode(n, q)
        \/ \E l \in Labels : AddNodeLabel(n, l) \/ RemoveNodeLabel(n, l)

SchemaCall ==
    \/ \E l \in Labels : \E x \in Labels \ {l} :
        \/ SetNodeSchema(l, x)
        \/ \E from, to \in LabelSets, replaces \in BOOLEAN : GraphSchema(l, x, from, to, replaces)
    \/ \E from, to \in LabelSets : SetEdgeSchema(from, to)
    \/ \E l \in Labels : DropNodeSchema(l)
    \/ DropEdgeSchema \/ DropGraphSchema

Next ==
    \/ \E l \in Labels : EnsureNodeLabel(l)
    \/ NodeCall
    \/ UpsertEdge \/ DeleteEdge \/ InvalidateEdge
    \/ \E w \in Writes, e \in {"keep", "none", "valid"} :
          TxnCommit(SetToSeq(UNION {w[n] : n \in DOMAIN w}), w, e)
    \/ \E l \in Labels : EnsureNodePropertyIndex(l) \/ DropNodePropertyIndex(l) \/ SetPrunePolicy(l)
    \/ RemovePrunePolicy
    \/ SchemaCall
    \/ Sync \/ Freeze \/ PublishFlush \/ Close \/ Crash \/ Open

Spec == Init /\ [][Next]_vars

-----------------------------------------------------------------------------
(* Properties *)

\* Every token in records and schemas.
TokensInUse ==
    (UNION {graph.nodes[n] : n \in Nodes}) \cup (UNION {{e.on, e.never} : e \in rules.node})
        \cup (UNION {e.from \cup e.to : e \in rules.edge})

\* Whatever crash comes between a WAL append, a manifest write and a flush, a label id never
\* comes to stand for another label: the database opens, and records, schemas, indexes and prune
\* policies still resolve, in memory and in the published snapshot, to the labels they were
\* written with.  Exempt are histories in which an fsync or a manifest write failed half-way.
LabelsKeepMeaning ==
    ~faulted =>
        /\ pc # "failed"
        /\ pc = "up" =>
            /\ \A t \in TokensInUse : cat.ids[Label(t)] = Id(t) /\ pubIds[Label(t)] = Id(t)
            /\ \A t \in disk.indexes : cat.ids[Label(t)] = Id(t)
            /\ disk.policy \subseteq Known(cat.ids)

\* The records and the schemas read as labels, not ids.
Named(ts)    == {<<Label(t), Label(t)>> : t \in ts}
NamedGraph   == [graph EXCEPT !.nodes = [n \in Nodes |-> Named(@[n])]]
NamedSchemas ==
    [node |-> {[on |-> <<Label(e.on), Label(e.on)>>, never |-> <<Label(e.never), Label(e.never)>>] :
                   e \in rules.node},
     edge |-> {[from |-> Named(e.from), to |-> Named(e.to)] : e \in rules.edge}]

\* A published schema holds for all live data, by label, through later writes, batches, further
\* publications and restarts; set_node_schema and the others validate existing data before
\* they publish and every later write is validated on its own effect only.  Exempt are histories
\* in which a crash lost acknowledged writes the publication had relied on, or a write failed
\* half-way.
SchemaHolds == pc = "up" /\ ~lost /\ ~faulted => Conforms(NamedSchemas, NamedGraph)

\* The incremental validation of a write (validate_schema_for_wal_ops looks at the records of
\* the batch and at edges whose endpoints changed) decides exactly as a validation of the whole
\* graph after the write would: nothing gets past it and nothing is refused without a reason.
ValidationExact ==
    pc = "up" /\ Conforms(rules, graph) =>
        \A D \in SUBSET profile.nodes, edge \in {"keep", "none", "valid", "ended"} :
            \A nodes \in [D -> SUBSET Tokens(cat.ids, Known(cat.ids))] :
                LET d == [nodes |-> nodes, edge |-> edge]
                IN  ValidateOps(rules, graph, d) <=> Conforms(rules, Effect(graph, d))
=============================================================================
