-------------------------------- MODULE Txn ---------------------------------
(***************************************************************************)
(* Write transactions: a snapshot taken at begin, intents staged one by    *)
(* one, an overlay that answers the transaction's own reads, and a commit  *)
(* that plans the intents again against the current sources and fails when *)
(* a target changed since the snapshot.  Overlay and commit plan are two   *)
(* independent implementations of what the intents mean.                   *)
(*                                                                         *)
(* Data: clients name nodes by id or by (label, key) and edges by id or,   *)
(* with edge_uniqueness, by their endpoints.  Inside the overlay a node    *)
(* that has no id yet is named by the entry that created it.  The snapshot *)
(* is a value: StorageEngine shows that pinned snapshots do not change.    *)
(***************************************************************************)
EXTENDS GraphStore

CONSTANTS
    Txns,           \* the transactions
    MaxIntents,     \* bound: intents per transaction
    MaxWork         \* bound: commits and staged intents together

ASSUME TxnConstantsAssumption == MaxIntents \in Nat /\ MaxWork \in Nat

VARIABLE txn        \* txn[t]: [status, snap, seq, entries, overlay]

txnVars == <<vars, txn>>

IdRef(n)     == [by |-> "id", id |-> n]
KeyRef(l, k) == [by |-> "key", label |-> l, key |-> k]
SlotRef(s)   == [by |-> "slot", slot |-> s]
TripleRef(f, t) == [by |-> "triple", from |-> f, to |-> t]

Slots == 1..MaxIntents

-----------------------------------------------------------------------------
(* The overlay.  An opinion is [tag, view]: "live", "deleted" (with the    *)
(* view that was deleted, if there was one), "removed" (the label was      *)
(* taken from the node) or "none".  Views are Options, as sets.            *)

NoOpinion   == [tag |-> "none", view |-> {}]
LiveAs(v)   == [tag |-> "live", view |-> {v}]
Deleted(vs) == [tag |-> "deleted", view |-> vs]
LabelGone   == [tag |-> "removed", view |-> {}]

EmptyOverlay ==
    [byKey  |-> [lk \in Labels \X Keys |-> NoOpinion],
     byId   |-> [n \in NodeIds |-> NoOpinion],
     bySlot |-> [s \in Slots |-> NoOpinion],
     seen   |-> {},              \* deleted_node_ids_seen
     edgeById     |-> [e \in EdgeIds |-> NoOpinion],
     edgeByTriple |-> <<>>,      \* from pairs of endpoint keys
     failed |-> FALSE]

SnapshotNode(snap, n) ==
    LET s == Opinion(snap, "n", n)
    IN  IF IsLive(s) THEN {[id |-> n, slot |-> 0, labels |-> s.labels, key |-> s.key,
                            low |-> s.low]}
        ELSE {}
SnapshotNodeByKey(snap, l, k) == UNION {SnapshotNode(snap, n) : n \in KeyLookup(snap, l, k)}
SnapshotEdgeView(snap, e) ==
    LET s == Opinion(snap, "e", e)
    IN  IF IsLive(s) THEN {[id |-> e, from |-> IdRef(s.from), to |-> IdRef(s.to),
                            valid |-> s.valid]}
        ELSE {}

NodeOpinion(o, ref) ==
    CASE ref.by = "id"   -> o.byId[ref.id]
      [] ref.by = "key"  -> o.byKey[ref.label, ref.key]
      [] ref.by = "slot" -> o.bySlot[ref.slot]

\* Mutant: a label the transaction took from a node is looked up again.
GetNodeKeepingLabels(snap, o, ref) ==
    LET op == NodeOpinion(o, ref)
    IN  CASE op.tag = "live" -> op.view
          [] op.tag = "deleted" -> {}
          [] op.tag # "live" /\ ref.by = "id" -> SnapshotNode(snap, ref.id)
          [] OTHER -> SnapshotNodeByKey(snap, ref.label, ref.key)

GetNode(snap, o, ref) ==
    LET op == NodeOpinion(o, ref)
    IN  CASE op.tag = "live" -> op.view
          [] op.tag \in {"deleted", "removed"} -> {}
          [] op.tag = "none" /\ ref.by = "id"  -> SnapshotNode(snap, ref.id)
          [] OTHER -> SnapshotNodeByKey(snap, ref.label, ref.key)

ViewRef(v) == IF v.id # 0 THEN IdRef(v.id) ELSE SlotRef(v.slot)

(* endpoint_key and read_endpoint_key: {} for a node the transaction       *)
(* deleted, an error to the first and no edge to the second.               *)
EndpointKey(snap, o, ref) ==
    LET op == NodeOpinion(o, ref)
    IN  CASE op.tag = "deleted" -> {}
          [] ref.by = "id"      -> {ref}
          [] op.tag = "live"    -> {ViewRef(v) : v \in op.view}
          [] op.tag = "removed" -> {ref}
          [] OTHER -> LET found == KeyLookup(snap, ref.label, ref.key)
                      IN  IF found = {} THEN {ref} ELSE {IdRef(n) : n \in found}

CanonicalRef(snap, o, ref) ==
    LET vs == GetNode(snap, o, ref)
    IN  IF vs = {} THEN ref ELSE ViewRef(CHOOSE v \in vs : TRUE)

TripleOpinion(o, key) ==
    IF key \in DOMAIN o.edgeByTriple THEN o.edgeByTriple[key] ELSE NoOpinion

TripleKeys(snap, o, from, to) == EndpointKey(snap, o, from) \X EndpointKey(snap, o, to)

(* The committed ids of two endpoints, when both have one. *)
CommittedEnds(snap, o, from, to) ==
    {p \in {<<f.id, t.id>> : f \in GetNode(snap, o, from), t \in GetNode(snap, o, to)} :
        p[1] # 0 /\ p[2] # 0}

SnapshotTriple(snap, o, from, to) ==
    UNION {TripleLookup(snap, p[1], p[2]) : p \in CommittedEnds(snap, o, from, to)}

(* get_edge: an edge of the snapshot is hidden when the transaction has    *)
(* deleted an endpoint of it at any time, a staged one when an endpoint    *)
(* has no node now.                                                        *)
GetEdgeAt(snap, o, ref, keys) ==
    LET op   == IF ref.by = "id" THEN o.edgeById[ref.id]
                ELSE TripleOpinion(o, CHOOSE k \in keys : TRUE)
        held == IF ref.by = "id" THEN {ref.id}
                ELSE SnapshotTriple(snap, o, ref.from, ref.to)
        gone(end) == end.id \in o.seen \/ o.byId[end.id].tag = "deleted"
    IN  CASE ref.by = "triple" /\ keys = {} -> {}
          [] op.tag = "live" -> {v \in op.view : GetNode(snap, o, v.from) # {}
                                                 /\ GetNode(snap, o, v.to) # {}}
          [] op.tag = "deleted" -> {}
          [] OTHER -> {v \in UNION {SnapshotEdgeView(snap, e) : e \in held} :
                          ~gone(v.from) /\ ~gone(v.to)}

NamedKeys(snap, o, ref) ==
    IF ref.by = "triple" THEN TripleKeys(snap, o, ref.from, ref.to) ELSE {}
GetEdge(snap, o, ref) == GetEdgeAt(snap, o, ref, NamedKeys(snap, o, ref))

-----------------------------------------------------------------------------
(* TxnOverlay::apply, one operator per kind of intent *)

SameNode(a, b) == IF a.id # 0 \/ b.id # 0 THEN a.id = b.id ELSE a.slot = b.slot

(* What the labels and the key of an upsert name already. *)
NamedNodes(snap, o, intent) ==
    UNION {LET op == o.byKey[l, intent.key]
           IN  IF op.tag = "none" THEN SnapshotNodeByKey(snap, l, intent.key) ELSE op.view
           : l \in intent.labels}

ApplyUpsertNode(o, intent, slot, found) ==
    LET existing == CHOOSE v \in found : TRUE
        lost     == {<<l, intent.key>> : l \in UNION {v.labels : v \in found} \ intent.labels}
        view     == [id     |-> IF found = {} THEN 0 ELSE existing.id,
                     slot   |-> IF found = {} THEN slot ELSE existing.slot,
                     labels |-> intent.labels, key |-> intent.key, low |-> intent.low]
    IN  IF \E a, b \in found : ~SameNode(a, b) THEN [o EXCEPT !.failed = TRUE]
        ELSE [o EXCEPT
                 !.byKey  = [lk \in DOMAIN o.byKey |->
                                IF lk[2] = intent.key /\ lk[1] \in intent.labels THEN LiveAs(view)
                                ELSE IF lk \in lost THEN LabelGone ELSE o.byKey[lk]],
                 !.byId   = [n \in NodeIds |-> IF n = view.id THEN LiveAs(view) ELSE o.byId[n]],
                 !.bySlot = [s \in Slots |-> IF s = view.slot THEN LiveAs(view) ELSE o.bySlot[s]]]

ApplyUpsertEdge(snap, o, intent, keys) ==
    LET key      == CHOOSE k \in keys : TRUE
        op       == TripleOpinion(o, key)
        existing == IF ~unique THEN {}
                    ELSE IF op.tag # "none" THEN {v.id : v \in op.view}
                    ELSE SnapshotTriple(snap, o, intent.from, intent.to)
        view     == [id    |-> IF existing = {} THEN 0 ELSE Max(existing),
                     from  |-> CanonicalRef(snap, o, intent.from),
                     to    |-> CanonicalRef(snap, o, intent.to),
                     valid |-> intent.valid]
    IN  IF keys = {} THEN [o EXCEPT !.failed = TRUE]
        ELSE [o EXCEPT
                 !.edgeByTriple = (key :> LiveAs(view)) @@ @,
                 !.edgeById = [e \in EdgeIds |-> IF e = view.id THEN LiveAs(view) ELSE @[e]]]

(* mark_edge_deleted for a set of views; without edge_uniqueness the       *)
(* triples are not read.                                                   *)
MarkEdgesDeleted(snap, o, views) ==
    LET keys(v) == TripleKeys(snap, o, v.from, v.to)
        gone(k) == {v \in views : k \in keys(v)}
        all     == UNION {keys(v) : v \in views}
    IN  [o EXCEPT
            !.edgeById = [e \in EdgeIds |->
                             IF \E v \in views : v.id = e
                             THEN Deleted({v \in views : v.id = e}) ELSE @[e]],
            !.edgeByTriple = [k \in all |-> Deleted({CHOOSE v \in gone(k) : TRUE})] @@ @,
            !.failed = @ \/ \E v \in views : keys(v) = {}]

(* node_ref_matches_deleted_node *)
RefersTo(snap, o, ref, target, existing) ==
    LET ids  == {v.id : v \in existing} \union (IF target.by = "id" THEN {target.id} ELSE {})
        keys == IF existing = {} /\ target.by = "key" THEN {<<target.label, target.key>>}
                ELSE UNION {v.labels \X {v.key} : v \in existing}
    IN  \/ ref = target
        \/ ref.by = "id" /\ ref.id \in ids
        \/ ref.by = "key" /\ \/ <<ref.label, ref.key>> \in keys
                             \/ KeyLookup(snap, ref.label, ref.key) \cap ids # {}
        \/ ref.by = "slot" /\ \E v \in o.bySlot[ref.slot].view :
                                  (v.labels \X {v.key}) \cap keys # {}

ApplyDeleteNode(snap, o, target, existing) ==
    LET staged   == UNION ({o.edgeById[e].view : e \in {x \in EdgeIds : o.edgeById[x].tag = "live"}}
                           \union {o.edgeByTriple[k].view :
                                      k \in {x \in DOMAIN o.edgeByTriple :
                                                o.edgeByTriple[x].tag = "live"}})
        incident == {v \in staged : \/ RefersTo(snap, o, v.from, target, existing)
                                    \/ RefersTo(snap, o, v.to, target, existing)}
        marked   == MarkEdgesDeleted(snap, o, incident)
        labels   == UNION {v.labels \X {v.key} : v \in existing}
        ids      == {v.id : v \in existing} \union (IF target.by = "id" THEN {target.id} ELSE {})
        slots    == {v.slot : v \in existing}
    IN  [marked EXCEPT
            !.byKey  = [lk \in DOMAIN @ |->
                           IF lk \in labels \/ KeyRef(lk[1], lk[2]) = target
                           THEN Deleted(existing) ELSE @[lk]],
            !.byId   = [n \in NodeIds |-> IF n \in ids THEN Deleted(existing) ELSE @[n]],
            !.bySlot = [s \in Slots |-> IF s \in slots THEN Deleted(existing) ELSE @[s]],
            !.seen   = @ \union (ids \ {0})]

ApplyDeleteEdge(snap, o, target, existing) ==
    [MarkEdgesDeleted(snap, o, existing) EXCEPT
        !.edgeById = [e \in EdgeIds |-> IF target = IdRef(e) THEN Deleted(existing) ELSE @[e]],
        !.edgeByTriple = [k \in NamedKeys(snap, o, target) |-> Deleted(existing)] @@ @]

(* With edge_uniqueness update_edge_live returns before it updates         *)
(* edges_by_id.                                                            *)
ApplyInvalidateEdge(snap, o, existing) ==
    LET views == {[v EXCEPT !.valid = FALSE] : v \in existing}
        keys  == UNION {TripleKeys(snap, o, v.from, v.to) : v \in views}
    IN  IF unique
        THEN [o EXCEPT !.edgeByTriple = [k \in keys |-> LiveAs(CHOOSE v \in views : TRUE)] @@ @]
        ELSE [o EXCEPT !.edgeById = [e \in EdgeIds |->
                                        IF \E v \in views : v.id = e
                                        THEN LiveAs(CHOOSE v \in views : TRUE) ELSE @[e]]]

Apply(snap, o, intent, slot) ==
    CASE intent.do = "upsertNode" ->
             ApplyUpsertNode(o, intent, slot, NamedNodes(snap, o, intent))
      [] intent.do = "upsertEdge" ->
             ApplyUpsertEdge(snap, o, intent, TripleKeys(snap, o, intent.from, intent.to))
      [] intent.do = "deleteNode" ->
             ApplyDeleteNode(snap, o, intent.target, GetNode(snap, o, intent.target))
      [] intent.do = "deleteEdge" ->
             ApplyDeleteEdge(snap, o, intent.target, GetEdge(snap, o, intent.target))
      [] intent.do = "invalidateEdge" ->
             ApplyInvalidateEdge(snap, o, GetEdge(snap, o, intent.target))

-----------------------------------------------------------------------------
(* plan_txn_commit.  acc is PlannedTxnState with the operations and the id *)
(* counters; labelsOf and edges are node_records_by_id and                 *)
(* edge_records_by_id, as far as they are read.                            *)

ChangedSince(on, id, s) ==
    /\ id \in DOMAIN active[on]
    /\ LET o == Opinion(Sources, on, id) IN o # Absent /\ o.seq > s

\* Mutant: only what the target names now is compared with the snapshot.
TargetConflictNow(on, current, begin, s) == \E id \in current : ChangedSince(on, id, s)

(* validate_node_key_conflict and validate_edge_triple_conflict: `current` *)
(* and `begin` are what the key or the triple named now and at begin.      *)
TargetConflict(on, current, begin, s) ==
    LET fresh == \E id \in current : ChangedSince(on, id, s)
    IN  /\ current = {} \/ fresh
        /\ IF begin # {} THEN current # begin \/ \E id \in begin : ChangedSince(on, id, s)
           ELSE fresh

KeyConflict(t, l, k) == TargetConflict("n", Owner(l, k), KeyLookup(txn[t].snap, l, k), txn[t].seq)
TripleConflict(t, f, g) ==
    TargetConflict("e", TripleLookup(Sources, f, g), TripleLookup(txn[t].snap, f, g), txn[t].seq)

CurrentOrBegin(current, begin) == IF current # {} THEN current ELSE begin
NodeByKey(t, l, k) == CurrentOrBegin(Owner(l, k), KeyLookup(txn[t].snap, l, k))

(* resolve_node_ref_optional, resolve_edge_ref_optional *)
ResolveNode(t, acc, ref) ==
    IF ref.by = "id" THEN {ref.id}
    ELSE IF acc.byKey[ref.label, ref.key] # 0 THEN {acc.byKey[ref.label, ref.key]}
    ELSE IF <<ref.label, ref.key>> \in acc.removed THEN {}
    ELSE NodeByKey(t, ref.label, ref.key)

ResolveEdge(t, acc, ref) ==
    LET ends == ResolveNode(t, acc, ref.from) \X ResolveNode(t, acc, ref.to)
        find(p) == IF p \in DOMAIN acc.byTriple THEN {acc.byTriple[p]}
                   ELSE CurrentOrBegin(TripleLookup(Sources, p[1], p[2]),
                                       TripleLookup(txn[t].snap, p[1], p[2]))
    IN  IF ref.by = "id" THEN {ref.id} ELSE UNION {find(p) : p \in ends}

Fails(acc) == [acc EXCEPT !.failed = TRUE]
Without(f, S) == [x \in DOMAIN f \ S |-> f[x]]

(* The labels of an upsert that the intents before it say nothing about,   *)
(* and the nodes its labels and key name.                                  *)
OpenLabels(acc, intent) ==
    {l \in intent.labels : acc.byKey[l, intent.key] = 0 /\ <<l, intent.key>> \notin acc.removed}
KeyWinners(t, acc, intent) ==
    ({acc.byKey[l, intent.key] : l \in intent.labels} \ {0})
    \union UNION {NodeByKey(t, l, intent.key) : l \in OpenLabels(acc, intent)}

PlanTxnUpsertNode(t, acc, intent, winners) ==
    LET k  == intent.key
        id   == IF winners = {} THEN acc.node ELSE Max(winners)
        old  == IF id \in DOMAIN acc.labelsOf THEN acc.labelsOf[id]
                ELSE IF winners = {} THEN {}
                ELSE LET now == Opinion(Sources, "n", id)
                     IN  IF IsLive(now) THEN now.labels
                         ELSE Opinion(txn[t].snap, "n", id).labels
        held == intent.labels \X {k}
        lost == (old \ intent.labels) \X {k}
    IN  IF (\E l \in OpenLabels(acc, intent) : KeyConflict(t, l, k)) \/ Cardinality(winners) > 1 THEN Fails(acc)
        ELSE [acc EXCEPT
                 !.byKey    = [lk \in DOMAIN @ |-> IF lk \in held THEN id
                                                   ELSE IF lk \in lost THEN 0 ELSE @[lk]],
                 !.removed  = (@ \union lost) \ held,
                 !.labelsOf = (id :> intent.labels) @@ @,
                 !.delNodes = @ \ {id},
                 !.node     = IF winners = {} THEN @ + 1 ELSE @,
                 !.ops      = Append(@, UpsertNodeOp(id, intent))]

(* resolve_node_ref_required for both ends, then the triple. *)
ResolveEnds(t, acc, intent) ==
    (ResolveNode(t, acc, intent.from) \ acc.delNodes)
    \X (ResolveNode(t, acc, intent.to) \ acc.delNodes)

PlanTxnUpsertEdge(t, acc, intent, ends) ==
    LET p    == CHOOSE x \in ends : TRUE
        planned == IF unique /\ p \in DOMAIN acc.byTriple THEN {acc.byTriple[p]} ELSE {}
        known   == IF unique /\ planned = {} THEN TripleLookup(Sources, p[1], p[2]) ELSE planned
        id      == IF known = {} THEN acc.edge ELSE Max(known)
        input   == EdgeInput(p[1], p[2], intent.valid)
    IN  IF \/ ends = {}
           \/ \E n \in {p[1], p[2]} : ChangedSince("n", n, txn[t].seq)
           \/ planned = {} /\ TripleConflict(t, p[1], p[2])
        THEN Fails(acc)
        ELSE [acc EXCEPT !.byTriple = (p :> id) @@ @,
                         !.edges    = (id :> input) @@ @,
                         !.delEdges = @ \ {id},
                         !.edge     = IF known = {} THEN @ + 1 ELSE @,
                         !.ops      = Append(@, UpsertEdgeOp(id, input))]

(* Drop planned edges: remove_planned_edge_triple_if_current. *)
Unplan(acc, ids) ==
    [acc EXCEPT !.byTriple = Without(@, {p \in DOMAIN @ : @[p] \in ids /\ @[p] \in DOMAIN acc.edges}),
                !.edges    = Without(@, ids)]

\* Mutant: the cascade takes the neighbours that reads return.
IncidentEdgesVisible(srcs, n) ==
    {e \in EdgeIds : LET s == Opinion(srcs, "e", e) IN Touches(s, n) /\ s.valid}

(* edge_ids_by_endpoints: every live edge at the node, valid or not. *)
IncidentEdges(srcs, n) == {e \in EdgeIds : Touches(Opinion(srcs, "e", e), n)}

PlanTxnDeleteNode(t, acc, found) ==
    LET id      == Max(found)
        now     == IF id \in NodeIds THEN IncidentEdges(Sources, id) ELSE {}
        begin   == IF id \in NodeIds THEN IncidentEdges(txn[t].snap, id) ELSE {}
        fresh   == now \ acc.delEdges
        planned == {e \in DOMAIN acc.edges : id \in {acc.edges[e].from, acc.edges[e].to}}
                   \ (acc.delEdges \union now)
        rest    == Unplan(acc, planned)
    IN  IF found = {} THEN acc
        ELSE IF \/ ChangedSince("n", id, txn[t].seq)
                \/ \E e \in now \union begin : ChangedSince("e", e, txn[t].seq)
        THEN Fails(acc)
        ELSE [rest EXCEPT !.delEdges = @ \union now \union planned,
                          !.delNodes = @ \union {id},
                          !.ops = Append(@ \o DeleteEdgeOps(fresh \union planned),
                                         Op("n", id, Dead))]

PlanTxnDeleteEdge(t, acc, found) ==
    IF found = {} THEN acc
    ELSE IF \E e \in found : ChangedSince("e", e, txn[t].seq) THEN Fails(acc)
    ELSE IF found \subseteq acc.delEdges THEN acc
    ELSE [Unplan(acc, found) EXCEPT !.delEdges = @ \union found,
                                    !.ops = @ \o DeleteEdgeOps(found)]

PlanTxnInvalidateEdge(t, acc, found) ==
    LET id      == Max(found)
        planned == id \in DOMAIN acc.edges
        old     == IF planned THEN [kind |-> "live"] @@ acc.edges[id] ELSE Opinion(Sources, "e", id)
        p       == <<old.from, old.to>>
        holder  == IF ~planned THEN TripleLookup(Sources, p[1], p[2])
                   ELSE IF p \in DOMAIN acc.byTriple THEN {acc.byTriple[p]} ELSE {}
        input   == EdgeInput(p[1], p[2], FALSE)
    IN  IF found = {} THEN acc
        ELSE IF ~planned /\ ChangedSince("e", id, txn[t].seq) THEN Fails(acc)
        ELSE IF ~IsLive(old) THEN acc
        ELSE [acc EXCEPT !.byTriple = IF holder \subseteq {id} THEN (p :> id) @@ @ ELSE @,
                         !.edges    = (id :> input) @@ @,
                         !.ops      = Append(@, UpsertEdgeOp(id, input))]

PlanTxnIntent(t, acc, intent) ==
    CASE acc.failed -> acc
      [] intent.do = "upsertNode" ->
             PlanTxnUpsertNode(t, acc, intent, KeyWinners(t, acc, intent))
      [] intent.do = "upsertEdge" ->
             PlanTxnUpsertEdge(t, acc, intent, ResolveEnds(t, acc, intent))
      [] intent.do = "deleteNode" ->
             PlanTxnDeleteNode(t, acc, ResolveNode(t, acc, intent.target))
      [] intent.do = "deleteEdge" ->
             PlanTxnDeleteEdge(t, acc, ResolveEdge(t, acc, intent.target))
      [] intent.do = "invalidateEdge" ->
             PlanTxnInvalidateEdge(t, acc, ResolveEdge(t, acc, intent.target) \ acc.delEdges)

PlanTxnCommit(t) ==
    FoldLeft(LAMBDA acc, intent : PlanTxnIntent(t, acc, intent),
             [ops |-> <<>>, node |-> nextNode, edge |-> nextEdge,
              byKey |-> [lk \in Labels \X Keys |-> 0], removed |-> {}, labelsOf |-> <<>>,
              byTriple |-> <<>>, edges |-> <<>>, delNodes |-> {}, delEdges |-> {},
              failed |-> FALSE],
             txn[t].entries)

-----------------------------------------------------------------------------
(* Transactions *)

Closed(status) ==
    [status |-> status, snap |-> <<>>, seq |-> 0, entries |-> <<>>, overlay |-> EmptyOverlay]

Begin(t) ==
    /\ txn[t].status = "new"
    /\ txn' = [txn EXCEPT ![t] = [Closed("open") EXCEPT !.snap = Sources, !.seq = seq]]
    /\ UNCHANGED vars

(* What clients name: the known ids, the keys, and with edge_uniqueness    *)
(* the pairs of endpoints.                                                 *)
NodeRefs == {IdRef(n) : n \in KnownNodes} \union {KeyRef(l, k) : l \in Labels, k \in Keys}
EndPairs == {<<IdRef(p[1]), IdRef(p[2])>> : p \in KnownEnds}
            \union {<<KeyRef(l, k), KeyRef(m, k)>> : l, m \in Labels, k \in Keys}
EdgeRefs == {IdRef(e) : e \in KnownEdges}
            \union (IF unique THEN {TripleRef(p[1], p[2]) : p \in EndPairs} ELSE {})

Intents ==
    {[do |-> "upsertNode", labels |-> ls, key |-> k, low |-> FALSE] : ls \in LabelSets, k \in Keys}
    \union {[do |-> "upsertEdge", from |-> p[1], to |-> p[2], valid |-> TRUE] : p \in EndPairs}
    \union {[do |-> "deleteNode", target |-> r] : r \in NodeRefs}
    \union {[do |-> d, target |-> r] : d \in {"deleteEdge", "invalidateEdge"}, r \in EdgeRefs}

Work == seq + MapThenSumSet(LAMBDA t : Len(txn[t].entries), Txns)

(* add_node_label, remove_node_label: the node as the overlay shows it,    *)
(* staged as an upsert with the other labels.                              *)
LabelIntents(t) ==
    UNION {LET views == IF txn[t].status = "open"
                        THEN GetNode(txn[t].snap, txn[t].overlay, ref) ELSE {}
           IN  {[do |-> "upsertNode", key |-> p[1].key, low |-> p[1].low,
                 labels |-> IF p[2] \in p[1].labels THEN p[1].labels \ {p[2]}
                                                    ELSE p[1].labels \union {p[2]}] :
                   p \in {q \in views \X Labels : q[1].labels # {q[2]}}}
           : ref \in NodeRefs}

(* append_entry, and stage_intents, which appends all of its intents or    *)
(* none: an intent the overlay rejects is not staged.                      *)
Stage(t, intent) ==
    /\ txn[t].status = "open" /\ Len(txn[t].entries) < MaxIntents /\ Work < MaxWork
    /\ \E o \in {Apply(txn[t].snap, txn[t].overlay, intent, Len(txn[t].entries) + 1)} :
          /\ ~o.failed
          /\ txn' = [txn EXCEPT ![t].entries = Append(@, intent), ![t].overlay = o]
    /\ UNCHANGED vars

TxnRollback(t) ==
    /\ txn[t].status = "open"
    /\ txn' = [txn EXCEPT ![t] = Closed("rolledBack")]
    /\ UNCHANGED vars

TxnCommit(t) ==
    /\ txn[t].status = "open"
    /\ \E acc \in {PlanTxnCommit(t)} :
          \/ /\ acc.failed
             /\ txn' = [txn EXCEPT ![t] = Closed("failed")]
             /\ UNCHANGED vars
          \/ /\ ~acc.failed
             /\ Single(Plan(acc.ops, acc.node, acc.edge))
             /\ txn' = [txn EXCEPT ![t] = Closed("committed")]

(* Direct writes, flushes and compactions go on meanwhile, as long as a    *)
(* transaction can still commit within MaxSeq.                             *)
Unfinished == {t \in Txns : txn[t].status \in {"new", "open"}}

DirectWrite ==
    /\ Unfinished # {} /\ seq + Cardinality(Unfinished) < MaxSeq /\ Work < MaxWork
    /\ UpsertNode \/ AddNodeLabel \/ RemoveNodeLabel
       \/ UpsertEdge \/ DeleteNode \/ DeleteEdge \/ InvalidateEdge
    /\ UNCHANGED txn

Background ==
    /\ Unfinished # {}
    /\ Freeze \/ Flush \/ StartCompact \/ FinishCompact
    /\ UNCHANGED txn

TxnInit ==
    /\ policy = FALSE /\ (StartWith(<<>>, 1, 1, 0) \/ StartWith(PairOps, 3, 2, 0))
    /\ txn = [t \in Txns |-> Closed("new")]

TxnStep(t) ==
    \/ Begin(t)
    \/ \E intent \in Intents \union LabelIntents(t) : Stage(t, intent)
    \/ TxnCommit(t)
    \/ TxnRollback(t)

TxnNext == DirectWrite \/ Background \/ \E t \in Txns : TxnStep(t)

TxnSpec == TxnInit /\ [][TxnNext]_txnVars

-----------------------------------------------------------------------------
(* Properties *)

Record(slot) == IF IsLive(slot) THEN slot ELSE Absent

Commits(t) == txn[t].status = "open" /\ txn'[t].status = "committed"

(* The records a step changes, as ids. *)
Changed(on) ==
    {id \in DOMAIN active[on] :
        Record(Opinion(Sources, on, id)) # Record(Opinion(Sources', on, id))}

UnchangedSince(t, on, id) ==
    Record(Opinion(Sources, on, id)) = Record(Opinion(txn[t].snap, on, id))

(* No source holds anything of it: a compaction has dropped its records    *)
(* and its tombstone.                                                      *)
Swept(on) == {id \in DOMAIN active[on] : Opinion(Sources, on, id) = Absent}

(* The nodes and edges that a staged deletion or invalidation names by id. *)
StagedTargets(t, on) ==
    {e.target.id : e \in {x \in ToSet(txn[t].entries) :
                             /\ x.do \in (IF on = "n" THEN {"deleteNode"}
                                         ELSE {"deleteEdge", "invalidateEdge"})
                             /\ x.target.by = "id"}}

(* A transaction commits only if the nodes and edges it was told to delete *)
(* or invalidate have not changed since it began (docs/api-reference.md,   *)
(* write transactions).                                                    *)
StagedTargetsUnchanged ==
    [][\A t \in Txns : Commits(t) =>
          \A on \in {"n", "e"} : \A id \in StagedTargets(t, on) : UnchangedSince(t, on, id)]_txnVars

(* A transaction that commits found everything it writes as its snapshot   *)
(* showed it: each node and edge record it changes or is told to delete or *)
(* invalidate, both ends of each edge it upserts, and the owner of each    *)
(* key that changes hands (plan_txn_commit validates the targets when it   *)
(* resolves them again), while others write, flush and compact.  An        *)
(* invalidation does not look at the ends.  Excepted are the records that  *)
(* were deleted since and whose tombstone a compaction has dropped as well *)
(* (Swept): the commit compares sequence numbers and finds none.           *)
FirstCommitterWins ==
    [][\A t \in Txns : Commits(t) =>
          LET snap  == txn[t].snap
              written == {Opinion(Sources', "e", e) : e \in Changed("e")}
              ends == UNION {{s.from, s.to} : s \in {x \in written : IsLive(x) /\ x.valid}}
          IN  /\ \A n \in (Changed("n") \union ends \union StagedTargets(t, "n")) \ Swept("n") :
                    UnchangedSince(t, "n", n)
              /\ \A e \in (Changed("e") \union StagedTargets(t, "e")) \ Swept("e") :
                    UnchangedSince(t, "e", e)
              /\ \A l \in Labels, k \in Keys :
                    Owner(l, k) # KeyLookup(Sources', l, k)
                        => Owner(l, k) = KeyLookup(snap, l, k)]_txnVars

(* A node that a transaction deletes takes every edge at it along, those   *)
(* no longer valid and those staged in the same transaction included.      *)
TxnCascadeComplete ==
    [][\A t \in Txns : Commits(t) =>
          \A n \in Changed("n") :
              ~IsLive(Opinion(Sources', "n", n)) =>
                  ~\E e \in EdgeIds : Touches(Opinion(Sources', "e", e), n)]_txnVars

(* The overlay over the snapshot reads as the sources in post do. *)
ReadsAre(snap, o, post) ==
    LET node(l, k) == GetNode(snap, o, KeyRef(l, k))
        read(ref)  == {v.valid : v \in GetEdge(snap, o, ref)}
        kept(es)   == {Opinion(post, "e", e).valid : e \in es \cap LiveEdges(post)}
    IN  /\ \A l \in Labels, k \in Keys :
              {v.labels : v \in node(l, k)}
              = {Opinion(post, "n", n).labels : n \in KeyLookup(post, l, k)}
        /\ unique => \A l, m \in Labels, k \in Keys :
              node(l, k) # {} /\ node(m, k) # {} =>
                  read(TripleRef(KeyRef(l, k), KeyRef(m, k)))
                  = kept(UNION {TripleLookup(post, f, g) : f \in KeyLookup(post, l, k),
                                                          g \in KeyLookup(post, m, k)})
        /\ ~unique => \A e \in LiveEdges(snap) :
              LET s == Opinion(snap, "e", e)
              IN  {s.from, s.to} \subseteq LiveNodes(post) => read(IdRef(e)) = kept({e})

(* While nobody else has written, a transaction reads through its overlay  *)
(* (get_node_by_key, get_edge_by_triple; get_edge by id where edges are    *)
(* not unique) exactly what its commit will make of the same names, for    *)
(* edges between nodes that exist.                                         *)
ReadYourWrites ==
    \A t \in Txns : txn[t].status = "open" /\ seq = txn[t].seq =>
        \A acc \in {PlanTxnCommit(t)} :
            ~acc.failed /\ acc.node <= MaxNode + 1 /\ acc.edge <= MaxEdge + 1 =>
                ReadsAre(txn[t].snap, txn[t].overlay,
                         <<ApplyOps(active, acc.ops, seq + 1)>> \o frozen \o segments)
=============================================================================
