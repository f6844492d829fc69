--------------------------- MODULE CatalogProofs ----------------------------
(***************************************************************************)
(* Three theorems about labels and schemas, for any labels, workloads,     *)
(* generations and restarts.                                               *)
(*                                                                         *)
(* ValidationIsExact: looking at the records of a batch and at the edge    *)
(* whose endpoints it changes decides as validating the whole graph after  *)
(* the batch would, provided that the graph was valid before.              *)
(*                                                                         *)
(* LabelsKeepTheirMeaning: no crash makes a label id stand for another     *)
(* label.  By induction over the steps with Labelled, and, for recovery,   *)
(* over the batches of a generation and over the generations (ReplayOk).   *)
(*                                                                         *)
(* SchemasHold: what a publication validated stays valid.  By induction    *)
(* with Labelled and Valid.                                                *)
(***************************************************************************)
EXTENDS Catalog, WellFoundedInduction, FiniteSetTheorems, SequenceTheorems, TLAPS

\* A batch of WAL operations on nodes of the graph.
IsBatch(d) == DOMAIN d.nodes \subseteq Nodes /\ d.edge \in {"keep", "none", "valid", "ended"}

\* A node has an id exactly if it has a token.
LEMMA IdsEmpty ==
    ASSUME NEW ts
    PROVE  Ids(ts) = {} <=> ts = {}
    BY DEF Ids

\* Without an applicable schema there is nothing to violate.
LEMMA NotApplicable ==
    ASSUME NEW s, NEW ids, ~NodeHasApplicableSchema(s, ids)
    PROVE  NodeOk(s, ids)
    BY DEF NodeHasApplicableSchema, NodeOk

\* Without endpoint rules every edge is allowed.
LEMMA NoEndpointRules ==
    ASSUME NEW s, NEW from, NEW to, ~HasEndpointRules(s)
    PROVE  EndpointsOk(s, from, to)
    BY DEF HasEndpointRules, EndpointsOk

\* The nodes of the batch are validated as the whole graph would be: those left out have no
\* applicable schema.
LEMMA NodesExact ==
    ASSUME NEW s, NEW g, NEW d, IsBatch(d), \A n \in Nodes : NodeOk(s, Ids(g.nodes[n]))
    PROVE  (\A n \in FinalNodes(s, d) : NodeOk(s, Ids(d.nodes[n])))
             <=> \A n \in Nodes : NodeOk(s, Ids(Effect(g, d).nodes[n]))
    <1>1. \A n \in Nodes : Effect(g, d).nodes[n] = IF n \in DOMAIN d.nodes THEN d.nodes[n] ELSE g.nodes[n]
        BY DEF Effect
    <1>2. FinalNodes(s, d) \subseteq DOMAIN d.nodes /\ DOMAIN d.nodes \subseteq Nodes
        BY DEF IsBatch, FinalNodes, Written
    <1>3. ASSUME NEW n \in DOMAIN d.nodes, n \notin FinalNodes(s, d)
          PROVE  NodeOk(s, Ids(d.nodes[n]))
        <2>1. ~NodeHasApplicableSchema(s, Ids(d.nodes[n]))
            BY <1>3, IdsEmpty DEF FinalNodes, Written, NodeHasApplicableSchema
        <2>2. QED
            BY <2>1, NotApplicable
    <1>4. QED
        BY <1>1, <1>2, <1>3

\* What the validation takes an endpoint's labels to be: for rules about endpoints, those it
\* has after the write.
LEMMA LabelsRead ==
    ASSUME NEW s, NEW g, NEW d, IsBatch(d), HasEndpointRules(s), NEW n \in Nodes
    PROVE  Ids(Effect(g, d).nodes[n])
             = IF n \in FinalNodes(s, d) \cup Deleted(d) THEN Ids(d.nodes[n]) ELSE Ids(g.nodes[n])
    <1>1. Effect(g, d).nodes[n] = IF n \in DOMAIN d.nodes THEN d.nodes[n] ELSE g.nodes[n]
        BY DEF Effect
    <1>2. n \in FinalNodes(s, d) \cup Deleted(d) <=> n \in DOMAIN d.nodes
        BY DEF FinalNodes, Deleted, Written
    <1>3. QED
        BY <1>1, <1>2

\* An edge the batch leaves alone and the validation does not look at stays valid.
LEMMA EdgeUnaffected ==
    ASSUME NEW s, NEW g, NEW d, IsBatch(d), HasEndpointRules(s), Conforms(s, g),
           d.edge = "keep", g.edge # "none", ~IncidentEdgeAffected(s, g, d)
    PROVE  EndpointsOk(s, Ids(Effect(g, d).nodes[1]), Ids(Effect(g, d).nodes[2]))
    <1> DEFINE old(n) == Ids(g.nodes[n])
               new(n) == Ids(Effect(g, d).nodes[n])
    <1>1. EndpointsOk(s, old(1), old(2))
        BY DEF Conforms, Ends
    <1>2. Deleted(d) = {} /\ \A n \in FinalNodes(s, d) : ~LabelChangeMayAffect(s, old(n), Ids(d.nodes[n]))
        BY DEF IncidentEdgeAffected
    <1>3. ASSUME NEW n \in Nodes
          PROVE  /\ \A i \in EndpointRelevant(s) : (i \in old(n)) = (i \in new(n))
                 /\ new(n) = old(n) \/ new(n) # {}
        <2>1. CASE n \in FinalNodes(s, d)
            <3>1. new(n) = Ids(d.nodes[n]) /\ d.nodes[n] # {}
                BY <2>1, LabelsRead DEF FinalNodes, Written
            <3>2. QED
                BY <1>2, <2>1, <3>1, IdsEmpty DEF LabelChangeMayAffect
        <2>2. CASE n \notin FinalNodes(s, d)
            BY <1>2, <2>2, LabelsRead
        <2>3. QED
            BY <2>1, <2>2
    <1>4. 1 \in Nodes /\ 2 \in Nodes
        BY DEF Nodes
    <1> HIDE DEF old, new
    <1>5. ASSUME NEW e \in s.edge
          PROVE  /\ e.from # {} => new(1) # {} /\ Ids(e.from) \subseteq new(1)
                 /\ e.to # {} => new(2) # {} /\ Ids(e.to) \cap new(2) = {}
        <2>1. Ids(e.from) \subseteq EndpointRelevant(s) /\ Ids(e.to) \subseteq EndpointRelevant(s)
            BY DEF EndpointRelevant, Ids
        <2>2. /\ e.from # {} => old(1) # {} /\ Ids(e.from) \subseteq old(1)
              /\ e.to # {} => old(2) # {} /\ Ids(e.to) \cap old(2) = {}
            BY <1>1 DEF EndpointsOk
        <2>3. QED
            BY <1>3, <1>4, <2>1, <2>2
    <1>6. QED
        BY <1>5 DEF EndpointsOk, new

\* The incremental validation of a batch and a validation of the whole graph after it agree.
LEMMA ValidateOpsExact ==
    ASSUME NEW s, NEW g, NEW d, IsBatch(d), Conforms(s, g)
    PROVE  ValidateOps(s, g, d) <=> Conforms(s, Effect(g, d))
    <1> DEFINE labels(n) == IF n \in FinalNodes(s, d) \cup Deleted(d) THEN Ids(d.nodes[n])
                            ELSE Ids(g.nodes[n])
               nodesOk   == \A n \in FinalNodes(s, d) : NodeOk(s, Ids(d.nodes[n]))
               looked    == d.edge \in {"valid", "ended"} \/ IncidentEdgeAffected(s, g, d)
               after     == EndpointsOk(s, Ids(Effect(g, d).nodes[1]), Ids(Effect(g, d).nodes[2]))
    <1>1. ValidateOps(s, g, d) <=> nodesOk /\ (looked => EndpointsOk(s, labels(1), labels(2)))
        BY DEF ValidateOps, Ends
    <1>2. nodesOk <=> \A n \in Nodes : NodeOk(s, Ids(Effect(g, d).nodes[n]))
        BY NodesExact DEF Conforms
    <1>3. Conforms(s, Effect(g, d)) <=> nodesOk /\ (Effect(g, d).edge # "none" => after)
        BY <1>2 DEF Conforms, Ends
    <1>4. Effect(g, d).edge = IF d.edge = "keep" THEN g.edge ELSE d.edge
        BY DEF Effect
    <1>5. looked => Effect(g, d).edge # "none"
        BY <1>4 DEF IncidentEdgeAffected
    <1>6. EndpointsOk(s, labels(1), labels(2)) <=> after
        <2>1. CASE HasEndpointRules(s)
            BY <2>1, LabelsRead DEF Nodes
        <2>2. CASE ~HasEndpointRules(s)
            BY <2>2, NoEndpointRules
        <2>3. QED
            BY <2>1, <2>2
    <1>7. ASSUME ~looked, Effect(g, d).edge # "none"
          PROVE  after
        <2>1. d.edge = "keep" /\ g.edge # "none"
            BY <1>4, <1>7 DEF IsBatch
        <2>2. CASE HasEndpointRules(s)
            BY <1>7, <2>1, <2>2, EdgeUnaffected
        <2>3. CASE ~HasEndpointRules(s)
            BY <2>3, NoEndpointRules
        <2>4. QED
            BY <2>2, <2>3
    <1> HIDE DEF labels, nodesOk, looked, after
    <1>8. QED
        BY <1>1, <1>3, <1>5, <1>6, <1>7

-----------------------------------------------------------------------------
(* The workload is fixed once chosen *)

\* A planned write, committed or failed half-way.
LEMMA WriteKeepsProfile ==
    ASSUME NEW c, NEW d, Write(c, d)
    PROVE  profile' = profile
    BY DEF Write, hist

\* A manifest write, also one that fails after its rename.
LEMMA ManifestKeepsProfile ==
    ASSUME NEW m, NEW new, NEW schemas, NEW publish, WriteManifest(m, new, schemas, publish)
    PROVE  profile' = profile
    BY DEF WriteManifest, hist

\* A schema publication.
LEMMA PublishKeepsProfile ==
    ASSUME NEW c, NEW proposed, NEW nodeTargets, NEW edgeTarget, NEW published, NEW always,
           PublishSchemas(c, proposed, nodeTargets, edgeTarget, published, always)
    PROVE  profile' = profile
    BY ManifestKeepsProfile DEF PublishSchemas

\* No step of the engine changes the workload.
LEMMA ProfileKept ==
    ASSUME [Next]_vars
    PROVE  profile' = profile
    <1>1. CASE (\E l \in Labels : EnsureNodeLabel(l)) \/ UpsertEdge \/ DeleteEdge \/ InvalidateEdge
        BY <1>1, WriteKeepsProfile DEF EnsureNodeLabel, UpsertEdge, DeleteEdge, InvalidateEdge, WriteEdge
    <1>2. CASE NodeCall
        BY <1>2, WriteKeepsProfile DEF NodeCall, DeleteNode, UpsertNode, AddNodeLabel, RemoveNodeLabel
    <1>3. ASSUME NEW request, NEW writes, NEW edge, TxnCommit(request, writes, edge)
          PROVE  profile' = profile
        BY <1>3, WriteKeepsProfile DEF TxnCommit
    <1>4. CASE \/ \E l \in Labels : EnsureNodePropertyIndex(l) \/ DropNodePropertyIndex(l) \/ SetPrunePolicy(l)
               \/ RemovePrunePolicy
        BY <1>4, ManifestKeepsProfile
        DEF EnsureNodePropertyIndex, DropNodePropertyIndex, SetPrunePolicy, RemovePrunePolicy
    <1>5. CASE SchemaCall
        <2>1. ASSUME NEW l, NEW x, SetNodeSchema(l, x) PROVE profile' = profile
            BY <2>1, PublishKeepsProfile DEF SetNodeSchema
        <2>2. ASSUME NEW from, NEW to, SetEdgeSchema(from, to) PROVE profile' = profile
            BY <2>2, PublishKeepsProfile DEF SetEdgeSchema
        <2>3. ASSUME NEW l, NEW x, NEW from, NEW to, NEW replaces, GraphSchema(l, x, from, to, replaces)
              PROVE  profile' = profile
            BY <2>3, PublishKeepsProfile DEF GraphSchema
        <2>4. ASSUME NEW kind, NEW kept, DropSchemas(kind, kept) PROVE profile' = profile
            BY <2>4, ManifestKeepsProfile DEF DropSchemas
        <2>5. CASE (\E l \in Labels : DropNodeSchema(l)) \/ DropEdgeSchema \/ DropGraphSchema
            BY <2>4, <2>5 DEF DropNodeSchema, DropEdgeSchema, DropGraphSchema
        <2>6. QED
            BY <1>5, <2>1, <2>2, <2>3, <2>5 DEF SchemaCall
    <1>6. CASE Sync \/ Freeze \/ PublishFlush \/ Close \/ Crash \/ Open \/ UNCHANGED vars
        BY <1>6 DEF Sync, Freeze, PublishFlush, Close, Crash, Stop, Open, hist, vars
    <1>7. QED
        BY <1>1, <1>2, <1>3, <1>4, <1>5, <1>6 DEF Next

-----------------------------------------------------------------------------
(* Validation is exact *)

\* In every reachable state, the incremental validation of any write decides exactly as a
\* validation of the whole graph after the write would, whatever labels, schemas and records
\* there are and however they came about.
THEOREM ValidationIsExact == Spec => []ValidationExact
    <1>1. Init => profile \in Profiles
        BY DEF Init
    <1>2. profile \in Profiles /\ [Next]_vars => (profile \in Profiles)'
        BY ProfileKept
    <1>3. ASSUME profile \in Profiles PROVE ValidationExact
        <2>1. profile.nodes \subseteq Nodes
            BY <1>3, CatalogAssumption DEF Nodes
        <2>2. SUFFICES ASSUME Conforms(rules, graph), NEW D \in SUBSET profile.nodes,
                              NEW edge \in {"keep", "none", "valid", "ended"},
                              NEW nodes \in [D -> SUBSET Tokens(cat.ids, Known(cat.ids))]
                       PROVE  LET d == [nodes |-> nodes, edge |-> edge]
                              IN  ValidateOps(rules, graph, d) <=> Conforms(rules, Effect(graph, d))
            BY DEF ValidationExact
        <2>3. IsBatch([nodes |-> nodes, edge |-> edge])
            BY <2>1 DEF IsBatch
        <2>4. QED
            BY <2>2, <2>3, ValidateOpsExact
    <1>4. QED
        BY <1>1, <1>2, <1>3, PTL DEF Spec

-----------------------------------------------------------------------------
(* Naturals *)

\* Every nonempty set of naturals has a least member.
LEMMA LeastNatural ==
    ASSUME NEW S \in SUBSET Nat, S # {}
    PROVE  \E m \in S : \A k \in S : m <= k
    <1> DEFINE R == OpToRel(<, Nat)
    <1>1. IsWellFoundedOn(R, Nat)
        BY NatLessThanWellFounded
    <1>2. PICK m \in S : \A k \in S : <<k, m>> \notin R
        <2> HIDE DEF R
        <2>1. QED
            BY <1>1, WFMin
    <1>3. \A k \in S : ~(k < m)
        BY <1>2 DEF OpToRel
    <1>4. QED
        BY <1>3

\* Induction over the naturals, for a set.
LEMMA Induction ==
    ASSUME NEW S \in SUBSET Nat, 0 \in S, \A n \in S : n + 1 \in S
    PROVE  S = Nat
    <1> SUFFICES ASSUME Nat \ S # {} PROVE FALSE
        OBVIOUS
    <1>1. PICK m \in Nat \ S : \A k \in Nat \ S : m <= k
        BY LeastNatural
    <1>2. m - 1 \in S
        BY <1>1
    <1>3. QED
        BY <1>1, <1>2

\* A bounded nonempty set of naturals has a greatest member, and MaxOf is it.
LEMMA MaxOfBounded ==
    ASSUME NEW S \in SUBSET Nat, S # {}, NEW b \in Nat, \A y \in S : y <= b
    PROVE  MaxOf(S) \in S /\ \A y \in S : y <= MaxOf(S)
    <1> DEFINE U == {x \in Nat : \A y \in S : y <= x}
    <1>1. PICK m \in U : \A x \in U : m <= x
        BY LeastNatural
    <1>2. m \in S
        <2> SUFFICES ASSUME m \notin S PROVE FALSE
            OBVIOUS
        <2>1. \A y \in S : y <= m /\ y # m
            BY <1>1
        <2>2. m # 0
            <3>1. PICK y \in S : TRUE
                OBVIOUS
            <3>2. y \in Nat /\ y <= m /\ y # m
                BY <2>1, <3>1
            <3>3. QED
                BY <3>2
        <2>3. m - 1 \in U
            BY <2>1, <2>2
        <2>4. QED
            BY <1>1, <2>3
    <1>3. QED
        BY <1>1, <1>2 DEF MaxOf

\* Any k naturals have a bound.
Bounded(k) == \A h \in [1..k -> Nat] : \E b \in Nat : \A i \in 1..k : h[i] <= b

\* Finitely many naturals have a bound.
LEMMA FiniteBound ==
    ASSUME NEW k \in Nat
    PROVE  Bounded(k)
    <1> DEFINE S == {n \in Nat : Bounded(n)}
    <1>1. Bounded(0)
        <2>1. 1..0 = {} /\ 0 \in Nat
            OBVIOUS
        <2>2. QED
            BY <2>1, Zenon DEF Bounded
    <1>2. ASSUME NEW n \in Nat, Bounded(n) PROVE Bounded(n + 1)
        <2> SUFFICES ASSUME NEW h \in [1..(n + 1) -> Nat]
                     PROVE  \E b \in Nat : \A i \in 1..(n + 1) : h[i] <= b
            BY Zenon DEF Bounded
        <2> DEFINE r == [i \in 1..n |-> h[i]]
        <2>1. r \in [1..n -> Nat]
            OBVIOUS
        <2>2. PICK b \in Nat : \A i \in 1..n : r[i] <= b
            BY <1>2, <2>1 DEF Bounded
        <2>3. h[n + 1] \in Nat
            OBVIOUS
        <2>4. b + h[n + 1] \in Nat /\ \A i \in 1..(n + 1) : h[i] <= b + h[n + 1]
            BY <2>2, <2>3
        <2>5. QED
            BY <2>4
    <1>3. S = Nat
        <2>1. 0 \in S /\ \A n \in S : n + 1 \in S
            BY <1>1, <1>2
        <2> HIDE DEF S
        <2>2. QED
            BY <2>1, Induction DEF S
    <1>4. QED
        BY <1>3

\* The ids of a catalog have a bound.
LEMMA IdsBounded ==
    ASSUME NEW f \in [Labels -> Nat]
    PROVE  \E b \in Nat : \A l \in Labels : f[l] <= b
    <1>1. PICK n \in Nat : ExistsSurjection(1..n, Labels)
        BY CatalogAssumption, FS_NatSurjection
    <1>2. PICK h \in Surjection(1..n, Labels) : TRUE
        BY <1>1 DEF ExistsSurjection
    <1>3. h \in [1..n -> Labels] /\ \A l \in Labels : \E i \in 1..n : h[i] = l
        BY <1>2 DEF Surjection
    <1> DEFINE r == [i \in 1..n |-> f[h[i]]]
    <1>4. r \in [1..n -> Nat]
        BY <1>3
    <1>5. PICK b \in Nat : \A i \in 1..n : r[i] <= b
        BY <1>4, FiniteBound DEF Bounded
    <1>6. QED
        BY <1>3, <1>5

\* The next id lies behind the ids in use and never goes back.
LEMMA NextAfterBounds ==
    ASSUME NEW next \in Nat, NEW f \in [Labels -> Nat], NEW ids, \A i \in ids : \E l \in Labels : i = f[l]
    PROVE  /\ NextAfter(next, ids) \in Nat
           /\ next <= NextAfter(next, ids)
           /\ \A i \in ids : i < NextAfter(next, ids)
    <1> DEFINE S == {next} \cup {i + 1 : i \in ids}
    <1>1. PICK b \in Nat : \A l \in Labels : f[l] <= b
        BY IdsBounded
    <1>2. ids \in SUBSET Nat /\ \A i \in ids : i <= b
        BY <1>1
    <1>3. S \in SUBSET Nat /\ S # {} /\ \A y \in S : y <= next + b + 1
        BY <1>2
    <1>4. next + b + 1 \in Nat
        OBVIOUS
    <1>5. MaxOf(S) \in S /\ \A y \in S : y <= MaxOf(S)
        <2> HIDE DEF S
        <2>1. QED
            BY <1>3, <1>4, MaxOfBounded
    <1>6. NextAfter(next, ids) = MaxOf(S)
        BY DEF NextAfter
    <1> DEFINE m == MaxOf(S)
    <1>7. m \in Nat /\ next <= m /\ \A i \in ids : i + 1 <= m
        BY <1>3, <1>5
    <1> HIDE DEF m
    <1>8. QED
        BY <1>2, <1>6, <1>7 DEF m

-----------------------------------------------------------------------------
(* Catalogs *)

Token   == Labels \X (Nat \ {0})
CatType == [ids : [Labels -> Nat], gens : [Labels -> Nat], next : Nat]

\* The ids f are among the ids h.
Extends(f, h) == \A l \in Labels : f[l] \in {0, h[l]}

\* The tokens ts stand in f for the labels they were created with.
Means(f, ts) == \A t \in ts : t \in Token /\ f[Label(t)] = Id(t)

\* No two labels have one id, and the next id is new.
Distinct(f)    == \A l, k \in Labels : f[l] = f[k] /\ f[l] # 0 => l = k
Above(next, f) == \A l \in Labels : f[l] < next
CatOk(c)       == c \in CatType /\ Distinct(c.ids) /\ Above(c.next, c.ids)

\* The catalog c2 is c1 with some labels more.
Grows(c1, c2) == CatOk(c2) /\ Extends(c1.ids, c2.ids)

\* One label resolved.
LEMMA ResolveOneGrows ==
    ASSUME NEW c, NEW c1, Grows(c, c1), c \in CatType, NEW l \in Labels
    PROVE  /\ Grows(c, ResolveOne(c1, l))
           /\ Extends(c1.ids, ResolveOne(c1, l).ids)
           /\ ResolveOne(c1, l).ids[l] # 0
    <1>1. CASE c1.ids[l] # 0
        BY <1>1 DEF ResolveOne, Grows, Extends, CatOk, CatType
    <1>2. CASE c1.ids[l] = 0
        <2> DEFINE r == ResolveOne(c1, l)
        <2>1. c1 \in CatType /\ Distinct(c1.ids) /\ Above(c1.next, c1.ids) /\ Extends(c.ids, c1.ids)
            BY DEF Grows, CatOk
        <2>2. /\ r \in CatType
              /\ r.ids = [c1.ids EXCEPT ![l] = c1.next]
              /\ r.next = c1.next + 1
            <3>1. r = [c1 EXCEPT !.ids[l] = c1.next, !.next = c1.next + 1]
                BY <1>2 DEF ResolveOne
            <3>2. c1 = [ids |-> c1.ids, gens |-> c1.gens, next |-> c1.next]
                BY <2>1 DEF CatType
            <3>3. r = [ids |-> [c1.ids EXCEPT ![l] = c1.next], gens |-> c1.gens, next |-> c1.next + 1]
                BY <3>1, <3>2
            <3>4. c1.ids \in [Labels -> Nat] /\ c1.gens \in [Labels -> Nat] /\ c1.next \in Nat
                BY <2>1 DEF CatType
            <3> DEFINE f == [c1.ids EXCEPT ![l] = c1.next]
            <3>5. f \in [Labels -> Nat] /\ c1.next + 1 \in Nat
                BY <3>4
            <3> HIDE DEF r, f
            <3>6. QED
                BY <3>3, <3>4, <3>5 DEF CatType, f
        <2> HIDE DEF r
        <2>3. c1.ids \in [Labels -> Nat] /\ c1.next \in Nat
            BY <2>1 DEF CatType
        <2>4. c1.next > 0
            <3>1. c1.ids[l] < c1.next /\ c1.ids[l] \in Nat
                BY <2>1, <2>3 DEF Above
            <3>2. QED
                BY <2>3, <3>1
        <2>5. \A k \in Labels : r.ids[k] = IF k = l THEN c1.next ELSE c1.ids[k]
            BY <2>2, <2>3
        <2>6. Above(r.next, r.ids)
            BY <2>1, <2>2, <2>3, <2>5 DEF Above
        <2>7. Distinct(r.ids)
            <3> SUFFICES ASSUME NEW m \in Labels, NEW k \in Labels, r.ids[m] = r.ids[k], r.ids[m] # 0
                         PROVE  m = k
                BY DEF Distinct
            <3>1. c1.ids[m] < c1.next /\ c1.ids[k] < c1.next /\ c1.ids[m] \in Nat /\ c1.ids[k] \in Nat
                BY <2>1, <2>3 DEF Above
            <3>2. (m = l) <=> (k = l)
                BY <2>3, <2>5, <3>1
            <3>3. m # l => c1.ids[m] = c1.ids[k] /\ c1.ids[m] # 0
                BY <2>5, <3>2
            <3>4. QED
                BY <2>1, <3>2, <3>3 DEF Distinct
        <2>8. Extends(c1.ids, r.ids) /\ Extends(c.ids, r.ids)
            BY <1>2, <2>1, <2>5 DEF Extends
        <2>9. r.ids[l] # 0
            BY <2>3, <2>4, <2>5
        <2>10. QED
            BY <2>2, <2>6, <2>7, <2>8, <2>9 DEF r, Grows, CatOk
    <1>3. QED
        BY <1>1, <1>2

\* The loop of resolve_node_label_for_write over the labels of a request.
IsResolveLoop(r, c, request, n) ==
    r = [k \in 0..n |-> IF k = 0 THEN c ELSE ResolveOne(r[k - 1], request[k])]

\* There is such a loop.
LEMMA ResolveLoopExists ==
    ASSUME NEW c, NEW request, NEW m \in Nat
    PROVE  \E r : IsResolveLoop(r, c, request, m)
    <1> DEFINE S == {n \in Nat : \E r : IsResolveLoop(r, c, request, n)}
    <1>1. 0 \in S
        <2>1. IsResolveLoop([k \in 0..0 |-> c], c, request, 0)
            BY DEF IsResolveLoop
        <2>2. QED
            BY <2>1
    <1>2. ASSUME NEW n \in S PROVE n + 1 \in S
        <2>1. PICK r : IsResolveLoop(r, c, request, n)
            OBVIOUS
        <2> DEFINE t == [k \in 0..(n + 1) |-> IF k <= n THEN r[k] ELSE ResolveOne(r[n], request[n + 1])]
        <2>2. IsResolveLoop(t, c, request, n + 1)
            BY <2>1 DEF IsResolveLoop
        <2>3. QED
            BY <2>2
    <1>3. S = Nat
        <2> HIDE DEF S
        <2>1. QED
            BY <1>1, <1>2, Induction DEF S
    <1>4. QED
        BY <1>3

\* Its turns.
LEMMA ResolveLoopTurns ==
    ASSUME NEW c, NEW request, Len(request) \in Nat
    PROVE  /\ ResolveLoop(c, request)[0] = c
           /\ \A k \in 1..Len(request) :
                 ResolveLoop(c, request)[k] = ResolveOne(ResolveLoop(c, request)[k - 1], request[k])
    <1>1. IsResolveLoop(ResolveLoop(c, request), c, request, Len(request))
        <2>1. ResolveLoop(c, request) = CHOOSE r : IsResolveLoop(r, c, request, Len(request))
            BY DEF ResolveLoop, IsResolveLoop
        <2>2. QED
            BY <2>1, ResolveLoopExists
    <1>2. QED
        BY <1>1 DEF IsResolveLoop

\* After k labels of the request.
Resolved(c, request, k) ==
    LET r == ResolveLoop(c, request)[k]
    IN  Grows(c, r) /\ \A i \in 1..k : r.ids[request[i]] # 0

\* Resolving a request keeps every label's id and gives each label of the request one.
LEMMA ResolveGrows ==
    ASSUME NEW c, CatOk(c), NEW request \in Seq(Labels)
    PROVE  /\ Grows(c, Resolve(c, request))
           /\ \A i \in 1..Len(request) : Resolve(c, request).ids[request[i]] # 0
    <1> DEFINE S == {k \in Nat : k <= Len(request) => Resolved(c, request, k)}
               r == ResolveLoop(c, request)
    <1>1. Len(request) \in Nat /\ c \in CatType
        BY DEF CatOk
    <1>2. 0 \in S
        <2>1. r[0] = c
            BY <1>1, ResolveLoopTurns
        <2>2. Grows(c, c)
            BY DEF Grows, Extends
        <2>3. QED
            BY <2>1, <2>2 DEF Resolved
    <1>3. ASSUME NEW k \in S PROVE k + 1 \in S
        <2> SUFFICES ASSUME k + 1 <= Len(request) PROVE Resolved(c, request, k + 1)
            OBVIOUS
        <2>1. k + 1 \in 1..Len(request) /\ request[k + 1] \in Labels /\ k \in Nat
            BY <1>1
        <2>2. r[k + 1] = ResolveOne(r[k], request[k + 1])
            BY <1>1, <2>1, ResolveLoopTurns
        <2>3. Grows(c, r[k]) /\ \A i \in 1..k : r[k].ids[request[i]] # 0
            BY <1>1 DEF Resolved
        <2> HIDE DEF r
        <2>4. /\ Grows(c, r[k + 1])
              /\ Extends(r[k].ids, r[k + 1].ids)
              /\ r[k + 1].ids[request[k + 1]] # 0
            BY <1>1, <2>1, <2>2, <2>3, ResolveOneGrows
        <2>5. ASSUME NEW i \in 1..(k + 1) PROVE r[k + 1].ids[request[i]] # 0
            <3>1. request[i] \in Labels
                BY <1>1, <2>1
            <3>2. CASE i = k + 1
                BY <2>4, <3>2
            <3>3. CASE i # k + 1
                <4>1. i \in 1..k
                    BY <2>1, <3>3
                <4>2. QED
                    BY <2>3, <2>4, <3>1, <4>1 DEF Extends
            <3>4. QED
                BY <3>2, <3>3
        <2>6. QED
            BY <2>4, <2>5 DEF Resolved, r
    <1>4. S = Nat
        <2> HIDE DEF S
        <2>1. QED
            BY <1>2, <1>3, Induction DEF S
    <1>5. Resolved(c, request, Len(request))
        BY <1>1, <1>4
    <1>6. QED
        BY <1>5 DEF Resolved, Resolve

\* Ids among distinct ids are distinct.
LEMMA ExtendsDistinct ==
    ASSUME NEW f, NEW h, Extends(f, h), Distinct(h)
    PROVE  Distinct(f)
    BY DEF Extends, Distinct

\* What a token says, as ids f that mean it say it.
LEMMA TokenForm ==
    ASSUME NEW f, NEW ts, Means(f, ts), NEW t \in ts
    PROVE  /\ Label(t) \in Labels /\ Id(t) \in Nat \ {0}
           /\ t = <<Label(t), f[Label(t)]>> /\ f[Label(t)] = Id(t)
    <1>1. t \in Token /\ f[Label(t)] = Id(t)
        BY DEF Means
    <1>2. QED
        BY <1>1 DEF Token, Label, Id

\* Tokens that mean the same as the ids h, entered into the ids f.
LEMMA AssignIs ==
    ASSUME NEW f \in [Labels -> Nat], NEW h \in [Labels -> Nat], NEW ts, Means(h, ts)
    PROVE  /\ Assign(f, ts) \in [Labels -> Nat]
           /\ \A l \in Labels : Assign(f, ts)[l] = IF <<l, h[l]>> \in ts THEN h[l] ELSE f[l]
           /\ \A l \in Labels : (\E t \in ts : Label(t) = l) <=> <<l, h[l]>> \in ts
    <1>1. ASSUME NEW l \in Labels
          PROVE  /\ Assign(f, ts)[l] = IF <<l, h[l]>> \in ts THEN h[l] ELSE f[l]
                 /\ (\E t \in ts : Label(t) = l) <=> <<l, h[l]>> \in ts
        <2>1. \A t \in ts : Label(t) = l => t = <<l, h[l]>> /\ Id(t) = h[l]
            BY TokenForm
        <2>2. Label(<<l, h[l]>>) = l
            BY DEF Label
        <2>3. (\E t \in ts : Label(t) = l) <=> <<l, h[l]>> \in ts
            BY <2>1, <2>2
        <2>4. Assign(f, ts)[l]
                = IF \E t \in ts : Label(t) = l THEN Id(CHOOSE t \in ts : Label(t) = l) ELSE f[l]
            BY DEF Assign
        <2>5. (\E t \in ts : Label(t) = l) => Id(CHOOSE t \in ts : Label(t) = l) = h[l]
            BY <2>1
        <2>6. QED
            BY <2>3, <2>4, <2>5
    <1>2. Assign(f, ts) = [l \in Labels |-> Assign(f, ts)[l]]
        BY DEF Assign
    <1>3. \A l \in Labels : Assign(f, ts)[l] \in Nat
        BY <1>1
    <1>4. QED
        BY <1>1, <1>2, <1>3

\* Where the ids assigned lie.
LEMMA AssignBetween ==
    ASSUME NEW f \in [Labels -> Nat], NEW h \in [Labels -> Nat], NEW ts, Means(h, ts), Extends(f, h)
    PROVE  /\ Extends(f, Assign(f, ts)) /\ Extends(Assign(f, ts), h)
           /\ Means(Assign(f, ts), ts)
    <1>1. \A l \in Labels : Assign(f, ts)[l] = IF <<l, h[l]>> \in ts THEN h[l] ELSE f[l]
        BY AssignIs
    <1>2. ASSUME NEW t \in ts PROVE t \in Token /\ Assign(f, ts)[Label(t)] = Id(t)
        <2>1. Label(t) \in Labels /\ t = <<Label(t), h[Label(t)]>> /\ h[Label(t)] = Id(t)
            BY TokenForm
        <2>2. QED
            BY <1>1, <2>1 DEF Means
    <1>3. QED
        BY <1>1, <1>2 DEF Extends, Means

\* The tokens of a plan: entered into the catalog it was made from, they give the plan's ids.
LEMMA CreatedIs ==
    ASSUME NEW c1 \in CatType, NEW c2 \in CatType, Extends(c1.ids, c2.ids)
    PROVE  /\ Means(c2.ids, Created(c1, c2))
           /\ Assign(c1.ids, Created(c1, c2)) = c2.ids
           /\ \A l \in Labels : <<l, c2.ids[l]>> \in Created(c1, c2) <=> c2.ids[l] # 0 /\ c1.ids[l] = 0
    <1>1. c1.ids \in [Labels -> Nat] /\ c2.ids \in [Labels -> Nat]
        BY DEF CatType
    <1>2. \A t : t \in Created(c1, c2)
                   <=> \E l \in Labels : t = <<l, c2.ids[l]>> /\ c2.ids[l] # 0 /\ c1.ids[l] = 0
        BY DEF Created, Tokens, Known
    <1>3. Means(c2.ids, Created(c1, c2))
        <2> SUFFICES ASSUME NEW t \in Created(c1, c2)
                     PROVE  t \in Token /\ c2.ids[Label(t)] = Id(t)
            BY DEF Means
        <2>1. PICK l \in Labels : t = <<l, c2.ids[l]>> /\ c2.ids[l] # 0
            BY <1>2
        <2>2. c2.ids[l] \in Nat
            BY <1>1
        <2>3. QED
            BY <2>1, <2>2 DEF Token, Label, Id
    <1>4. \A l \in Labels : <<l, c2.ids[l]>> \in Created(c1, c2) <=> c2.ids[l] # 0 /\ c1.ids[l] = 0
        BY <1>2
    <1>5. \A l \in Labels : Assign(c1.ids, Created(c1, c2))[l] = c2.ids[l]
        <2> SUFFICES ASSUME NEW l \in Labels PROVE Assign(c1.ids, Created(c1, c2))[l] = c2.ids[l]
            OBVIOUS
        <2>1. Assign(c1.ids, Created(c1, c2))[l]
                = IF <<l, c2.ids[l]>> \in Created(c1, c2) THEN c2.ids[l] ELSE c1.ids[l]
            BY <1>1, <1>3, AssignIs
        <2>2. c1.ids[l] \in {0, c2.ids[l]}
            BY DEF Extends
        <2>3. QED
            BY <1>4, <2>1, <2>2
    <1>6. Assign(c1.ids, Created(c1, c2)) \in [Labels -> Nat]
        BY <1>1, <1>3, AssignIs
    <1>7. QED
        BY <1>1, <1>3, <1>4, <1>5, <1>6

\* apply_node_label keeps a catalog in order, for tokens that mean what the ids h say.
LEMMA ApplyNodeLabelsIs ==
    ASSUME NEW c \in CatType, Above(c.next, c.ids), NEW h \in [Labels -> Nat], Distinct(h),
           Extends(c.ids, h), NEW ts, Means(h, ts), NEW gen \in Nat
    PROVE  /\ CatOk(ApplyNodeLabels(c, ts, gen))
           /\ ApplyNodeLabels(c, ts, gen).ids = Assign(c.ids, ts)
    <1> DEFINE r == ApplyNodeLabels(c, ts, gen)
    <1>1. c.ids \in [Labels -> Nat] /\ c.gens \in [Labels -> Nat] /\ c.next \in Nat
        BY DEF CatType
    <1>2. /\ r.ids = Assign(c.ids, ts) /\ r.next = NextAfter(c.next, Ids(ts))
          /\ r = [ids |-> r.ids, gens |-> r.gens, next |-> r.next]
        BY DEF ApplyNodeLabels
    <1>3. r.gens \in [Labels -> Nat]
        BY <1>1 DEF ApplyNodeLabels
    <1>4. r.ids \in [Labels -> Nat] /\ Extends(r.ids, h)
        BY <1>1, <1>2, AssignIs, AssignBetween
    <1>5. \A i \in Ids(ts) : \E l \in Labels : i = h[l]
        BY TokenForm DEF Ids
    <1>6. r.next \in Nat /\ c.next <= r.next /\ \A i \in Ids(ts) : i < r.next
        BY <1>1, <1>2, <1>5, NextAfterBounds
    <1>7. r \in CatType
        <2> HIDE DEF r
        <2>1. QED
            BY <1>2, <1>3, <1>4, <1>6 DEF CatType
    <1>8. ASSUME NEW l \in Labels PROVE r.ids[l] < r.next
        <2>1. r.ids[l] = IF <<l, h[l]>> \in ts THEN h[l] ELSE c.ids[l]
            BY <1>1, <1>2, AssignIs
        <2>2. <<l, h[l]>> \in ts => h[l] \in Ids(ts)
            BY DEF Ids, Id
        <2>3. c.ids[l] < c.next /\ c.ids[l] \in Nat
            BY <1>1 DEF Above
        <2> HIDE DEF r
        <2>4. QED
            BY <1>1, <1>6, <2>1, <2>2, <2>3
    <1>9. Distinct(r.ids)
        BY <1>4, ExtendsDistinct
    <1> HIDE DEF r
    <1>10. QED
        BY <1>2, <1>7, <1>8, <1>9 DEF r, CatOk, Above

\* Tokens of one numbering never conflict.
LEMMA NoConflict ==
    ASSUME NEW c, NEW h \in [Labels -> Nat], Distinct(h), Extends(c.ids, h), NEW ts, Means(h, ts),
           NEW t \in ts
    PROVE  ~Conflicts(c, t)
    <1>1. Label(t) \in Labels /\ Id(t) # 0 /\ h[Label(t)] = Id(t)
        BY TokenForm
    <1>2. c.ids[Label(t)] \in {0, Id(t)}
        BY <1>1 DEF Extends
    <1>3. ASSUME c.ids[Label(t)] = 0, NEW k \in Labels, Id(t) = c.ids[k] PROVE FALSE
        <2>1. c.ids[k] = h[k]
            BY <1>1, <1>3 DEF Extends
        <2>2. k = Label(t)
            BY <1>1, <1>3, <2>1 DEF Distinct
        <2>3. QED
            BY <1>1, <1>3, <2>2
    <1>4. QED
        BY <1>2, <1>3 DEF Conflicts, Taken

\* A catalog extended by a plan: the plan's ids, in order.
LEMMA AppliedPlan ==
    ASSUME NEW c, CatOk(c), NEW c2, Grows(c, c2), NEW gen \in Nat
    PROVE  /\ CatOk(ApplyNodeLabels(c, Created(c, c2), gen))
           /\ ApplyNodeLabels(c, Created(c, c2), gen).ids = c2.ids
    <1>1. c \in CatType /\ c2 \in CatType /\ Distinct(c2.ids) /\ Extends(c.ids, c2.ids) /\ Above(c.next, c.ids)
        BY DEF CatOk, Grows
    <1>2. c2.ids \in [Labels -> Nat]
        BY <1>1 DEF CatType
    <1>3. Means(c2.ids, Created(c, c2)) /\ Assign(c.ids, Created(c, c2)) = c2.ids
        BY <1>1, CreatedIs
    <1>4. QED
        BY <1>1, <1>2, <1>3, ApplyNodeLabelsIs

\* SetToSeq lists every label of a set.
LEMMA SetToSeqOfLabels ==
    ASSUME NEW S \in SUBSET Labels
    PROVE  SetToSeq(S) \in Seq(Labels) /\ \A l \in S : \E i \in 1..Len(SetToSeq(S)) : SetToSeq(S)[i] = l
    <1>1. IsFiniteSet(S)
        BY CatalogAssumption, FS_Subset
    <1>2. Cardinality(S) \in Nat /\ ExistsBijection(1..Cardinality(S), S)
        BY <1>1, FS_CardinalityType
    <1> DEFINE n == Cardinality(S)
               q == SetToSeq(S)
    <1>3. \E f \in [1..n -> S] : IsInjective(f)
        BY <1>2 DEF ExistsBijection, Bijection, Injection
    <1>4. q \in [1..n -> S] /\ IsInjective(q)
        BY <1>3 DEF SetToSeq
    <1>5. q \in Injection(1..n, S)
        BY <1>4 DEF Injection
    <1>6. Cardinality(1..n) = n
        BY <1>2, FS_Interval
    <1> HIDE DEF n, q
    <1>7. q \in Surjection(1..n, S)
        BY <1>1, <1>5, <1>6, FS_Injection DEF n
    <1>8. n \in Nat
        BY <1>2 DEF n
    <1>9. q \in Seq(S) /\ Len(q) = n
        BY <1>4, <1>8
    <1>10. q \in Seq(Labels)
        BY <1>4, <1>8
    <1>11. \A l \in S : \E i \in 1..n : q[i] = l
        BY <1>7 DEF Surjection
    <1>12. QED
        BY <1>9, <1>10, <1>11 DEF q

\* A plan without new labels has the ids of the catalog.
LEMMA CreatedNone ==
    ASSUME NEW c1 \in CatType, NEW c2 \in CatType, Extends(c1.ids, c2.ids), Created(c1, c2) = {}
    PROVE  c2.ids = c1.ids
    <1>1. c1.ids \in [Labels -> Nat]
        BY DEF CatType
    <1>2. Assign(c1.ids, {}) = c2.ids
        BY CreatedIs
    <1>3. Assign(c1.ids, {}) = [l \in Labels |-> c1.ids[l]]
        BY DEF Assign
    <1>4. QED
        BY <1>1, <1>2, <1>3

\* The catalog is a plan of its own, without new labels.
LEMMA GrowsSelf ==
    ASSUME NEW c, CatOk(c)
    PROVE  Grows(c, c) /\ Created(c, c) = {}
    BY DEF Grows, Extends, Created, Tokens

\* Ids among ids among ids.
LEMMA ExtendsTrans ==
    ASSUME NEW f, NEW g, NEW h, Extends(f, g), Extends(g, h)
    PROVE  Extends(f, h)
    BY DEF Extends

\* Tokens keep their meaning in more ids.
LEMMA MeansExtends ==
    ASSUME NEW f, NEW h, NEW ts, Means(f, ts), Extends(f, h)
    PROVE  Means(h, ts)
    <1> SUFFICES ASSUME NEW t \in ts PROVE t \in Token /\ h[Label(t)] = Id(t)
        BY DEF Means
    <1>1. Label(t) \in Labels /\ Id(t) # 0 /\ f[Label(t)] = Id(t)
        BY TokenForm
    <1>2. f[Label(t)] \in {0, h[Label(t)]}
        BY <1>1 DEF Extends
    <1>3. QED
        BY <1>1, <1>2 DEF Means

-----------------------------------------------------------------------------
(* Manifests *)

SchemaType ==
    [node : SUBSET [on : Token, never : Token], edge : SUBSET [from : SUBSET Token, to : SUBSET Token]]
DiskType ==
    [tokens : [Labels -> Nat], next : Nat, active : 1..MaxGen, frozen : SUBSET (1..MaxGen),
     schemas : SchemaType, policy : SUBSET Labels, indexes : SUBSET Token]

SchemaTokens(s) ==
    (UNION {{e.on, e.never} : e \in s.node}) \cup (UNION {e.from \cup e.to : e \in s.edge})

\* What a manifest refers to is in its own catalog.
RefersTo(f, s, policy, indexes) ==
    Means(f, SchemaTokens(s)) /\ policy \subseteq Known(f) /\ Means(f, indexes)
ManifestOk(m) ==
    /\ m \in DiskType /\ Above(m.next, m.tokens)
    /\ RefersTo(m.tokens, m.schemas, m.policy, m.indexes)
    /\ \A g \in m.frozen : g < m.active

\* The manifest r is m with tokens more, all of them among the ids h.
Advances(m, r, h) ==
    /\ r \in DiskType /\ Above(r.next, r.tokens)
    /\ Extends(m.tokens, r.tokens) /\ Extends(r.tokens, h)
    /\ r.active = m.active /\ r.frozen = m.frozen
    /\ r.schemas = m.schemas /\ r.policy = m.policy /\ r.indexes = m.indexes

\* The manifest m with other tokens.
TokensSet(m, f, n) == [m EXCEPT !.tokens = f, !.next = n]

\* A manifest with other tokens.
LEMMA WithTokens ==
    ASSUME NEW m \in DiskType, NEW f \in [Labels -> Nat], NEW n \in Nat, NEW h,
           Extends(m.tokens, f), Extends(f, h), Above(n, f)
    PROVE  Advances(m, TokensSet(m, f, n), h)
    <1> DEFINE r == TokensSet(m, f, n)
    <1>1. r \in DiskType
        BY DEF DiskType, TokensSet
    <1>2. /\ r.tokens = f /\ r.next = n /\ r.active = m.active /\ r.frozen = m.frozen
          /\ r.schemas = m.schemas /\ r.policy = m.policy /\ r.indexes = m.indexes
        BY DEF DiskType, TokensSet
    <1> HIDE DEF r
    <1>3. Advances(m, r, h)
        BY <1>1, <1>2 DEF Advances
    <1>4. QED
        BY <1>3 DEF r

\* stage_label_tokens_in_manifest
LEMMA StageAdvances ==
    ASSUME NEW m \in DiskType, Above(m.next, m.tokens), NEW h \in [Labels -> Nat],
           Extends(m.tokens, h), NEW ts, Means(h, ts)
    PROVE  Advances(m, Stage(m, ts), h) /\ Means(Stage(m, ts).tokens, ts)
    <1> DEFINE f == Assign(m.tokens, ts)
               n == NextAfter(m.next, Ids(ts))
    <1>1. m.tokens \in [Labels -> Nat] /\ m.next \in Nat
        BY DEF DiskType
    <1>2. f \in [Labels -> Nat] /\ Extends(m.tokens, f) /\ Extends(f, h) /\ Means(f, ts)
        BY <1>1, AssignIs, AssignBetween
    <1>3. \A i \in Ids(ts) : \E l \in Labels : i = h[l]
        BY TokenForm DEF Ids
    <1>4. n \in Nat /\ m.next <= n /\ \A i \in Ids(ts) : i < n
        BY <1>1, <1>3, NextAfterBounds
    <1>5. ASSUME NEW l \in Labels PROVE f[l] < n
        <2>1. f[l] = IF <<l, h[l]>> \in ts THEN h[l] ELSE m.tokens[l]
            BY <1>1, AssignIs
        <2>2. <<l, h[l]>> \in ts => h[l] \in Ids(ts)
            BY DEF Ids, Id
        <2>3. m.tokens[l] < m.next /\ m.tokens[l] \in Nat
            BY <1>1 DEF Above
        <2> HIDE DEF f, n
        <2>4. QED
            BY <1>1, <1>4, <2>1, <2>2, <2>3
    <1>6. Stage(m, ts) = TokensSet(m, f, n)
        BY DEF Stage, TokensSet
    <1> HIDE DEF f, n
    <1>7. Above(n, f)
        BY <1>5 DEF Above
    <1>8. Advances(m, Stage(m, ts), h)
        BY <1>2, <1>4, <1>6, <1>7, WithTokens
    <1>9. Stage(m, ts).tokens = f
        BY <1>6 DEF DiskType, TokensSet
    <1>10. QED
        BY <1>2, <1>8, <1>9

\* apply_checkpointed_to_manifest
LEMMA CheckpointAdvances ==
    ASSUME NEW m \in DiskType, Above(m.next, m.tokens), NEW c \in CatType, Extends(m.tokens, c.ids),
           NEW maxGen
    PROVE  Advances(m, ApplyCheckpointed(m, c, maxGen), c.ids)
    <1> DEFINE f == [l \in Labels |-> IF c.ids[l] # 0 /\ c.gens[l] # 0 /\ c.gens[l] <= maxGen
                                      THEN c.ids[l] ELSE m.tokens[l]]
               n == NextAfter(m.next, Taken(f))
    <1>1. m.tokens \in [Labels -> Nat] /\ m.next \in Nat /\ c.ids \in [Labels -> Nat]
        BY DEF DiskType, CatType
    <1>2. f \in [Labels -> Nat]
        BY <1>1
    <1>3. Extends(m.tokens, f) /\ Extends(f, c.ids)
        BY DEF Extends
    <1>4. ApplyCheckpointed(m, c, maxGen) = TokensSet(m, f, n)
        BY DEF ApplyCheckpointed, TokensSet
    <1> HIDE DEF f
    <1>5. \A i \in Taken(f) : \E l \in Labels : i = f[l]
        BY DEF Taken
    <1>6. n \in Nat /\ m.next <= n /\ \A i \in Taken(f) : i < n
        BY <1>1, <1>2, <1>5, NextAfterBounds
    <1>7. ASSUME NEW l \in Labels PROVE f[l] < n
        <2>1. f[l] = 0 \/ f[l] \in Taken(f)
            BY DEF Taken
        <2>2. m.tokens[l] < m.next /\ m.tokens[l] \in Nat
            BY <1>1 DEF Above
        <2> HIDE DEF n
        <2>3. QED
            BY <1>1, <1>6, <2>1, <2>2
    <1> HIDE DEF n
    <1>8. Above(n, f)
        BY <1>7 DEF Above
    <1>9. QED
        BY <1>2, <1>3, <1>4, <1>6, <1>8, WithTokens

\* apply_to_manifest
LEMMA ApplyAdvances ==
    ASSUME NEW m \in DiskType, NEW c, CatOk(c), Extends(m.tokens, c.ids)
    PROVE  Advances(m, ApplyToManifest(m, c), c.ids) /\ ApplyToManifest(m, c).tokens = c.ids
    <1>1. c.ids \in [Labels -> Nat] /\ c.next \in Nat /\ Above(c.next, c.ids)
        BY DEF CatOk, CatType
    <1>2. Extends(c.ids, c.ids)
        BY DEF Extends
    <1>3. ApplyToManifest(m, c) = TokensSet(m, c.ids, c.next)
        BY DEF ApplyToManifest, TokensSet
    <1>4. QED
        <2>1. Advances(m, ApplyToManifest(m, c), c.ids)
            BY <1>1, <1>2, <1>3, WithTokens
        <2>2. QED
            BY <1>3, <2>1 DEF TokensSet, DiskType

\* One change of a manifest after another.
LEMMA AdvancesTrans ==
    ASSUME NEW m, NEW r, NEW q, NEW h, NEW h2, Advances(m, r, h), Advances(r, q, h2)
    PROVE  Advances(m, q, h2)
    <1>1. Extends(m.tokens, q.tokens)
        BY ExtendsTrans DEF Advances
    <1>2. QED
        BY <1>1 DEF Advances

\* References stay resolved when tokens are added.
LEMMA RefersToExtends ==
    ASSUME NEW f, NEW h, NEW s, NEW policy, NEW indexes, RefersTo(f, s, policy, indexes), Extends(f, h)
    PROVE  RefersTo(h, s, policy, indexes)
    <1>1. Means(h, SchemaTokens(s)) /\ Means(h, indexes)
        BY MeansExtends DEF RefersTo
    <1>2. Known(f) \subseteq Known(h)
        BY DEF Known, Extends
    <1>3. QED
        BY <1>1, <1>2 DEF RefersTo

\* Another schema, policy or set of declarations in a manifest.
LEMMA WithSchemas ==
    ASSUME NEW m \in DiskType, NEW s \in SchemaType
    PROVE  LET r == [m EXCEPT !.schemas = s]
           IN  /\ r \in DiskType /\ r.tokens = m.tokens /\ r.next = m.next /\ r.active = m.active
               /\ r.frozen = m.frozen /\ r.schemas = s /\ r.policy = m.policy /\ r.indexes = m.indexes
    BY DEF DiskType

\* Likewise.
LEMMA WithPolicy ==
    ASSUME NEW m \in DiskType, NEW p \in SUBSET Labels
    PROVE  LET r == [m EXCEPT !.policy = p]
           IN  /\ r \in DiskType /\ r.tokens = m.tokens /\ r.next = m.next /\ r.active = m.active
               /\ r.frozen = m.frozen /\ r.schemas = m.schemas /\ r.policy = p /\ r.indexes = m.indexes
    BY DEF DiskType

\* Likewise.
LEMMA WithIndexes ==
    ASSUME NEW m \in DiskType, NEW x \in SUBSET Token
    PROVE  LET r == [m EXCEPT !.indexes = x]
           IN  /\ r \in DiskType /\ r.tokens = m.tokens /\ r.next = m.next /\ r.active = m.active
               /\ r.frozen = m.frozen /\ r.schemas = m.schemas /\ r.policy = m.policy /\ r.indexes = x
    BY DEF DiskType

-----------------------------------------------------------------------------
(* Records and the log *)

EdgeStates == {"none", "valid", "ended"}
GraphType  == [nodes : [Nodes -> SUBSET Token], edge : EdgeStates]

\* The operations of a batch, by their effect.
IsDelta(d) ==
    /\ DOMAIN d.nodes \subseteq Nodes /\ \A n \in DOMAIN d.nodes : d.nodes[n] \subseteq Token
    /\ d.edge \in EdgeStates \cup {"keep"}
BatchTokens(d) == UNION {d.nodes[n] : n \in DOMAIN d.nodes}

\* The records of g have tokens of f.
GraphMeans(f, g) == \A n \in Nodes : Means(f, g.nodes[n])

\* A batch as replay expects it: its tokens are those of the catalog, and what it writes is
\* known before it (the tokens `known`), created by an earlier batch or by itself.
BatchesOk(f, known, batches) ==
    /\ \A k \in 1..Len(batches) : Means(f, batches[k].tokens)
    /\ \A k \in 1..Len(batches) : \A t \in BatchTokens(batches[k].d) :
           /\ t \in Token
           /\ known[Label(t)] = Id(t) \/ \E j \in 1..k : t \in batches[j].tokens

\* Batches that were written whole, and applied.
Whole(b) == b = [tokens |-> b.tokens, d |-> b.d, applied |-> TRUE]
Batches(batches) ==
    /\ Len(batches) \in Nat /\ batches = [k \in 1..Len(batches) |-> batches[k]]
    /\ \A k \in 1..Len(batches) : batches[k].applied /\ IsDelta(batches[k].d) /\ Whole(batches[k])

\* The log w, for the manifest m and the catalog's ids f: frozen generations hold tokens of the
\* manifest only, since freeze_memtable writes the whole catalog; generations not in use are empty.
LogOk(f, m, w) ==
    /\ w = [g \in 1..MaxGen |-> w[g]] /\ \A g \in 1..MaxGen : Batches(w[g])
    /\ \A g \in 1..MaxGen : g \in m.frozen => BatchesOk(m.tokens, m.tokens, w[g])
    /\ BatchesOk(f, m.tokens, w[m.active])
    /\ \A g \in 1..MaxGen : g \notin m.frozen \cup {m.active} => w[g] = <<>>

\* Every token of the catalog is in the manifest or in the active generation.
Logs(f, known, batches) ==
    \A l \in Labels :
        f[l] # 0 => known[l] # 0 \/ \E k \in 1..Len(batches) : <<l, f[l]>> \in batches[k].tokens

\* The batches look further than the tokens they name only for more to be known.
LEMMA BatchesOkExtends ==
    ASSUME NEW f, NEW f2, NEW known, NEW known2, NEW batches, BatchesOk(f, known, batches),
           Extends(f, f2), Extends(known, known2)
    PROVE  BatchesOk(f2, known2, batches)
    <1>1. \A k \in 1..Len(batches) : Means(f2, batches[k].tokens)
        BY MeansExtends DEF BatchesOk
    <1>2. ASSUME NEW k \in 1..Len(batches), NEW t \in BatchTokens(batches[k].d)
          PROVE  t \in Token /\ (known2[Label(t)] = Id(t) \/ \E j \in 1..k : t \in batches[j].tokens)
        <2>1. t \in Token /\ (known[Label(t)] = Id(t) \/ \E j \in 1..k : t \in batches[j].tokens)
            BY DEF BatchesOk
        <2>2. Label(t) \in Labels /\ Id(t) # 0
            BY <2>1 DEF Token, Label, Id
        <2>3. known[Label(t)] = Id(t) => known2[Label(t)] = Id(t)
            BY <2>2 DEF Extends
        <2>4. QED
            BY <2>1, <2>3
    <1>3. QED
        BY <1>1, <1>2 DEF BatchesOk

\* A batch in the memtable.
LEMMA EffectMeans ==
    ASSUME NEW g \in GraphType, NEW d, IsDelta(d), NEW f, GraphMeans(f, g), Means(f, BatchTokens(d))
    PROVE  Effect(g, d) \in GraphType /\ GraphMeans(f, Effect(g, d))
    <1> DEFINE r == Effect(g, d)
    <1>1. r = [nodes |-> [n \in Nodes |-> IF n \in DOMAIN d.nodes THEN d.nodes[n] ELSE g.nodes[n]],
               edge  |-> IF d.edge = "keep" THEN g.edge ELSE d.edge]
        BY DEF Effect
    <1>2. g.nodes \in [Nodes -> SUBSET Token] /\ g.edge \in EdgeStates
        BY DEF GraphType
    <1>3. ASSUME NEW n \in Nodes PROVE r.nodes[n] \in SUBSET Token /\ Means(f, r.nodes[n])
        <2>1. CASE n \in DOMAIN d.nodes
            <3>1. r.nodes[n] = d.nodes[n]
                BY <1>1, <2>1
            <3>2. d.nodes[n] \subseteq Token /\ d.nodes[n] \subseteq BatchTokens(d)
                BY <2>1 DEF IsDelta, BatchTokens
            <3>3. QED
                BY <3>1, <3>2 DEF Means
        <2>2. CASE n \notin DOMAIN d.nodes
            <3>1. r.nodes[n] = g.nodes[n]
                BY <1>1, <2>2
            <3>2. QED
                BY <1>2, <3>1 DEF GraphMeans
        <2>3. QED
            BY <2>1, <2>2
    <1>4. r.edge \in EdgeStates
        BY <1>1, <1>2 DEF IsDelta
    <1>5. r = [nodes |-> r.nodes, edge |-> r.edge] /\ r.nodes = [n \in Nodes |-> r.nodes[n]]
        BY <1>1
    <1> HIDE DEF r
    <1>6. r.nodes \in [Nodes -> SUBSET Token]
        BY <1>3, <1>5
    <1>7. QED
        BY <1>3, <1>4, <1>5, <1>6 DEF r, GraphType, GraphMeans

\* A batch appended to the active generation, with the labels it creates.
LEMMA AppendBatch ==
    ASSUME NEW batches, Batches(batches), NEW f, NEW known, NEW f2, Extends(f, f2),
           Extends(known, f),
           BatchesOk(f, known, batches), Logs(f, known, batches), NEW b,
           b.applied, Whole(b), IsDelta(b.d), Means(f2, b.tokens), Means(f2, BatchTokens(b.d)),
           \A l \in Labels : f2[l] # 0 /\ f[l] = 0 => <<l, f2[l]>> \in b.tokens
    PROVE  /\ Batches(Append(batches, b))
           /\ BatchesOk(f2, known, Append(batches, b))
           /\ Logs(f2, known, Append(batches, b))
    <1> DEFINE r == Append(batches, b)
               n == Len(batches)
    <1>1. n \in Nat /\ batches = [k \in 1..n |-> batches[k]]
        BY DEF Batches
    <1>2. /\ Len(r) = n + 1 /\ r = [k \in 1..(n + 1) |-> r[k]]
          /\ r[n + 1] = b /\ \A k \in 1..n : r[k] = batches[k]
        <2> DEFINE S == {batches[k] : k \in 1..n} \cup {b}
        <2>1. batches \in [1..n -> S] /\ b \in S
            BY <1>1
        <2> HIDE DEF S
        <2>2. batches \in Seq(S)
            BY <1>1, <2>1
        <2>3. /\ r \in Seq(S) /\ Len(r) = n + 1
              /\ r[n + 1] = b /\ \A k \in 1..n : r[k] = batches[k]
            BY <2>1, <2>2, AppendProperties
        <2> HIDE DEF r
        <2>4. r = [k \in 1..Len(r) |-> r[k]]
            BY <2>3
        <2>5. QED
            BY <2>3, <2>4
    <1> HIDE DEF r, n
    <1>3. \A k \in 1..Len(r) : k \in 1..n \/ k = n + 1
        BY <1>1, <1>2
    <1>4. Batches(r)
        <2>1. \A k \in 1..n : batches[k].applied /\ IsDelta(batches[k].d) /\ Whole(batches[k])
            BY DEF Batches, n
        <2>2. \A k \in 1..Len(r) : r[k].applied /\ IsDelta(r[k].d) /\ Whole(r[k])
            BY <1>2, <1>3, <2>1
        <2>3. Len(r) \in Nat /\ r = [k \in 1..Len(r) |-> r[k]]
            BY <1>1, <1>2
        <2>4. QED
            BY <2>2, <2>3 DEF Batches
    <1>5. \A l \in Labels : f2[l] # 0 =>
             known[l] # 0 \/ \E k \in 1..(n + 1) : <<l, f2[l]>> \in r[k].tokens
        <2> SUFFICES ASSUME NEW l \in Labels, f2[l] # 0, known[l] = 0
                     PROVE  \E k \in 1..(n + 1) : <<l, f2[l]>> \in r[k].tokens
            OBVIOUS
        <2>1. CASE f[l] = 0
            <3>1. <<l, f2[l]>> \in b.tokens
                BY <2>1
            <3>2. QED
                BY <1>1, <1>2, <3>1
        <2>2. CASE f[l] # 0
            <3>1. f2[l] = f[l]
                BY <2>2 DEF Extends
            <3>2. PICK k \in 1..n : <<l, f[l]>> \in batches[k].tokens
                BY <2>2 DEF Logs, n
            <3>3. r[k] = batches[k]
                BY <1>2, <3>2
            <3>4. k \in 1..(n + 1)
                BY <1>1, <3>2
            <3>5. QED
                BY <3>1, <3>2, <3>3, <3>4
        <2>3. QED
            BY <2>1, <2>2
    <1>6. Logs(f2, known, r)
        BY <1>2, <1>5 DEF Logs
    <1>7. \A k \in 1..n : Means(f2, batches[k].tokens)
        BY MeansExtends DEF BatchesOk, n
    <1>8. \A k \in 1..Len(r) : Means(f2, r[k].tokens)
        BY <1>2, <1>3, <1>7
    <1>9. ASSUME NEW k \in 1..Len(r), NEW t \in BatchTokens(r[k].d)
          PROVE  t \in Token /\ (known[Label(t)] = Id(t) \/ \E j \in 1..k : t \in r[j].tokens)
        <2>1. CASE k \in 1..n
            <3>1. t \in BatchTokens(batches[k].d)
                BY <1>2, <2>1
            <3>2. t \in Token /\ (known[Label(t)] = Id(t) \/ \E j \in 1..k : t \in batches[j].tokens)
                BY <2>1, <3>1 DEF BatchesOk, n
            <3>3. \A j \in 1..k : j \in 1..n
                BY <1>1, <2>1
            <3>4. QED
                BY <1>2, <3>2, <3>3
        <2>2. CASE k = n + 1
            <3>1. t \in BatchTokens(b.d)
                BY <1>2, <2>2
            <3>2. Label(t) \in Labels /\ Id(t) # 0 /\ t = <<Label(t), f2[Label(t)]>> /\ f2[Label(t)] = Id(t)
                BY <3>1, TokenForm
            <3>3. t \in Token
                BY <3>1 DEF Means
            <3>4. CASE known[Label(t)] # 0
                <4>1. known[Label(t)] = f[Label(t)] /\ f[Label(t)] = f2[Label(t)]
                    BY <3>2, <3>4 DEF Extends
                <4>2. QED
                    BY <3>2, <3>3, <4>1
            <3>5. CASE known[Label(t)] = 0
                BY <1>5, <2>2, <3>2, <3>3, <3>5
            <3>6. QED
                BY <3>4, <3>5
        <2>3. QED
            BY <1>3, <2>1, <2>2
    <1>10. BatchesOk(f2, known, r)
        BY <1>8, <1>9 DEF BatchesOk
    <1>11. QED
        BY <1>4, <1>6, <1>10 DEF r

-----------------------------------------------------------------------------
(* The invariant behind LabelsKeepMeaning.  A reference to a token is always  *)
(* in the same place as the token or after it: references in the manifest    *)
(* have their token in the manifest, batches of a generation have theirs     *)
(* there or in the generation, at their place or before.                     *)

CatalogOk == CatOk(cat) /\ ManifestOk(disk) /\ Extends(disk.tokens, cat.ids)
MemoryOk  == mem = Manifest /\ rules = disk.schemas /\ pubIds = cat.ids
RecordsOk ==
    /\ graph \in GraphType /\ GraphMeans(cat.ids, graph)
    /\ stored \in GraphType /\ GraphMeans(disk.tokens, stored)
LogsOk ==
    /\ LogOk(cat.ids, disk, wal)
    /\ pc = "up" /\ Durable => Logs(cat.ids, disk.tokens, wal[disk.active])
PhaseOk ==
    /\ pc \in {"up", "down"} /\ (pc = "down" => Durable)
    /\ profile \in Profiles /\ synced \in Nat
Labelled == CatalogOk /\ MemoryOk /\ RecordsOk /\ LogsOk /\ PhaseOk

\* Records keep their meaning in more ids.
LEMMA GraphMeansExtends ==
    ASSUME NEW f, NEW h, NEW g, GraphMeans(f, g), Extends(f, h)
    PROVE  GraphMeans(h, g)
    BY MeansExtends DEF GraphMeans

\* The log stays in order when tokens are added to the manifest and to the catalog.
LEMMA LogOkExtends ==
    ASSUME NEW f, NEW m, NEW w, LogOk(f, m, w), NEW f2, NEW m2, Extends(f, f2),
           Extends(m.tokens, m2.tokens), m2.active = m.active, m2.frozen = m.frozen
    PROVE  LogOk(f2, m2, w)
    <1>1. \A g \in 1..MaxGen : g \in m2.frozen => BatchesOk(m2.tokens, m2.tokens, w[g])
        BY BatchesOkExtends DEF LogOk
    <1>2. BatchesOk(f2, m2.tokens, w[m2.active])
        BY BatchesOkExtends DEF LogOk
    <1>3. QED
        BY <1>1, <1>2 DEF LogOk

\* What a planned write does when nothing fails.
LEMMA WriteDoes ==
    ASSUME NEW c, NEW d, Write(c, d), ~faulted'
    PROVE  /\ cat' = ApplyNodeLabels(cat, Created(cat, c), disk.active)
           /\ graph' = Effect(graph, d)
           /\ pubIds' = IF Created(cat, c) # {} THEN cat'.ids ELSE pubIds
           /\ wal' = IF Durable THEN Logged([tokens |-> Created(cat, c), d |-> d, applied |-> TRUE]) ELSE wal
           /\ synced' = IF Durable /\ profile.mode = "immediate"
                        THEN Len(wal[disk.active]) + 1 ELSE synced
           /\ UNCHANGED <<mem, rules, disk, stored, pc, profile, lost, faulted>>
           /\ ValidateOps(rules, graph, d)
    BY DEF Write, hist

\* A planned write keeps the invariant.
LEMMA WriteKeeps ==
    ASSUME Labelled, pc = "up", NEW c, Grows(cat, c), NEW d, IsDelta(d), Means(c.ids, BatchTokens(d)),
           Write(c, d), ~faulted'
    PROVE  Labelled'
    <1> DEFINE new == Created(cat, c)
               b   == [tokens |-> new, d |-> d, applied |-> TRUE]
    <1>1. /\ cat' = ApplyNodeLabels(cat, new, disk.active) /\ graph' = Effect(graph, d)
          /\ pubIds' = (IF new # {} THEN cat'.ids ELSE pubIds)
          /\ wal' = (IF Durable THEN Logged(b) ELSE wal)
          /\ synced' = (IF Durable /\ profile.mode = "immediate"
                        THEN Len(wal[disk.active]) + 1 ELSE synced)
          /\ mem' = mem /\ rules' = rules /\ disk' = disk /\ stored' = stored /\ pc' = pc
          /\ profile' = profile
        BY WriteDoes
    <1>2. /\ CatOk(cat) /\ ManifestOk(disk) /\ Extends(disk.tokens, cat.ids)
          /\ LogOk(cat.ids, disk, wal) /\ (Durable => Logs(cat.ids, disk.tokens, wal[disk.active]))
        BY DEF Labelled, CatalogOk, LogsOk
    <1>3. disk \in DiskType /\ disk.active \in 1..MaxGen /\ disk.active \in Nat
        BY <1>2, CatalogAssumption DEF ManifestOk, DiskType
    <1>4. cat \in CatType /\ c \in CatType /\ Extends(cat.ids, c.ids)
        BY <1>2 DEF CatOk, Grows
    <1>5. CatOk(cat') /\ cat'.ids = c.ids
        BY <1>1, <1>2, <1>3, AppliedPlan
    <1>6. Means(c.ids, new) /\ \A l \in Labels : c.ids[l] # 0 /\ cat.ids[l] = 0 => <<l, c.ids[l]>> \in new
        BY <1>4, CreatedIs
    <1>7. pubIds' = cat'.ids
        <2>1. pubIds = cat.ids
            BY DEF Labelled, MemoryOk
        <2>2. new = {} => c.ids = cat.ids
            BY <1>4, CreatedNone
        <2> HIDE DEF new
        <2>3. QED
            BY <1>1, <1>5, <2>1, <2>2
    <1>8. CatalogOk'
        <2>1. Extends(disk.tokens, c.ids)
            BY <1>2, <1>4, ExtendsTrans
        <2>2. QED
            BY <1>1, <1>2, <1>5, <2>1 DEF CatalogOk
    <1>9. MemoryOk'
        BY <1>1, <1>7 DEF Labelled, MemoryOk, Manifest
    <1>10. RecordsOk'
        <2>1. /\ graph \in GraphType /\ GraphMeans(cat.ids, graph)
              /\ stored \in GraphType /\ GraphMeans(disk.tokens, stored)
            BY DEF Labelled, RecordsOk
        <2>2. GraphMeans(c.ids, graph)
            BY <1>4, <2>1, GraphMeansExtends
        <2>3. graph' \in GraphType /\ GraphMeans(c.ids, graph')
            BY <1>1, <2>1, <2>2, EffectMeans
        <2>4. QED
            BY <1>1, <1>5, <2>1, <2>3 DEF RecordsOk
    <1>11. LogsOk'
        <2>1. LogOk(c.ids, disk, wal)
            <3>1. Extends(disk.tokens, disk.tokens)
                BY DEF Extends
            <3>2. QED
                BY <1>2, <1>4, <3>1, LogOkExtends
        <2>2. CASE ~Durable
            <3>1. wal' = wal /\ ~Durable'
                BY <1>1, <2>2 DEF Durable
            <3>2. QED
                BY <1>1, <1>5, <2>1, <3>1 DEF LogsOk
        <2>3. CASE Durable
            <3> DEFINE a == disk.active
            <3>1. wal' = [wal EXCEPT ![a] = Append(@, b)]
                BY <1>1, <2>3 DEF Logged
            <3>2. wal = [g \in 1..MaxGen |-> wal[g]] /\ Batches(wal[a]) /\ BatchesOk(cat.ids, disk.tokens, wal[a])
                BY <1>2, <1>3 DEF LogOk
            <3>3. b.tokens = new /\ b.d = d /\ b.applied /\ Whole(b)
                BY DEF Whole
            <3> HIDE DEF b, new
            <3>4. /\ Batches(Append(wal[a], b))
                  /\ BatchesOk(c.ids, disk.tokens, Append(wal[a], b))
                  /\ Logs(c.ids, disk.tokens, Append(wal[a], b))
                BY <1>2, <1>4, <1>6, <2>3, <3>2, <3>3, AppendBatch
            <3>5. /\ wal' = [g \in 1..MaxGen |-> wal'[g]] /\ wal'[a] = Append(wal[a], b)
                  /\ \A g \in 1..MaxGen : g # a => wal'[g] = wal[g]
                BY <1>3, <3>1, <3>2
            <3> DEFINE w == wal'
            <3>6. LogOk(c.ids, disk, w)
                <4> HIDE DEF w
                <4>1. w = [g \in 1..MaxGen |-> w[g]] /\ w[a] = Append(wal[a], b)
                    BY <3>5 DEF w
                <4>2. \A g \in 1..MaxGen : g # a => w[g] = wal[g]
                    BY <3>5 DEF w
                <4>3. \A g \in 1..MaxGen : Batches(w[g])
                    BY <2>1, <3>4, <4>1, <4>2 DEF LogOk
                <4>4. \A g \in disk.frozen : g # a
                    BY <1>2, <1>3 DEF ManifestOk
                <4>5. \A g \in 1..MaxGen : g \in disk.frozen => BatchesOk(disk.tokens, disk.tokens, w[g])
                    BY <2>1, <4>2, <4>4 DEF LogOk
                <4>6. \A g \in 1..MaxGen : g \notin disk.frozen \cup {a} => w[g] = <<>>
                    BY <2>1, <4>2 DEF LogOk
                <4>7. QED
                    BY <3>4, <4>1, <4>3, <4>5, <4>6 DEF LogOk
            <3>7. QED
                BY <1>1, <1>5, <3>4, <3>5, <3>6 DEF LogsOk
        <2>4. QED
            BY <2>2, <2>3
    <1>12. PhaseOk'
        <2>1. Len(wal[disk.active]) \in Nat
            BY <1>2, <1>3 DEF LogOk, Batches
        <2>2. synced' \in Nat
            BY <1>1, <2>1 DEF Labelled, PhaseOk
        <2>3. QED
            BY <1>1, <2>2 DEF Labelled, PhaseOk, Durable
    <1>13. QED
        BY <1>8, <1>9, <1>10, <1>11, <1>12 DEF Labelled

\* The manifest m, written by a call that planned with the labels of c.
Proposed(m, c) ==
    /\ Grows(cat, c) /\ ManifestOk(m)
    /\ m.active = disk.active /\ m.frozen = disk.frozen
    /\ Extends(disk.tokens, m.tokens) /\ Extends(m.tokens, c.ids)
    /\ Means(m.tokens, Created(cat, c))

\* What a manifest write does when nothing fails.
LEMMA ManifestWriteDoes ==
    ASSUME NEW m, NEW new, NEW schemas, NEW publish, WriteManifest(m, new, schemas, publish), ~faulted'
    PROVE  /\ disk' = m /\ mem' = [schemas |-> m.schemas, policy |-> m.policy]
           /\ cat' = ApplyNodeLabels(cat, new, 0) /\ rules' = schemas
           /\ pubIds' = IF publish THEN cat'.ids ELSE pubIds
           /\ UNCHANGED <<graph, wal, synced, stored, pc, profile, lost, faulted>>
    BY DEF WriteManifest, hist

\* A manifest write keeps the invariant.
LEMMA ManifestWriteKeeps ==
    ASSUME Labelled, pc = "up", NEW c, NEW m, Proposed(m, c), NEW new, new = Created(cat, c),
           NEW schemas, schemas = m.schemas, NEW publish \in BOOLEAN, publish \/ new = {},
           WriteManifest(m, new, schemas, publish), ~faulted'
    PROVE  Labelled'
    <1>1. /\ disk' = m /\ mem' = [schemas |-> m.schemas, policy |-> m.policy]
          /\ cat' = ApplyNodeLabels(cat, new, 0) /\ rules' = schemas
          /\ pubIds' = (IF publish THEN cat'.ids ELSE pubIds)
          /\ graph' = graph /\ wal' = wal /\ synced' = synced /\ stored' = stored /\ pc' = pc
          /\ profile' = profile
        BY ManifestWriteDoes
    <1>2. /\ CatOk(cat) /\ ManifestOk(disk) /\ Extends(disk.tokens, cat.ids)
          /\ LogOk(cat.ids, disk, wal) /\ (Durable => Logs(cat.ids, disk.tokens, wal[disk.active]))
        BY DEF Labelled, CatalogOk, LogsOk
    <1>3. /\ Grows(cat, c) /\ ManifestOk(m) /\ m.active = disk.active /\ m.frozen = disk.frozen
          /\ Extends(disk.tokens, m.tokens) /\ Extends(m.tokens, c.ids) /\ Means(m.tokens, new)
        BY DEF Proposed
    <1>4. cat \in CatType /\ c \in CatType /\ Extends(cat.ids, c.ids)
        BY <1>2, <1>3 DEF CatOk, Grows
    <1>5. CatOk(cat') /\ cat'.ids = c.ids
        BY <1>1, <1>2, <1>3, AppliedPlan
    <1>6. pubIds' = cat'.ids
        <2>1. pubIds = cat.ids
            BY DEF Labelled, MemoryOk
        <2>2. new = {} => c.ids = cat.ids
            BY <1>4, CreatedNone
        <2>3. QED
            BY <1>1, <1>5, <2>1, <2>2
    <1>7. CatalogOk'
        BY <1>1, <1>3, <1>5 DEF CatalogOk
    <1>8. MemoryOk'
        BY <1>1, <1>6 DEF MemoryOk, Manifest
    <1>9. RecordsOk'
        <2>1. /\ graph \in GraphType /\ GraphMeans(cat.ids, graph)
              /\ stored \in GraphType /\ GraphMeans(disk.tokens, stored)
            BY DEF Labelled, RecordsOk
        <2>2. GraphMeans(c.ids, graph) /\ GraphMeans(m.tokens, stored)
            BY <1>3, <1>4, <2>1, GraphMeansExtends
        <2>3. QED
            BY <1>1, <1>5, <2>1, <2>2 DEF RecordsOk
    <1>10. LogsOk'
        <2>1. LogOk(c.ids, m, wal)
            BY <1>2, <1>3, <1>4, LogOkExtends
        <2>2. ASSUME Durable PROVE Logs(c.ids, m.tokens, wal[m.active])
            <3> SUFFICES ASSUME NEW l \in Labels, c.ids[l] # 0, m.tokens[l] = 0
                         PROVE  \E k \in 1..Len(wal[disk.active]) : <<l, c.ids[l]>> \in wal[disk.active][k].tokens
                BY <1>3 DEF Logs
            <3>1. cat.ids[l] # 0
                <4> SUFFICES ASSUME cat.ids[l] = 0 PROVE FALSE
                    OBVIOUS
                <4>1. <<l, c.ids[l]>> \in new
                    BY <1>4, CreatedIs
                <4>2. m.tokens[l] = c.ids[l]
                    BY <1>3, <4>1 DEF Means, Label, Id
                <4>3. QED
                    BY <4>2
            <3>2. disk.tokens[l] = 0
                BY <1>3 DEF Extends
            <3>3. cat.ids[l] = c.ids[l]
                BY <1>4, <3>1 DEF Extends
            <3>4. QED
                BY <1>2, <2>2, <3>1, <3>2, <3>3 DEF Logs
        <2>3. Durable' = Durable
            BY <1>1 DEF Durable
        <2>4. QED
            BY <1>1, <1>5, <2>1, <2>2, <2>3 DEF LogsOk
    <1>11. PhaseOk'
        BY <1>1 DEF Labelled, PhaseOk, Durable
    <1>12. QED
        BY <1>7, <1>8, <1>9, <1>10, <1>11 DEF Labelled

\* A manifest reached by adding tokens, with other references, is one a call may write.
LEMMA ProposedIs ==
    ASSUME CatalogOk, NEW c, Grows(cat, c), NEW r, Advances(disk, r, c.ids), NEW m \in DiskType,
           m.tokens = r.tokens, m.next = r.next, m.active = r.active, m.frozen = r.frozen,
           RefersTo(m.tokens, m.schemas, m.policy, m.indexes),
           Means(m.tokens, Created(cat, c))
    PROVE  Proposed(m, c)
    BY DEF Proposed, Advances, CatalogOk, ManifestOk

\* load_current_manifest_for_write
LEMMA LoadedAdvances ==
    ASSUME CatalogOk
    PROVE  Advances(disk, Loaded, cat.ids)
    BY CheckpointAdvances DEF CatalogOk, ManifestOk, CatOk, Loaded

\* What the manifest on disk refers to, a later manifest with the same references still names.
LEMMA RefersToAdvances ==
    ASSUME CatalogOk, NEW r, NEW h, Advances(disk, r, h)
    PROVE  RefersTo(r.tokens, r.schemas, r.policy, r.indexes)
    BY RefersToExtends DEF CatalogOk, ManifestOk, Advances

\* Resolving one label creates at most that label.
LEMMA ResolveSingle ==
    ASSUME NEW c, CatOk(c), NEW l \in Labels
    PROVE  LET r == Resolve(c, <<l>>)
           IN  /\ Grows(c, r) /\ r.ids[l] # 0 /\ Means(r.ids, {<<l, r.ids[l]>>})
               /\ Created(c, r) \subseteq {<<l, r.ids[l]>>}
    <1> DEFINE q == <<l>>
               r == Resolve(c, q)
    <1>1. q \in Seq(Labels) /\ Len(q) = 1 /\ q[1] = l
        OBVIOUS
    <1>2. Grows(c, r) /\ r.ids[l] # 0
        <2> HIDE DEF q
        <2>1. Grows(c, r) /\ \A i \in 1..Len(q) : r.ids[q[i]] # 0
            BY <1>1, ResolveGrows
        <2> HIDE DEF r
        <2>2. QED
            BY <1>1, <2>1
    <1>3. r = ResolveOne(c, l)
        <2> HIDE DEF q
        <2>1. Len(q) \in Nat /\ 1 \in 1..Len(q)
            BY <1>1
        <2>2. ResolveLoop(c, q)[1] = ResolveOne(ResolveLoop(c, q)[1 - 1], q[1]) /\ ResolveLoop(c, q)[0] = c
            BY <2>1, ResolveLoopTurns
        <2>3. QED
            BY <1>1, <2>2 DEF Resolve
    <1>4. c \in CatType /\ r \in CatType
        BY <1>2 DEF CatOk, Grows
    <1> HIDE DEF r
    <1>5. \A k \in Labels : k # l => r.ids[k] = c.ids[k]
        BY <1>3, <1>4 DEF ResolveOne, CatType
    <1>6. r.ids[l] \in Nat
        BY <1>4 DEF CatType
    <1>7. Means(r.ids, {<<l, r.ids[l]>>})
        BY <1>2, <1>6 DEF Means, Token, Label, Id
    <1>8. \A t \in Created(c, r) : t = <<l, r.ids[l]>>
        BY <1>5 DEF Created, Tokens, Known
    <1>9. QED
        BY <1>2, <1>7, <1>8 DEF r

-----------------------------------------------------------------------------
(* The calls that write the manifest *)

\* Staging the label of a declaration.
LEMMA StagedLabel ==
    ASSUME CatalogOk, NEW l \in Labels, NEW c, c = Resolve(cat, <<l>>)
    PROVE  /\ Grows(cat, c) /\ c.ids[l] # 0 /\ <<l, c.ids[l]>> \in Token
           /\ Advances(disk, Stage(Loaded, LabelsToStage(c, l)), c.ids)
           /\ Means(Stage(Loaded, LabelsToStage(c, l)).tokens, {<<l, c.ids[l]>>})
           /\ Means(Stage(Loaded, LabelsToStage(c, l)).tokens, Created(cat, c))
    <1> DEFINE ts == {<<l, c.ids[l]>>}
    <1>1. Grows(cat, c) /\ c.ids[l] # 0 /\ Means(c.ids, ts) /\ Created(cat, c) \subseteq ts
        BY ResolveSingle DEF CatalogOk
    <1>2. LabelsToStage(c, l) = ts
        BY DEF LabelsToStage
    <1>3. <<l, c.ids[l]>> \in Token
        BY <1>1 DEF Means
    <1> HIDE DEF ts
    <1>4. Advances(disk, Loaded, cat.ids)
        BY LoadedAdvances
    <1>5. Loaded \in DiskType /\ Above(Loaded.next, Loaded.tokens) /\ Extends(Loaded.tokens, cat.ids)
        BY <1>4 DEF Advances
    <1>6. c.ids \in [Labels -> Nat] /\ Extends(cat.ids, c.ids)
        BY <1>1 DEF Grows, CatOk, CatType
    <1>7. Extends(Loaded.tokens, c.ids)
        BY <1>5, <1>6, ExtendsTrans
    <1>8. Advances(Loaded, Stage(Loaded, ts), c.ids) /\ Means(Stage(Loaded, ts).tokens, ts)
        BY <1>1, <1>5, <1>6, <1>7, StageAdvances
    <1>9. Advances(disk, Stage(Loaded, ts), c.ids)
        BY <1>4, <1>8, AdvancesTrans
    <1>10. Means(Stage(Loaded, ts).tokens, Created(cat, c))
        BY <1>1, <1>8 DEF Means
    <1>11. QED
        BY <1>1, <1>2, <1>3, <1>8, <1>9, <1>10 DEF ts

\* ensure_node_property_index: the declaration's label is in the manifest with it.
LEMMA EnsureIndexKeeps ==
    ASSUME Labelled, NEW l \in Labels, EnsureNodePropertyIndex(l), ~faulted'
    PROVE  Labelled'
    <1> DEFINE c == Resolve(cat, <<l>>)
               r == Stage(Loaded, LabelsToStage(c, l))
               declared == c.ids[l] \in Ids(disk.indexes)
               x == IF declared THEN r.indexes ELSE r.indexes \cup {<<l, c.ids[l]>>}
               m == [r EXCEPT !.indexes = x]
    <1>1. pc = "up" /\ WriteManifest(m, Created(cat, c), rules, ~declared)
        BY DEF EnsureNodePropertyIndex, Call
    <1>2. CatalogOk /\ rules = disk.schemas
        BY DEF Labelled, MemoryOk
    <1>3. /\ Grows(cat, c) /\ Advances(disk, r, c.ids) /\ <<l, c.ids[l]>> \in Token
          /\ Means(r.tokens, {<<l, c.ids[l]>>}) /\ Means(r.tokens, Created(cat, c))
        BY <1>2, StagedLabel
    <1>4. r \in DiskType /\ RefersTo(r.tokens, r.schemas, r.policy, r.indexes) /\ r.schemas = disk.schemas
        BY <1>2, <1>3, RefersToAdvances DEF Advances
    \* A declared label is known already.
    <1>11. declared => Created(cat, c) = {}
        <2>1. /\ c.ids[l] # 0 /\ Created(cat, c) \subseteq {<<l, c.ids[l]>>} /\ Means(disk.tokens, disk.indexes)
              /\ c.ids \in [Labels -> Nat] /\ Distinct(c.ids)
              /\ Extends(disk.tokens, cat.ids) /\ Extends(cat.ids, c.ids)
            BY <1>2, <1>3, ResolveSingle DEF CatalogOk, ManifestOk, RefersTo, Grows, CatOk, CatType
        <2> HIDE DEF c
        <2>2. ASSUME declared PROVE cat.ids[l] # 0
            <3>1. PICK t \in disk.indexes : Id(t) = c.ids[l]
                BY <2>2 DEF Ids
            <3>2. Label(t) \in Labels /\ disk.tokens[Label(t)] = c.ids[l]
                BY <2>1, <3>1 DEF Means, Token, Label
            <3>3. cat.ids[Label(t)] = c.ids[l] /\ c.ids[Label(t)] = c.ids[l]
                BY <2>1, <3>2 DEF Extends
            <3>4. Label(t) = l
                BY <2>1, <3>2, <3>3 DEF Distinct
            <3>5. QED
                BY <2>1, <3>3, <3>4
        <2>3. cat.ids[l] # 0 => <<l, c.ids[l]>> \notin Created(cat, c)
            BY DEF Created, Tokens, Known
        <2>4. QED
            BY <2>1, <2>2, <2>3
    <1> HIDE DEF c, r, declared
    <1>5. x \in SUBSET Token
        BY <1>3, <1>4 DEF DiskType
    <1>6. Means(r.tokens, x)
        BY <1>3, <1>4 DEF Means, RefersTo
    <1> HIDE DEF x
    <1>7. /\ m \in DiskType /\ m.tokens = r.tokens /\ m.next = r.next /\ m.active = r.active
          /\ m.frozen = r.frozen /\ m.schemas = r.schemas /\ m.policy = r.policy /\ m.indexes = x
        BY <1>4, <1>5, WithIndexes
    <1> HIDE DEF m
    <1>8. RefersTo(m.tokens, m.schemas, m.policy, m.indexes)
        BY <1>4, <1>6, <1>7 DEF RefersTo
    <1>9. Proposed(m, c)
        BY <1>2, <1>3, <1>7, <1>8, ProposedIs
    <1>10. (~declared) \in BOOLEAN
        BY DEF declared
    <1>12. QED
        BY <1>1, <1>2, <1>4, <1>7, <1>9, <1>10, <1>11, ManifestWriteKeeps

\* drop_node_property_index
LEMMA DropIndexKeeps ==
    ASSUME Labelled, NEW l \in Labels, DropNodePropertyIndex(l), ~faulted'
    PROVE  Labelled'
    <1> DEFINE r == Loaded
               x == {t \in r.indexes : Id(t) # cat.ids[l]}
               m == [r EXCEPT !.indexes = x]
    <1>1. pc = "up" /\ WriteManifest(m, {}, rules, TRUE)
        BY DEF DropNodePropertyIndex, Call
    <1>2. CatalogOk /\ rules = disk.schemas
        BY DEF Labelled, MemoryOk
    <1>3. Grows(cat, cat) /\ Created(cat, cat) = {} /\ Advances(disk, r, cat.ids)
        BY <1>2, GrowsSelf, LoadedAdvances DEF CatalogOk
    <1>4. r \in DiskType /\ RefersTo(r.tokens, r.schemas, r.policy, r.indexes) /\ r.schemas = disk.schemas
        BY <1>2, <1>3, RefersToAdvances DEF Advances
    <1> HIDE DEF r
    <1>5. x \in SUBSET Token
        BY <1>4 DEF DiskType
    <1>6. Means(r.tokens, x)
        BY <1>4 DEF Means, RefersTo
    <1> HIDE DEF x
    <1>7. /\ m \in DiskType /\ m.tokens = r.tokens /\ m.next = r.next /\ m.active = r.active
          /\ m.frozen = r.frozen /\ m.schemas = r.schemas /\ m.policy = r.policy /\ m.indexes = x
        BY <1>4, <1>5, WithIndexes
    <1> HIDE DEF m
    <1>8. RefersTo(m.tokens, m.schemas, m.policy, m.indexes)
        BY <1>4, <1>6, <1>7 DEF RefersTo
    <1>9. Means(m.tokens, Created(cat, cat))
        BY <1>3 DEF Means
    <1>10. Proposed(m, cat)
        BY <1>2, <1>3, <1>7, <1>8, <1>9, ProposedIs
    <1>11. QED
        BY <1>1, <1>2, <1>3, <1>4, <1>7, <1>10, ManifestWriteKeeps

\* set_prune_policy: the label a policy names is in the manifest with it.
LEMMA SetPolicyKeeps ==
    ASSUME Labelled, NEW l \in Labels, SetPrunePolicy(l), ~faulted'
    PROVE  Labelled'
    <1> DEFINE c == Resolve(cat, <<l>>)
               r == Stage(Loaded, LabelsToStage(c, l))
               m == [r EXCEPT !.policy = {l}]
    <1>1. pc = "up" /\ WriteManifest(m, Created(cat, c), rules, TRUE)
        BY DEF SetPrunePolicy, Call
    <1>2. CatalogOk /\ rules = disk.schemas
        BY DEF Labelled, MemoryOk
    <1>3. /\ Grows(cat, c) /\ Advances(disk, r, c.ids) /\ c.ids[l] # 0
          /\ Means(r.tokens, {<<l, c.ids[l]>>}) /\ Means(r.tokens, Created(cat, c))
        BY <1>2, StagedLabel
    <1>4. r \in DiskType /\ RefersTo(r.tokens, r.schemas, r.policy, r.indexes) /\ r.schemas = disk.schemas
        BY <1>2, <1>3, RefersToAdvances DEF Advances
    <1> HIDE DEF c, r
    <1>5. {l} \in SUBSET Labels /\ r.tokens[l] = c.ids[l]
        BY <1>3 DEF Means, Label, Id
    <1>6. {l} \subseteq Known(r.tokens)
        BY <1>3, <1>5 DEF Known
    <1>7. /\ m \in DiskType /\ m.tokens = r.tokens /\ m.next = r.next /\ m.active = r.active
          /\ m.frozen = r.frozen /\ m.schemas = r.schemas /\ m.policy = {l} /\ m.indexes = r.indexes
        BY <1>4, <1>5, WithPolicy
    <1> HIDE DEF m
    <1>8. RefersTo(m.tokens, m.schemas, m.policy, m.indexes)
        BY <1>4, <1>6, <1>7 DEF RefersTo
    <1>9. Proposed(m, c)
        BY <1>2, <1>3, <1>7, <1>8, ProposedIs
    <1>10. QED
        BY <1>1, <1>2, <1>4, <1>7, <1>9, ManifestWriteKeeps

\* remove_prune_policy
LEMMA RemovePolicyKeeps ==
    ASSUME Labelled, RemovePrunePolicy, ~faulted'
    PROVE  Labelled'
    <1> DEFINE r == Loaded
               m == [r EXCEPT !.policy = {}]
    <1>1. pc = "up" /\ WriteManifest(m, {}, rules, TRUE)
        BY DEF RemovePrunePolicy, Call
    <1>2. CatalogOk /\ rules = disk.schemas
        BY DEF Labelled, MemoryOk
    <1>3. Grows(cat, cat) /\ Created(cat, cat) = {} /\ Advances(disk, r, cat.ids)
        BY <1>2, GrowsSelf, LoadedAdvances DEF CatalogOk
    <1>4. r \in DiskType /\ RefersTo(r.tokens, r.schemas, r.policy, r.indexes) /\ r.schemas = disk.schemas
        BY <1>2, <1>3, RefersToAdvances DEF Advances
    <1> HIDE DEF r
    <1>5. {} \in SUBSET Labels
        OBVIOUS
    <1>6. /\ m \in DiskType /\ m.tokens = r.tokens /\ m.next = r.next /\ m.active = r.active
          /\ m.frozen = r.frozen /\ m.schemas = r.schemas /\ m.policy = {} /\ m.indexes = r.indexes
        BY <1>4, <1>5, WithPolicy
    <1> HIDE DEF m
    <1>7. RefersTo(m.tokens, m.schemas, m.policy, m.indexes)
        BY <1>4, <1>6 DEF RefersTo
    <1>8. Means(m.tokens, Created(cat, cat))
        BY <1>3 DEF Means
    <1>9. Proposed(m, cat)
        BY <1>2, <1>3, <1>6, <1>7, <1>8, ProposedIs
    <1>10. QED
        BY <1>1, <1>2, <1>3, <1>4, <1>6, <1>9, ManifestWriteKeeps

-----------------------------------------------------------------------------
(* The schema calls *)

\* The tokens of schemas, entry by entry.
EntriesMean(f, s) ==
    /\ \A e \in s.node : Means(f, {e.on}) /\ Means(f, {e.never})
    /\ \A e \in s.edge : Means(f, e.from) /\ Means(f, e.to)

\* The two ways to say it.
LEMMA EntriesMeanIs ==
    ASSUME NEW f, NEW s
    PROVE  Means(f, SchemaTokens(s)) <=> EntriesMean(f, s)
    <1>1. ASSUME Means(f, SchemaTokens(s)) PROVE EntriesMean(f, s)
        <2>1. ASSUME NEW e \in s.node PROVE e.on \in SchemaTokens(s) /\ e.never \in SchemaTokens(s)
            <3>1. {e.on, e.never} \in {{x.on, x.never} : x \in s.node}
                OBVIOUS
            <3>2. QED
                BY <3>1, Zenon DEF SchemaTokens
        <2>2. ASSUME NEW e \in s.edge
              PROVE  e.from \subseteq SchemaTokens(s) /\ e.to \subseteq SchemaTokens(s)
            <3>1. e.from \cup e.to \in {x.from \cup x.to : x \in s.edge}
                OBVIOUS
            <3>2. QED
                BY <3>1, Zenon DEF SchemaTokens
        <2>3. QED
            BY <1>1, <2>1, <2>2 DEF EntriesMean, Means
    <1>2. ASSUME EntriesMean(f, s), NEW t \in SchemaTokens(s) PROVE t \in Token /\ f[Label(t)] = Id(t)
        <2>1. \/ \E e \in s.node : t \in {e.on, e.never}
              \/ \E e \in s.edge : t \in e.from \cup e.to
            <3>1. CASE t \in UNION {{e.on, e.never} : e \in s.node}
                <4>1. PICK T \in {{e.on, e.never} : e \in s.node} : t \in T
                    BY <3>1, Zenon
                <4>2. QED
                    BY <4>1
            <3>2. CASE t \in UNION {e.from \cup e.to : e \in s.edge}
                <4>1. PICK T \in {e.from \cup e.to : e \in s.edge} : t \in T
                    BY <3>2, Zenon
                <4>2. QED
                    BY <4>1
            <3>3. QED
                BY <3>1, <3>2, Zenon DEF SchemaTokens
        <2>2. QED
            BY <1>2, <2>1 DEF EntriesMean, Means
    <1>3. QED
        BY <1>1, <1>2 DEF Means

\* Schemas whose tokens are among the ids f.
SchemasOver(f, s) == s \in SchemaType /\ EntriesMean(f, s)

\* The entry of a node schema.
LEMMA NodeEntryMeans ==
    ASSUME NEW c \in CatType, NEW l \in Labels, NEW x \in Labels, c.ids[l] # 0, c.ids[x] # 0
    PROVE  /\ NodeEntry(c, l, x) \in [on : Token, never : Token]
           /\ Means(c.ids, {NodeEntry(c, l, x).on}) /\ Means(c.ids, {NodeEntry(c, l, x).never})
    <1>1. c.ids[l] \in Nat /\ c.ids[x] \in Nat
        BY DEF CatType
    <1>2. <<l, c.ids[l]>> \in Token /\ <<x, c.ids[x]>> \in Token
        BY <1>1 DEF Token
    <1>3. QED
        BY <1>2 DEF NodeEntry, Means, Label, Id

\* The tokens of known labels.
LEMMA TokensMean ==
    ASSUME NEW f \in [Labels -> Nat], NEW ls \in SUBSET Labels, \A l \in ls : f[l] # 0
    PROVE  Tokens(f, ls) \in SUBSET Token /\ Means(f, Tokens(f, ls))
    <1>1. ASSUME NEW t \in Tokens(f, ls) PROVE t \in Token /\ f[Label(t)] = Id(t)
        <2>1. PICK l \in ls : t = <<l, f[l]>>
            BY DEF Tokens
        <2>2. f[l] \in Nat /\ f[l] # 0 /\ l \in Labels
            OBVIOUS
        <2>3. QED
            BY <2>1, <2>2 DEF Token, Label, Id
    <1>2. QED
        BY <1>1 DEF Means

\* A node schema entered or replaced.
LEMMA EnteredNode ==
    ASSUME NEW c \in CatType, NEW s, SchemasOver(c.ids, s), NEW e \in [on : Token, never : Token],
           Means(c.ids, {e.on}), Means(c.ids, {e.never})
    PROVE  SchemasOver(c.ids, [s EXCEPT !.node = UpsertEntry(s.node, e)])
    <1> DEFINE N == UpsertEntry(s.node, e)
               r == [s EXCEPT !.node = N]
    <1>1. N \subseteq s.node \cup {e}
        BY DEF UpsertEntry
    <1> HIDE DEF N
    <1>2. s \in SchemaType /\ EntriesMean(c.ids, s)
        BY DEF SchemasOver
    <1>3. N \in SUBSET [on : Token, never : Token]
        BY <1>1, <1>2 DEF SchemaType
    <1>4. r \in SchemaType /\ r.node = N /\ r.edge = s.edge
        BY <1>2, <1>3 DEF SchemaType
    <1> HIDE DEF r
    <1>5. EntriesMean(c.ids, r)
        BY <1>1, <1>2, <1>4 DEF EntriesMean
    <1>6. QED
        BY <1>4, <1>5 DEF SchemasOver, r, N

\* Some entries of valid schemas.
LEMMA FewerEntries ==
    ASSUME NEW f, NEW s, SchemasOver(f, s), NEW r \in SchemaType,
           r.node \subseteq s.node, r.edge \subseteq s.edge
    PROVE  SchemasOver(f, r)
    BY DEF SchemasOver, EntriesMean

\* The schemas on disk.
LEMMA DiskSchemasOver ==
    ASSUME Labelled, NEW f, Extends(cat.ids, f)
    PROVE  SchemasOver(f, disk.schemas) /\ mem.schemas = disk.schemas /\ rules = disk.schemas
    <1>1. disk.schemas \in SchemaType /\ Means(disk.tokens, SchemaTokens(disk.schemas))
        BY DEF Labelled, CatalogOk, ManifestOk, RefersTo, DiskType
    <1>2. Extends(disk.tokens, f)
        BY ExtendsTrans DEF Labelled, CatalogOk
    <1>3. Means(f, SchemaTokens(disk.schemas))
        BY <1>1, <1>2, MeansExtends
    <1>4. QED
        BY <1>1, <1>3, EntriesMeanIs DEF SchemasOver, Labelled, MemoryOk, Manifest

\* A schema publication: the whole catalog goes into the manifest with the schemas.
LEMMA PublishKeeps ==
    ASSUME Labelled, pc = "up", NEW c, Grows(cat, c), NEW proposed, NEW nodeTargets, NEW edgeTarget,
           NEW published, NEW always \in BOOLEAN, SchemasOver(c.ids, published),
           PublishSchemas(c, proposed, nodeTargets, edgeTarget, published, always), ~faulted'
    PROVE  Labelled'
    <1> DEFINE new == Created(cat, c)
               q   == ApplyToManifest(Loaded, cat)
               r   == Stage(q, new)
               m   == [r EXCEPT !.schemas = published]
    <1>1. WriteManifest(m, new, published, always \/ new # {})
        BY DEF PublishSchemas
    <1>2. CatalogOk /\ CatOk(cat)
        BY DEF Labelled, CatalogOk
    <1>3. cat \in CatType /\ c \in CatType /\ Extends(cat.ids, c.ids) /\ c.ids \in [Labels -> Nat]
        BY <1>2 DEF CatOk, Grows, CatType
    <1>4. Means(c.ids, new)
        BY <1>3, CreatedIs
    <1>5. Advances(disk, Loaded, cat.ids)
        BY <1>2, LoadedAdvances
    <1>6. Advances(Loaded, q, cat.ids) /\ q.tokens = cat.ids
        BY <1>2, <1>5, ApplyAdvances DEF Advances
    <1>7. q \in DiskType /\ Above(q.next, q.tokens)
        BY <1>6 DEF Advances
    <1>8. Advances(q, r, c.ids) /\ Means(r.tokens, new)
        <2> HIDE DEF q
        <2>1. QED
            BY <1>3, <1>4, <1>6, <1>7, StageAdvances
    <1>9. Advances(disk, r, c.ids)
        BY <1>5, <1>6, <1>8, AdvancesTrans
    <1>10. r.tokens = c.ids
        <2>1. r.tokens = Assign(q.tokens, new)
            <3> HIDE DEF q, new
            <3>1. QED
                BY <1>7 DEF Stage, DiskType
        <2>2. QED
            BY <1>3, <1>6, <2>1, CreatedIs
    <1>11. r \in DiskType /\ RefersTo(r.tokens, r.schemas, r.policy, r.indexes)
        BY <1>2, <1>9, RefersToAdvances DEF Advances
    <1>12. published \in SchemaType /\ Means(c.ids, SchemaTokens(published))
        BY EntriesMeanIs DEF SchemasOver
    <1> HIDE DEF r
    <1>13. /\ m \in DiskType /\ m.tokens = r.tokens /\ m.next = r.next /\ m.active = r.active
           /\ m.frozen = r.frozen /\ m.schemas = published /\ m.policy = r.policy /\ m.indexes = r.indexes
        BY <1>11, <1>12, WithSchemas
    <1> HIDE DEF m
    <1>14. RefersTo(m.tokens, m.schemas, m.policy, m.indexes)
        BY <1>10, <1>11, <1>12, <1>13 DEF RefersTo
    <1>15. Proposed(m, c)
        BY <1>2, <1>8, <1>9, <1>13, <1>14, ProposedIs
    <1> DEFINE publish == always \/ new # {}
    <1>16. publish \in BOOLEAN /\ (publish \/ new = {}) /\ WriteManifest(m, new, published, publish)
        BY <1>1
    <1> HIDE DEF publish, new
    <1>17. new = Created(cat, c)
        BY DEF new
    <1>18. QED
        BY <1>13, <1>15, <1>16, <1>17, ManifestWriteKeeps

\* The schema drops.
LEMMA DropKeeps ==
    ASSUME Labelled, NEW kind, NEW kept, SchemasOver(disk.tokens, kept), DropSchemas(kind, kept), ~faulted'
    PROVE  Labelled'
    <1> DEFINE r == Loaded
               m == [r EXCEPT !.schemas = kept]
    <1>1. pc = "up" /\ WriteManifest(m, {}, kept, FALSE)
        BY DEF DropSchemas, Call
    <1>2. CatalogOk
        BY DEF Labelled
    <1>3. Grows(cat, cat) /\ Created(cat, cat) = {} /\ Advances(disk, r, cat.ids)
        BY <1>2, GrowsSelf, LoadedAdvances DEF CatalogOk
    <1>4. r \in DiskType /\ RefersTo(r.tokens, r.schemas, r.policy, r.indexes) /\ Extends(disk.tokens, r.tokens)
        BY <1>2, <1>3, RefersToAdvances DEF Advances
    <1>5. kept \in SchemaType /\ Means(disk.tokens, SchemaTokens(kept))
        BY EntriesMeanIs DEF SchemasOver
    <1>6. Means(r.tokens, SchemaTokens(kept))
        BY <1>4, <1>5, MeansExtends
    <1> HIDE DEF r
    <1>7. /\ m \in DiskType /\ m.tokens = r.tokens /\ m.next = r.next /\ m.active = r.active
          /\ m.frozen = r.frozen /\ m.schemas = kept /\ m.policy = r.policy /\ m.indexes = r.indexes
        BY <1>4, <1>5, WithSchemas
    <1> HIDE DEF m
    <1>8. RefersTo(m.tokens, m.schemas, m.policy, m.indexes)
        BY <1>4, <1>6, <1>7 DEF RefersTo
    <1>9. Means(m.tokens, Created(cat, cat))
        BY <1>3 DEF Means
    <1>10. Proposed(m, cat)
        BY <1>2, <1>3, <1>7, <1>8, <1>9, ProposedIs
    <1>11. QED
        BY <1>1, <1>3, <1>7, <1>10, ManifestWriteKeeps

\* A request that names the labels of a set gives them all an id.
LEMMA ResolveRequest ==
    ASSUME CatOk(cat), NEW request \in Seq(Labels), NEW c, c = Resolve(cat, request)
    PROVE  /\ Grows(cat, c) /\ c \in CatType /\ c.ids \in [Labels -> Nat]
           /\ \A i \in 1..Len(request) : c.ids[request[i]] # 0
    <1>1. Grows(cat, c) /\ \A i \in 1..Len(request) : c.ids[request[i]] # 0
        BY ResolveGrows
    <1>2. QED
        BY <1>1 DEF Grows, CatOk, CatType

\* Two labels first, then those of a set.
LEMMA ResolvePair ==
    ASSUME CatOk(cat), NEW l \in Labels, NEW x \in Labels, NEW S \in SUBSET Labels,
           NEW c, c = Resolve(cat, <<l, x>> \o SetToSeq(S))
    PROVE  /\ Grows(cat, c) /\ c \in CatType /\ c.ids \in [Labels -> Nat]
           /\ \A k \in S \cup {l, x} : c.ids[k] # 0
    <1> DEFINE p == <<l, x>>
               q == SetToSeq(S)
               r == p \o q
    <1>1. p \in Seq(Labels) /\ Len(p) = 2 /\ p[1] = l /\ p[2] = x
        OBVIOUS
    <1>2. q \in Seq(Labels) /\ \A k \in S : \E i \in 1..Len(q) : q[i] = k
        BY SetToSeqOfLabels
    <1> HIDE DEF p, q
    <1>3. /\ r \in Seq(Labels) /\ Len(r) = Len(p) + Len(q)
          /\ \A i \in 1..(Len(p) + Len(q)) : r[i] = IF i <= Len(p) THEN p[i] ELSE q[i - Len(p)]
        BY <1>1, <1>2, ConcatProperties
    <1>4. Len(q) \in Nat
        BY <1>2
    <1>5. c = Resolve(cat, r)
        BY DEF p, q
    <1> HIDE DEF r
    <1>6. /\ Grows(cat, c) /\ c \in CatType /\ c.ids \in [Labels -> Nat]
          /\ \A i \in 1..Len(r) : c.ids[r[i]] # 0
        BY <1>3, <1>5, ResolveRequest
    <1>7. c.ids[l] # 0 /\ c.ids[x] # 0
        <2>1. 1 \in 1..(2 + Len(q)) /\ 2 \in 1..(2 + Len(q))
            BY <1>4
        <2>2. r[1] = l /\ r[2] = x
            BY <1>1, <1>3, <2>1
        <2>3. QED
            BY <1>1, <1>3, <1>6, <2>1, <2>2
    <1>8. ASSUME NEW k \in S PROVE c.ids[k] # 0
        <2>1. PICK i \in 1..Len(q) : q[i] = k
            BY <1>2
        <2>2. i + 2 \in 1..(2 + Len(q)) /\ ~(i + 2 <= 2) /\ i + 2 - 2 = i
            BY <1>4
        <2>3. r[i + 2] = k
            BY <1>1, <1>3, <2>1, <2>2
        <2>4. QED
            BY <1>1, <1>3, <1>6, <2>2, <2>3
    <1>9. QED
        BY <1>6, <1>7, <1>8

\* The labels of two optional endpoint rules.
LEMMA LabelSetsAre ==
    ASSUME NEW ls \in LabelSets
    PROVE  ls \in SUBSET Labels
    BY DEF LabelSets

\* The entry of an edge schema.
LEMMA EdgeEntryMeans ==
    ASSUME NEW c \in CatType, NEW from \in SUBSET Labels, NEW to \in SUBSET Labels,
           \A l \in from \cup to : c.ids[l] # 0
    PROVE  /\ EdgeEntry(c, from, to) \in [from : SUBSET Token, to : SUBSET Token]
           /\ Means(c.ids, EdgeEntry(c, from, to).from) /\ Means(c.ids, EdgeEntry(c, from, to).to)
    <1>1. c.ids \in [Labels -> Nat]
        BY DEF CatType
    <1>2. Tokens(c.ids, from) \in SUBSET Token /\ Means(c.ids, Tokens(c.ids, from))
        BY <1>1, TokensMean
    <1>3. Tokens(c.ids, to) \in SUBSET Token /\ Means(c.ids, Tokens(c.ids, to))
        BY <1>1, TokensMean
    <1>4. QED
        BY <1>2, <1>3 DEF EdgeEntry

\* Schemas put together from node entries and one edge entry.
LEMMA WithEdgeEntry ==
    ASSUME NEW c \in CatType, NEW s, SchemasOver(c.ids, s), NEW e \in [from : SUBSET Token, to : SUBSET Token],
           Means(c.ids, e.from), Means(c.ids, e.to)
    PROVE  /\ SchemasOver(c.ids, [s EXCEPT !.edge = {e}])
           /\ SchemasOver(c.ids, [node |-> s.node, edge |-> {e}])
    <1>1. s \in SchemaType /\ EntriesMean(c.ids, s)
        BY DEF SchemasOver
    <1>2. [s EXCEPT !.edge = {e}] = [node |-> s.node, edge |-> {e}]
        BY <1>1 DEF SchemaType
    <1> DEFINE r == [node |-> s.node, edge |-> {e}]
    <1>3. r \in SchemaType /\ r.node = s.node /\ r.edge = {e}
        BY <1>1 DEF SchemaType
    <1> HIDE DEF r
    <1>4. EntriesMean(c.ids, r)
        BY <1>1, <1>3 DEF EntriesMean
    <1>5. QED
        BY <1>2, <1>3, <1>4 DEF SchemasOver, r

\* set_node_schema
LEMMA SetNodeSchemaKeeps ==
    ASSUME Labelled, NEW l \in Labels, NEW x \in Labels, SetNodeSchema(l, x), ~faulted'
    PROVE  Labelled'
    <1> DEFINE c == Resolve(cat, <<l, x>>)
               e == NodeEntry(c, l, x)
               Entered(s) == [s EXCEPT !.node = UpsertEntry(s.node, e)]
    <1>1. /\ pc = "up"
          /\ PublishSchemas(c, Entered(mem.schemas), {c.ids[l]}, FALSE, Entered(disk.schemas), TRUE)
        BY DEF SetNodeSchema, Call
    <1>2. CatOk(cat)
        BY DEF Labelled, CatalogOk
    <1>3. Grows(cat, c) /\ c \in CatType /\ c.ids[l] # 0 /\ c.ids[x] # 0
        <2> DEFINE q == <<l, x>>
        <2>1. q \in Seq(Labels) /\ Len(q) = 2 /\ q[1] = l /\ q[2] = x
            OBVIOUS
        <2>2. 1 \in 1..2 /\ 2 \in 1..2
            OBVIOUS
        <2>3. c = Resolve(cat, q)
            OBVIOUS
        <2> HIDE DEF q, c
        <2>4. Grows(cat, c) /\ c \in CatType /\ \A i \in 1..Len(q) : c.ids[q[i]] # 0
            BY <1>2, <2>1, <2>3, ResolveRequest
        <2>5. QED
            BY <2>1, <2>2, <2>4
    <1>4. Extends(cat.ids, c.ids)
        BY <1>3 DEF Grows
    <1>5. /\ e \in [on : Token, never : Token]
          /\ Means(c.ids, {e.on}) /\ Means(c.ids, {e.never})
        BY <1>3, NodeEntryMeans
    <1>6. SchemasOver(c.ids, disk.schemas)
        BY <1>4, DiskSchemasOver
    <1> HIDE DEF c, e
    <1>7. SchemasOver(c.ids, Entered(disk.schemas))
        BY <1>3, <1>5, <1>6, EnteredNode
    <1>8. QED
        BY <1>1, <1>3, <1>7, PublishKeeps

\* set_edge_schema
LEMMA SetEdgeSchemaKeeps ==
    ASSUME Labelled, NEW from \in LabelSets, NEW to \in LabelSets, SetEdgeSchema(from, to), ~faulted'
    PROVE  Labelled'
    <1> DEFINE q == SetToSeq(from \cup to)
               c == Resolve(cat, q)
               e == EdgeEntry(c, from, to)
               Entered(s) == [s EXCEPT !.edge = {e}]
    <1>1. /\ pc = "up"
          /\ PublishSchemas(c, Entered(mem.schemas), {}, TRUE, Entered(disk.schemas), TRUE)
        BY DEF SetEdgeSchema, Call
    <1>2. CatOk(cat)
        BY DEF Labelled, CatalogOk
    <1>3. from \in SUBSET Labels /\ to \in SUBSET Labels
        BY LabelSetsAre
    <1>4. q \in Seq(Labels) /\ \A l \in from \cup to : \E i \in 1..Len(q) : q[i] = l
        BY <1>3, SetToSeqOfLabels
    <1> HIDE DEF q
    <1>5. Grows(cat, c) /\ c \in CatType /\ \A i \in 1..Len(q) : c.ids[q[i]] # 0
        BY <1>2, <1>4, ResolveRequest
    <1>6. Extends(cat.ids, c.ids) /\ \A l \in from \cup to : c.ids[l] # 0
        BY <1>4, <1>5 DEF Grows
    <1>7. e \in [from : SUBSET Token, to : SUBSET Token] /\ Means(c.ids, e.from) /\ Means(c.ids, e.to)
        BY <1>3, <1>5, <1>6, EdgeEntryMeans
    <1>8. SchemasOver(c.ids, disk.schemas)
        BY <1>6, DiskSchemasOver
    <1> HIDE DEF c, e
    <1>9. SchemasOver(c.ids, Entered(disk.schemas))
        BY <1>5, <1>7, <1>8, WithEdgeEntry
    <1>10. QED
        BY <1>1, <1>5, <1>9, PublishKeeps

\* set_graph_schema and alter_graph_schema
LEMMA GraphSchemaKeeps ==
    ASSUME Labelled, NEW l \in Labels, NEW x \in Labels, NEW from \in LabelSets, NEW to \in LabelSets,
           NEW replaces, GraphSchema(l, x, from, to, replaces), ~faulted'
    PROVE  Labelled'
    <1> DEFINE S == (from \cup to) \ {l, x}
               c == Resolve(cat, <<l, x>> \o SetToSeq(S))
               n == NodeEntry(c, l, x)
               e == EdgeEntry(c, from, to)
               kept     == IF replaces THEN {} ELSE mem.schemas.node
               N        == UpsertEntry(kept, n)
               proposed == [node |-> N, edge |-> {e}]
    <1>1. pc = "up" /\ PublishSchemas(c, proposed, {c.ids[l]}, TRUE, proposed, FALSE)
        BY DEF GraphSchema, Call
    <1>2. CatOk(cat)
        BY DEF Labelled, CatalogOk
    <1>3. from \in SUBSET Labels /\ to \in SUBSET Labels
        BY LabelSetsAre
    <1>4. Grows(cat, c) /\ c \in CatType /\ \A k \in S \cup {l, x} : c.ids[k] # 0
        BY <1>2, <1>3, ResolvePair
    <1> HIDE DEF c
    <1>5. Extends(cat.ids, c.ids) /\ (\A k \in from \cup to : c.ids[k] # 0) /\ c.ids[l] # 0 /\ c.ids[x] # 0
        BY <1>4 DEF Grows
    <1>6. e \in [from : SUBSET Token, to : SUBSET Token] /\ Means(c.ids, e.from) /\ Means(c.ids, e.to)
        BY <1>3, <1>4, <1>5, EdgeEntryMeans
    <1>7. n \in [on : Token, never : Token] /\ Means(c.ids, {n.on}) /\ Means(c.ids, {n.never})
        BY <1>4, <1>5, NodeEntryMeans
    <1>8. SchemasOver(c.ids, disk.schemas) /\ mem.schemas = disk.schemas
        BY <1>5, DiskSchemasOver
    <1> DEFINE s == [node |-> N, edge |-> {}]
    <1>9. SchemasOver(c.ids, s)
        <2>1. N \subseteq disk.schemas.node \cup {n}
            BY <1>8 DEF UpsertEntry
        <2> HIDE DEF N, n
        <2>2. disk.schemas.node \in SUBSET [on : Token, never : Token] /\ EntriesMean(c.ids, disk.schemas)
            BY <1>8 DEF SchemasOver, SchemaType
        <2>3. N \in SUBSET [on : Token, never : Token]
            BY <1>7, <2>1, <2>2
        <2>4. s \in SchemaType
            BY <2>3 DEF SchemaType
        <2>5. EntriesMean(c.ids, s)
            BY <1>7, <2>1, <2>2 DEF EntriesMean
        <2>6. QED
            BY <2>4, <2>5 DEF SchemasOver
    <1>10. SchemasOver(c.ids, proposed)
        <2>1. s.node = N
            OBVIOUS
        <2> HIDE DEF s, N, e
        <2>2. SchemasOver(c.ids, [node |-> s.node, edge |-> {e}])
            BY <1>4, <1>6, <1>9, WithEdgeEntry
        <2>3. QED
            BY <2>1, <2>2
    <1> HIDE DEF proposed
    <1>11. QED
        BY <1>1, <1>4, <1>10, PublishKeeps

\* drop_node_schema, drop_edge_schema, drop_graph_schema
LEMMA DropsKeep ==
    ASSUME Labelled, (\E l \in Labels : DropNodeSchema(l)) \/ DropEdgeSchema \/ DropGraphSchema, ~faulted'
    PROVE  Labelled'
    <1> DEFINE s == disk.schemas
    <1>1. SchemasOver(disk.tokens, s) /\ s \in SchemaType
        <2>1. s \in SchemaType /\ Means(disk.tokens, SchemaTokens(s))
            BY DEF Labelled, CatalogOk, ManifestOk, RefersTo, DiskType
        <2>2. QED
            BY <2>1, EntriesMeanIs DEF SchemasOver
    <1>2. ASSUME NEW l \in Labels, DropNodeSchema(l) PROVE Labelled'
        <2> DEFINE N == {e \in s.node : Id(e.on) # cat.ids[l]}
                   kept == [s EXCEPT !.node = N]
        <2>1. DropSchemas("nodeSchema", kept)
            BY <1>2 DEF DropNodeSchema
        <2>2. N \subseteq s.node
            OBVIOUS
        <2> HIDE DEF N, s
        <2>3. kept \in SchemaType /\ kept.node = N /\ kept.edge = s.edge
            BY <1>1, <2>2 DEF SchemaType
        <2> HIDE DEF kept
        <2>4. SchemasOver(disk.tokens, kept)
            BY <1>1, <2>2, <2>3, FewerEntries
        <2>5. QED
            BY <2>1, <2>4, DropKeeps
    <1>3. ASSUME DropEdgeSchema PROVE Labelled'
        <2> DEFINE kept == [s EXCEPT !.edge = {}]
        <2>1. DropSchemas("edgeSchema", kept)
            BY <1>3 DEF DropEdgeSchema
        <2> HIDE DEF s
        <2>2. kept \in SchemaType /\ kept.node = s.node /\ kept.edge = {}
            BY <1>1 DEF SchemaType
        <2> HIDE DEF kept
        <2>3. SchemasOver(disk.tokens, kept)
            BY <1>1, <2>2, FewerEntries
        <2>4. QED
            BY <2>1, <2>3, DropKeeps
    <1>4. ASSUME DropGraphSchema PROVE Labelled'
        <2>1. DropSchemas("graphSchema", NoSchemas)
            BY <1>4 DEF DropGraphSchema
        <2>2. SchemasOver(disk.tokens, NoSchemas)
            BY DEF SchemasOver, NoSchemas, SchemaType, EntriesMean
        <2>3. QED
            BY <2>1, <2>2, DropKeeps
    <1>5. QED
        BY <1>2, <1>3, <1>4

-----------------------------------------------------------------------------
(* The writes *)

\* A write of tokens alone.
LEMMA SameIs ==
    ASSUME NEW f, NEW state \in EdgeStates \cup {"keep"}
    PROVE  /\ IsDelta([Same EXCEPT !.edge = state]) /\ Means(f, BatchTokens([Same EXCEPT !.edge = state]))
           /\ IsDelta(Same) /\ Means(f, BatchTokens(Same))
    <1>1. Same.nodes = <<>> /\ [Same EXCEPT !.edge = state] = [nodes |-> <<>>, edge |-> state] /\ Same.edge = "keep"
        BY DEF Same
    <1>2. DOMAIN <<>> = {}
        OBVIOUS
    <1>3. QED
        BY <1>1, <1>2 DEF IsDelta, BatchTokens, Means

\* A write of one node.
LEMMA PutIs ==
    ASSUME NEW n \in Nodes, NEW f, NEW ts, Means(f, ts), NEW state \in EdgeStates \cup {"keep"}
    PROVE  /\ IsDelta(Put(n, ts)) /\ Means(f, BatchTokens(Put(n, ts)))
           /\ IsDelta([Put(n, ts) EXCEPT !.edge = state])
           /\ Means(f, BatchTokens([Put(n, ts) EXCEPT !.edge = state]))
    <1>1. ASSUME NEW d, d.nodes = [m \in {n} |-> ts], d.edge \in EdgeStates \cup {"keep"}
          PROVE  IsDelta(d) /\ Means(f, BatchTokens(d))
        <2>1. DOMAIN d.nodes = {n} /\ d.nodes[n] = ts
            BY <1>1
        <2>2. ts \subseteq Token
            BY DEF Means
        <2>3. BatchTokens(d) = ts
            BY <2>1 DEF BatchTokens
        <2>4. QED
            BY <1>1, <2>1, <2>2, <2>3 DEF IsDelta
    <1>2. Put(n, ts).nodes = [m \in {n} |-> ts] /\ Put(n, ts).edge \in EdgeStates \cup {"keep"}
        BY DEF Put
    <1> DEFINE d == [Put(n, ts) EXCEPT !.edge = state]
    <1>3. d.nodes = [m \in {n} |-> ts] /\ d.edge = state
        BY DEF Put
    <1> HIDE DEF d
    <1>4. IsDelta(Put(n, ts)) /\ Means(f, BatchTokens(Put(n, ts)))
        BY <1>1, <1>2
    <1>5. IsDelta(d) /\ Means(f, BatchTokens(d))
        BY <1>1, <1>3
    <1>6. QED
        BY <1>4, <1>5 DEF d

\* A step writes: the labels it plans with and what it writes are in order.
WriteOf(c, d) == Grows(cat, c) /\ IsDelta(d) /\ Means(c.ids, BatchTokens(d)) /\ Write(c, d)
Writing       == pc = "up" /\ \E c, d : WriteOf(c, d)

\* ensure_node_label and the edge calls
LEMMA TokenOrEdgeWrites ==
    ASSUME Labelled, (\E l \in Labels : EnsureNodeLabel(l)) \/ UpsertEdge \/ DeleteEdge \/ InvalidateEdge
    PROVE  Writing
    <1>1. CatOk(cat)
        BY DEF Labelled, CatalogOk
    <1>2. Grows(cat, cat)
        BY <1>1, GrowsSelf
    <1>3. ASSUME NEW l \in Labels, EnsureNodeLabel(l) PROVE Writing
        <2> DEFINE c == Resolve(cat, <<l>>)
        <2>1. pc = "up" /\ Write(c, Same)
            BY <1>3 DEF EnsureNodeLabel, Call
        <2>2. Grows(cat, c)
            BY <1>1, ResolveSingle
        <2> HIDE DEF c
        <2>3. IsDelta(Same) /\ Means(c.ids, BatchTokens(Same))
            BY SameIs
        <2>4. WriteOf(c, Same)
            BY <2>1, <2>2, <2>3 DEF WriteOf
        <2>5. QED
            BY <2>1, <2>4 DEF Writing
    <1>4. ASSUME NEW state \in EdgeStates, pc = "up", WriteEdge(state) PROVE Writing
        <2> DEFINE d == [Same EXCEPT !.edge = state]
        <2>1. Write(cat, d)
            BY <1>4 DEF WriteEdge
        <2>2. IsDelta(d) /\ Means(cat.ids, BatchTokens(d))
            BY SameIs
        <2> HIDE DEF d
        <2>3. WriteOf(cat, d)
            BY <1>2, <2>1, <2>2 DEF WriteOf
        <2>4. QED
            BY <1>4, <2>3 DEF Writing
    <1>5. CASE UpsertEdge \/ DeleteEdge \/ InvalidateEdge
        <2>1. pc = "up" /\ \E state \in EdgeStates : WriteEdge(state)
            BY <1>5 DEF UpsertEdge, DeleteEdge, InvalidateEdge, Call, EdgeStates
        <2>2. QED
            BY <1>4, <2>1
    <1>6. QED
        BY <1>3, <1>5

\* A request of a call lists labels.
LEMMA RequestsAre ==
    ASSUME NEW q \in Requests
    PROVE  q \in Seq(Labels) /\ Range(q) \in SUBSET Labels /\ Range(q) = {q[i] : i \in 1..Len(q)}
    <1>1. PICK l \in Labels : q \in {<<l>>} \cup {<<l, m>> : m \in Labels \ {l}}
        BY Zenon DEF Requests
    <1>2. q \in Seq(Labels)
        <2>1. CASE q = <<l>>
            BY <2>1
        <2>2. CASE \E m \in Labels : q = <<l, m>>
            BY <2>2
        <2>3. QED
            BY <1>1, <2>1, <2>2
    <1>3. DOMAIN q = 1..Len(q)
        BY <1>2
    <1>4. Range(q) = {q[i] : i \in 1..Len(q)}
        BY <1>3 DEF Range
    <1>5. \A i \in 1..Len(q) : q[i] \in Labels
        BY <1>2
    <1>6. QED
        BY <1>2, <1>4, <1>5

\* The calls on one node
LEMMA NodeCallWrites ==
    ASSUME Labelled, NodeCall
    PROVE  Writing
    <1>1. CatOk(cat) /\ cat \in CatType /\ profile \in Profiles /\ graph \in GraphType /\ GraphMeans(cat.ids, graph)
        BY DEF Labelled, CatalogOk, CatOk, PhaseOk, RecordsOk
    <1>2. Grows(cat, cat)
        BY <1>1, GrowsSelf
    <1>3. PICK n \in profile.nodes :
             \/ DeleteNode(n)
             \/ \E q \in Requests : UpsertNode(n, q)
             \/ \E l \in Labels : AddNodeLabel(n, l) \/ RemoveNodeLabel(n, l)
        BY DEF NodeCall
    <1>4. n \in Nodes
        BY <1>1, CatalogAssumption DEF Nodes
    <1>5. Means(cat.ids, graph.nodes[n])
        BY <1>1, <1>4 DEF GraphMeans
    <1>6. ASSUME DeleteNode(n) PROVE Writing
        <2> DEFINE state == IF graph.edge = "valid" THEN "none" ELSE "keep"
                   d == [Put(n, {}) EXCEPT !.edge = state]
        <2>1. pc = "up" /\ Write(cat, d)
            BY <1>6 DEF DeleteNode, Call
        <2>2. state \in EdgeStates \cup {"keep"} /\ Means(cat.ids, {})
            BY DEF EdgeStates, Means
        <2> HIDE DEF state
        <2>3. IsDelta(d) /\ Means(cat.ids, BatchTokens(d))
            BY <1>4, <2>2, PutIs
        <2> HIDE DEF d
        <2>4. WriteOf(cat, d)
            BY <1>2, <2>1, <2>3 DEF WriteOf
        <2>5. QED
            BY <2>1, <2>4 DEF Writing
    <1>7. ASSUME NEW c, Grows(cat, c), NEW ts, Means(c.ids, ts), pc = "up", Write(c, Put(n, ts))
          PROVE  Writing
        <2>1. "keep" \in EdgeStates \cup {"keep"}
            OBVIOUS
        <2>2. IsDelta(Put(n, ts)) /\ Means(c.ids, BatchTokens(Put(n, ts)))
            BY <1>4, <1>7, <2>1, PutIs
        <2>3. WriteOf(c, Put(n, ts))
            BY <1>7, <2>2 DEF WriteOf
        <2>4. QED
            BY <1>7, <2>3 DEF Writing
    <1>8. ASSUME NEW q \in Requests, UpsertNode(n, q) PROVE Writing
        <2> DEFINE c == Resolve(cat, q)
                   ts == Tokens(c.ids, Range(q))
        <2>1. pc = "up" /\ Write(c, Put(n, ts))
            BY <1>8 DEF UpsertNode, Call
        <2>2. q \in Seq(Labels) /\ Range(q) \in SUBSET Labels /\ Range(q) = {q[i] : i \in 1..Len(q)}
            BY RequestsAre
        <2>3. Grows(cat, c) /\ c.ids \in [Labels -> Nat] /\ \A i \in 1..Len(q) : c.ids[q[i]] # 0
            BY <1>1, <2>2, ResolveRequest
        <2> HIDE DEF c
        <2>4. \A l \in Range(q) : c.ids[l] # 0
            BY <2>2, <2>3
        <2>5. Means(c.ids, ts)
            BY <2>2, <2>3, <2>4, TokensMean
        <2> HIDE DEF ts
        <2>6. QED
            BY <1>7, <2>1, <2>3, <2>5
    <1>9. ASSUME NEW l \in Labels, AddNodeLabel(n, l) PROVE Writing
        <2> DEFINE c == Resolve(cat, <<l>>)
                   ts == graph.nodes[n] \cup {<<l, c.ids[l]>>}
        <2>1. pc = "up" /\ Write(c, Put(n, ts))
            BY <1>9 DEF AddNodeLabel, Call
        <2>2. Grows(cat, c) /\ Means(c.ids, {<<l, c.ids[l]>>})
            BY <1>1, ResolveSingle
        <2> HIDE DEF c
        <2>3. Means(c.ids, graph.nodes[n])
            BY <1>5, <2>2, MeansExtends DEF Grows
        <2>4. Means(c.ids, ts)
            BY <2>2, <2>3 DEF Means
        <2> HIDE DEF ts
        <2>5. QED
            BY <1>7, <2>1, <2>2, <2>4
    <1>10. ASSUME NEW l \in Labels, RemoveNodeLabel(n, l) PROVE Writing
        <2> DEFINE ts == {t \in graph.nodes[n] : Id(t) # cat.ids[l]}
        <2>1. pc = "up" /\ Write(cat, Put(n, ts))
            BY <1>10 DEF RemoveNodeLabel, Call
        <2>2. Means(cat.ids, ts)
            BY <1>5 DEF Means
        <2> HIDE DEF ts
        <2>3. QED
            BY <1>2, <1>7, <2>1, <2>2
    <1>11. QED
        BY <1>3, <1>6, <1>8, <1>9, <1>10

\* A transaction
LEMMA TxnWrites ==
    ASSUME Labelled, NEW w \in Writes, NEW e \in {"keep", "none", "valid"},
           TxnCommit(SetToSeq(UNION {w[n] : n \in DOMAIN w}), w, e)
    PROVE  Writing
    <1> DEFINE S == UNION {w[n] : n \in DOMAIN w}
               q == SetToSeq(S)
               c == Resolve(cat, q)
               gone == \E n \in DOMAIN w : w[n] = {}
               state == IF gone /\ (e # "keep" \/ graph.edge # "none") THEN "none" ELSE e
               d == [nodes |-> [n \in DOMAIN w |-> Tokens(c.ids, w[n])], edge |-> state]
    <1>1. pc = "up" /\ Write(c, d)
        BY DEF TxnCommit, Call
    <1>2. CatOk(cat)
        BY DEF Labelled, CatalogOk
    <1>3. DOMAIN w \in SUBSET Nodes /\ \A n \in DOMAIN w : w[n] \in SUBSET Labels
        <2>1. PICK D \in SUBSET Nodes : w \in [D -> {{}} \cup {Range(r) : r \in Requests}]
            BY Zenon DEF Writes
        <2>2. \A X \in {{}} \cup {Range(r) : r \in Requests} : X \in SUBSET Labels
            BY RequestsAre
        <2>3. QED
            BY <2>1, <2>2
    <1>4. S \in SUBSET Labels
        <2> SUFFICES ASSUME NEW l \in S PROVE l \in Labels
            OBVIOUS
        <2>1. PICK X \in {w[n] : n \in DOMAIN w} : l \in X
            BY Zenon
        <2>2. QED
            BY <1>3, <2>1
    <1>5. \A n \in DOMAIN w : w[n] \subseteq S
        <2> SUFFICES ASSUME NEW n \in DOMAIN w PROVE w[n] \subseteq S
            OBVIOUS
        <2>1. w[n] \in {w[k] : k \in DOMAIN w}
            OBVIOUS
        <2>2. QED
            BY <2>1, Zenon
    <1>6. state \in EdgeStates \cup {"keep"}
        BY DEF EdgeStates
    <1> HIDE DEF S, state
    <1>7. q \in Seq(Labels) /\ \A l \in S : \E i \in 1..Len(q) : q[i] = l
        BY <1>4, SetToSeqOfLabels
    <1> HIDE DEF q
    <1>8. Grows(cat, c) /\ c.ids \in [Labels -> Nat] /\ \A i \in 1..Len(q) : c.ids[q[i]] # 0
        BY <1>2, <1>7, ResolveRequest
    <1> HIDE DEF c
    <1>9. \A l \in S : c.ids[l] # 0
        BY <1>7, <1>8
    <1>10. ASSUME NEW n \in DOMAIN w PROVE d.nodes[n] \in SUBSET Token /\ Means(c.ids, d.nodes[n])
        <2>1. d.nodes[n] = Tokens(c.ids, w[n])
            OBVIOUS
        <2>2. w[n] \in SUBSET Labels /\ \A l \in w[n] : c.ids[l] # 0
            BY <1>3, <1>5, <1>9
        <2>3. QED
            BY <1>8, <2>1, <2>2, TokensMean
    <1>11. DOMAIN d.nodes = DOMAIN w /\ d.edge = state
        OBVIOUS
    <1> HIDE DEF d
    <1>12. IsDelta(d)
        BY <1>3, <1>6, <1>10, <1>11 DEF IsDelta
    <1>13. Means(c.ids, BatchTokens(d))
        BY <1>10, <1>11 DEF BatchTokens, Means
    <1>14. WriteOf(c, d)
        BY <1>1, <1>8, <1>12, <1>13 DEF WriteOf
    <1>15. QED
        BY <1>1, <1>14 DEF Writing

-----------------------------------------------------------------------------
(* The loops of flush and recovery *)

IsFlushLoop(r, g, batches, n) ==
    r = [k \in 0..n |-> IF k = 0 THEN g
                        ELSE IF batches[k].applied THEN Effect(r[k - 1], batches[k].d) ELSE r[k - 1]]
IsReplayLoop(r, from, batches, g, n) ==
    r = [k \in 0..n |-> IF k = 0 THEN from ELSE ReplayBatch(r[k - 1], batches[k], g)]

\* One generation of the recovery.
RecoverOne(r, g) == IF g \in disk.frozen \cup {disk.active} THEN ReplayGeneration(r, g) ELSE r
IsRecoveryLoop(r, n) == r = [g \in 0..n |-> IF g = 0 THEN FromManifest ELSE RecoverOne(r[g - 1], g)]

\* The flush of a generation is a loop over its batches.
LEMMA FlushLoopExists ==
    ASSUME NEW g, NEW batches, NEW m \in Nat
    PROVE  \E r : IsFlushLoop(r, g, batches, m)
    <1> DEFINE Turn(x, k) == IF batches[k].applied THEN Effect(x, batches[k].d) ELSE x
               S == {n \in Nat : \E r : IsFlushLoop(r, g, batches, n)}
    <1>1. 0 \in S
        <2>1. IsFlushLoop([k \in 0..0 |-> g], g, batches, 0)
            BY DEF IsFlushLoop
        <2>2. QED
            BY <2>1
    <1>2. ASSUME NEW n \in S PROVE n + 1 \in S
        <2>1. PICK r : IsFlushLoop(r, g, batches, n)
            OBVIOUS
        <2>2. r = [k \in 0..n |-> IF k = 0 THEN g ELSE Turn(r[k - 1], k)]
            BY <2>1 DEF IsFlushLoop
        <2> DEFINE t == [k \in 0..(n + 1) |-> IF k <= n THEN r[k] ELSE Turn(r[n], n + 1)]
        <2> HIDE DEF Turn
        <2>3. t = [k \in 0..(n + 1) |-> IF k = 0 THEN g ELSE Turn(t[k - 1], k)]
            BY <2>2
        <2>4. IsFlushLoop(t, g, batches, n + 1)
            BY <2>3 DEF IsFlushLoop, Turn
        <2>5. QED
            BY <2>4
    <1>3. S = Nat
        <2> HIDE DEF S
        <2>1. QED
            BY <1>1, <1>2, Induction DEF S
    <1>4. QED
        BY <1>3

\* Its turns.
LEMMA FlushLoopTurns ==
    ASSUME NEW g, NEW batches, Batches(batches)
    PROVE  /\ FlushLoop(g, batches)[0] = g
           /\ \A k \in 1..Len(batches) :
                 FlushLoop(g, batches)[k] = Effect(FlushLoop(g, batches)[k - 1], batches[k].d)
    <1>1. Len(batches) \in Nat /\ \A k \in 1..Len(batches) : batches[k].applied
        BY DEF Batches
    <1>2. IsFlushLoop(FlushLoop(g, batches), g, batches, Len(batches))
        <2>1. FlushLoop(g, batches) = CHOOSE r : IsFlushLoop(r, g, batches, Len(batches))
            BY DEF FlushLoop, IsFlushLoop
        <2>2. QED
            BY <1>1, <2>1, FlushLoopExists
    <1>3. QED
        BY <1>1, <1>2 DEF IsFlushLoop

\* The replay of a generation is one.
LEMMA ReplayLoopExists ==
    ASSUME NEW from, NEW batches, NEW g, NEW m \in Nat
    PROVE  \E r : IsReplayLoop(r, from, batches, g, m)
    <1> DEFINE S == {n \in Nat : \E r : IsReplayLoop(r, from, batches, g, n)}
    <1>1. 0 \in S
        <2>1. IsReplayLoop([k \in 0..0 |-> from], from, batches, g, 0)
            BY DEF IsReplayLoop
        <2>2. QED
            BY <2>1
    <1>2. ASSUME NEW n \in S PROVE n + 1 \in S
        <2>1. PICK r : IsReplayLoop(r, from, batches, g, n)
            OBVIOUS
        <2> DEFINE t == [k \in 0..(n + 1) |-> IF k <= n THEN r[k] ELSE ReplayBatch(r[n], batches[n + 1], g)]
        <2>2. IsReplayLoop(t, from, batches, g, n + 1)
            BY <2>1 DEF IsReplayLoop
        <2>3. QED
            BY <2>2
    <1>3. S = Nat
        <2> HIDE DEF S
        <2>1. QED
            BY <1>1, <1>2, Induction DEF S
    <1>4. QED
        BY <1>3

\* Its turns.
LEMMA ReplayLoopTurns ==
    ASSUME NEW from, NEW batches, NEW g, Len(batches) \in Nat
    PROVE  /\ ReplayLoop(from, batches, g)[0] = from
           /\ \A k \in 1..Len(batches) :
                 ReplayLoop(from, batches, g)[k]
                   = ReplayBatch(ReplayLoop(from, batches, g)[k - 1], batches[k], g)
    <1>1. IsReplayLoop(ReplayLoop(from, batches, g), from, batches, g, Len(batches))
        <2>1. ReplayLoop(from, batches, g) = CHOOSE r : IsReplayLoop(r, from, batches, g, Len(batches))
            BY DEF ReplayLoop, IsReplayLoop
        <2>2. QED
            BY <2>1, ReplayLoopExists
    <1>2. QED
        BY <1>1 DEF IsReplayLoop

\* Recovery is one over generations.
LEMMA RecoveryLoopExists ==
    ASSUME NEW m \in Nat
    PROVE  \E r : IsRecoveryLoop(r, m)
    <1> DEFINE S == {n \in Nat : \E r : IsRecoveryLoop(r, n)}
    <1>1. 0 \in S
        <2>1. IsRecoveryLoop([k \in 0..0 |-> FromManifest], 0)
            BY DEF IsRecoveryLoop
        <2>2. QED
            BY <2>1
    <1>2. ASSUME NEW n \in S PROVE n + 1 \in S
        <2>1. PICK r : IsRecoveryLoop(r, n)
            OBVIOUS
        <2> DEFINE t == [k \in 0..(n + 1) |-> IF k <= n THEN r[k] ELSE RecoverOne(r[n], n + 1)]
        <2>2. IsRecoveryLoop(t, n + 1)
            BY <2>1 DEF IsRecoveryLoop
        <2>3. QED
            BY <2>2
    <1>3. S = Nat
        <2> HIDE DEF S
        <2>1. QED
            BY <1>1, <1>2, Induction DEF S
    <1>4. QED
        BY <1>3

\* Its turns.
LEMMA RecoveryLoopTurns ==
    ASSUME disk.active \in Nat
    PROVE  /\ RecoveryLoop[0] = FromManifest
           /\ \A g \in 1..disk.active : RecoveryLoop[g] = RecoverOne(RecoveryLoop[g - 1], g)
    <1>1. IsRecoveryLoop(RecoveryLoop, disk.active)
        <2>1. RecoveryLoop = CHOOSE r : IsRecoveryLoop(r, disk.active)
            BY DEF RecoveryLoop, IsRecoveryLoop, RecoverOne
        <2>2. QED
            BY <2>1, RecoveryLoopExists
    <1>2. QED
        BY <1>1 DEF IsRecoveryLoop

\* What the batches of a generation write has its tokens in the catalog.
LEMMA BatchesOkMeans ==
    ASSUME NEW f, NEW known, NEW batches, BatchesOk(f, known, batches), Extends(known, f),
           NEW k \in 1..Len(batches), Len(batches) \in Nat
    PROVE  Means(f, BatchTokens(batches[k].d))
    <1> SUFFICES ASSUME NEW t \in BatchTokens(batches[k].d) PROVE t \in Token /\ f[Label(t)] = Id(t)
        BY DEF Means
    <1>1. t \in Token /\ (known[Label(t)] = Id(t) \/ \E j \in 1..k : t \in batches[j].tokens)
        BY DEF BatchesOk
    <1>2. CASE known[Label(t)] = Id(t)
        <2>1. Label(t) \in Labels /\ Id(t) # 0
            BY <1>1 DEF Token, Label, Id
        <2>2. QED
            BY <1>1, <1>2, <2>1 DEF Extends
    <1>3. ASSUME NEW j \in 1..k, t \in batches[j].tokens PROVE f[Label(t)] = Id(t)
        <2>1. j \in 1..Len(batches)
            OBVIOUS
        <2>2. QED
            BY <1>3, <2>1 DEF BatchesOk, Means
    <1>4. QED
        BY <1>1, <1>2, <1>3

\* The segment that a flush writes has its tokens there too.
LEMMA FlushMeans ==
    ASSUME NEW f, NEW g \in GraphType, GraphMeans(f, g), NEW batches, Batches(batches),
           BatchesOk(f, f, batches)
    PROVE  FlushLoop(g, batches)[Len(batches)] \in GraphType /\ GraphMeans(f, FlushLoop(g, batches)[Len(batches)])
    <1> DEFINE r == FlushLoop(g, batches)
               S == {k \in Nat : k <= Len(batches) => r[k] \in GraphType /\ GraphMeans(f, r[k])}
    <1>1. Len(batches) \in Nat /\ \A k \in 1..Len(batches) : IsDelta(batches[k].d)
        BY DEF Batches
    <1>2. r[0] = g /\ \A k \in 1..Len(batches) : r[k] = Effect(r[k - 1], batches[k].d)
        BY FlushLoopTurns
    <1>3. Extends(f, f)
        BY DEF Extends
    <1> HIDE DEF r
    <1>4. 0 \in S
        BY <1>2
    <1>5. ASSUME NEW k \in S PROVE k + 1 \in S
        <2> SUFFICES ASSUME k + 1 <= Len(batches) PROVE r[k + 1] \in GraphType /\ GraphMeans(f, r[k + 1])
            OBVIOUS
        <2>1. k + 1 \in 1..Len(batches) /\ k + 1 - 1 = k /\ k <= Len(batches)
            BY <1>1
        <2>2. r[k + 1] = Effect(r[k], batches[k + 1].d)
            BY <1>2, <2>1
        <2>3. r[k] \in GraphType /\ GraphMeans(f, r[k])
            BY <2>1
        <2>4. Means(f, BatchTokens(batches[k + 1].d)) /\ IsDelta(batches[k + 1].d)
            BY <1>1, <1>3, <2>1, BatchesOkMeans
        <2>5. QED
            BY <2>2, <2>3, <2>4, EffectMeans
    <1>6. S = Nat
        <2> HIDE DEF S
        <2>1. QED
            BY <1>4, <1>5, Induction DEF S
    <1>7. QED
        BY <1>1, <1>6 DEF r

\* The state of a replay, k batches into a generation: nothing refused so far, every id a label
\* had before the restart, exactly the tokens of the manifest and of the batches read.
ReplayOk(r, f, known, batches, k) ==
    /\ r.ok /\ r.cat \in CatType /\ Above(r.cat.next, r.cat.ids)
    /\ Extends(known, r.cat.ids) /\ Extends(r.cat.ids, f)
    /\ \A j \in 1..k : Means(r.cat.ids, batches[j].tokens)
    /\ \A l \in Labels : r.cat.ids[l] # 0 =>
           known[l] # 0 \/ \E j \in 1..k : <<l, r.cat.ids[l]>> \in batches[j].tokens
    /\ r.graph \in GraphType /\ GraphMeans(r.cat.ids, r.graph)

\* One batch: it is never refused.
LEMMA ReplayBatchOk ==
    ASSUME NEW f \in [Labels -> Nat], Distinct(f), NEW known, NEW batches, Batches(batches),
           BatchesOk(f, known, batches), NEW k \in Nat, k + 1 <= Len(batches), NEW g \in Nat,
           NEW r, ReplayOk(r, f, known, batches, k)
    PROVE  /\ ReplayOk(ReplayBatch(r, batches[k + 1], g), f, known, batches, k + 1)
           /\ ReplayBatch(r, batches[k + 1], g).graph = Effect(r.graph, batches[k + 1].d)
    <1> DEFINE b == batches[k + 1]
               c == ApplyNodeLabels(r.cat, b.tokens, g)
               q == ReplayBatch(r, b, g)
    <1>1. Len(batches) \in Nat /\ k + 1 \in 1..Len(batches) /\ IsDelta(b.d)
        BY DEF Batches
    <1>2. /\ r.ok /\ r.cat \in CatType /\ Above(r.cat.next, r.cat.ids)
          /\ Extends(known, r.cat.ids) /\ Extends(r.cat.ids, f)
          /\ r.graph \in GraphType /\ GraphMeans(r.cat.ids, r.graph)
        BY DEF ReplayOk
    <1>3. Means(f, b.tokens)
        BY <1>1 DEF BatchesOk
    <1>4. r.cat.ids \in [Labels -> Nat]
        BY <1>2 DEF CatType
    <1>5. CatOk(c) /\ c.ids = Assign(r.cat.ids, b.tokens)
        BY <1>2, <1>3, ApplyNodeLabelsIs
    <1>6. Extends(r.cat.ids, c.ids) /\ Extends(c.ids, f) /\ Means(c.ids, b.tokens)
        BY <1>2, <1>3, <1>4, <1>5, AssignBetween
    <1>7. \A l \in Labels : c.ids[l] = IF <<l, f[l]>> \in b.tokens THEN f[l] ELSE r.cat.ids[l]
        <2> DEFINE T == b.tokens
                   h == r.cat.ids
        <2>1. Means(f, T) /\ h \in [Labels -> Nat] /\ c.ids = Assign(h, T)
            BY <1>3, <1>4, <1>5
        <2> HIDE DEF T, h
        <2>2. \A l \in Labels : Assign(h, T)[l] = IF <<l, f[l]>> \in T THEN f[l] ELSE h[l]
            BY <2>1, AssignIs
        <2> HIDE DEF c
        <2>3. \A l \in Labels : c.ids[l] = IF <<l, f[l]>> \in T THEN f[l] ELSE h[l]
            BY <2>1, <2>2
        <2>4. QED
            BY <2>3 DEF T, h
    <1>8. \A t \in b.tokens : ~Conflicts(r.cat, t)
        BY <1>2, <1>3, NoConflict
    <1> HIDE DEF c
    <1>9. Means(c.ids, BatchTokens(b.d))
        <2> SUFFICES ASSUME NEW t \in BatchTokens(b.d) PROVE t \in Token /\ c.ids[Label(t)] = Id(t)
            BY DEF Means
        <2>1. t \in Token /\ (known[Label(t)] = Id(t) \/ \E j \in 1..(k + 1) : t \in batches[j].tokens)
            BY <1>1 DEF BatchesOk
        <2>2. Label(t) \in Labels /\ Id(t) # 0
            BY <2>1 DEF Token, Label, Id
        <2>3. CASE known[Label(t)] = Id(t)
            <3>1. r.cat.ids[Label(t)] = Id(t)
                BY <1>2, <2>2, <2>3 DEF Extends
            <3>2. QED
                BY <1>6, <2>1, <2>2, <3>1 DEF Extends
        <2>4. ASSUME NEW j \in 1..(k + 1), t \in batches[j].tokens PROVE c.ids[Label(t)] = Id(t)
            <3>1. CASE j = k + 1
                BY <1>6, <2>4, <3>1 DEF Means
            <3>2. CASE j # k + 1
                <4>1. j \in 1..k
                    BY <3>2
                <4>2. r.cat.ids[Label(t)] = Id(t)
                    BY <2>4, <4>1 DEF ReplayOk, Means
                <4>3. QED
                    BY <1>6, <2>2, <4>2 DEF Extends
            <3>3. QED
                BY <3>1, <3>2
        <2>5. QED
            BY <2>1, <2>3, <2>4
    <1>10. (UNION {Ids(b.d.nodes[n]) : n \in DOMAIN b.d.nodes}) \subseteq Taken(c.ids)
        <2> SUFFICES ASSUME NEW i \in UNION {Ids(b.d.nodes[n]) : n \in DOMAIN b.d.nodes}
                     PROVE  i \in Taken(c.ids)
            OBVIOUS
        <2>1. PICK X \in {Ids(b.d.nodes[n]) : n \in DOMAIN b.d.nodes} : i \in X
            BY Zenon
        <2>2. PICK n \in DOMAIN b.d.nodes : i \in Ids(b.d.nodes[n])
            BY <2>1
        <2>3. PICK t \in b.d.nodes[n] : i = Id(t)
            BY <2>2 DEF Ids
        <2>4. t \in BatchTokens(b.d)
            <3>1. b.d.nodes[n] \in {b.d.nodes[x] : x \in DOMAIN b.d.nodes}
                OBVIOUS
            <3>2. QED
                BY <2>3, <3>1, Zenon DEF BatchTokens
        <2>5. Label(t) \in Labels /\ Id(t) # 0 /\ c.ids[Label(t)] = Id(t)
            BY <1>9, <2>4, TokenForm
        <2>6. QED
            BY <2>3, <2>5 DEF Taken
    <1>11. q = [ok |-> TRUE, cat |-> c, graph |-> Effect(r.graph, b.d)]
        <2> DEFINE conflict == \E t \in b.tokens : Conflicts(r.cat, t)
                   written == UNION {Ids(b.d.nodes[n]) : n \in DOMAIN b.d.nodes}
                   wrong == ~r.ok \/ conflict \/ ~(written \subseteq Taken(c.ids))
        <2>1. q = IF wrong THEN [r EXCEPT !.ok = FALSE]
                  ELSE [ok |-> TRUE, cat |-> c, graph |-> Effect(r.graph, b.d)]
            BY DEF ReplayBatch, c
        <2>2. ~conflict
            BY <1>8
        <2>3. ~wrong
            BY <1>2, <1>10, <2>2
        <2> HIDE DEF wrong
        <2>4. QED
            BY <2>1, <2>3
    <1>12. q.ok /\ q.cat = c /\ q.graph = Effect(r.graph, b.d)
        BY <1>11
    <1>13. q.graph \in GraphType /\ GraphMeans(c.ids, q.graph)
        <2>1. GraphMeans(c.ids, r.graph)
            BY <1>2, <1>6, GraphMeansExtends
        <2>2. QED
            BY <1>1, <1>2, <1>9, <1>12, <2>1, EffectMeans
    <1>14. \A j \in 1..(k + 1) : Means(c.ids, batches[j].tokens)
        <2> SUFFICES ASSUME NEW j \in 1..(k + 1), j # k + 1 PROVE Means(c.ids, batches[j].tokens)
            BY <1>6
        <2>1. j \in 1..k
            OBVIOUS
        <2>2. Means(r.cat.ids, batches[j].tokens)
            BY <2>1 DEF ReplayOk
        <2>3. QED
            BY <1>6, <2>2, MeansExtends
    <1>15. \A l \in Labels : c.ids[l] # 0 =>
              known[l] # 0 \/ \E j \in 1..(k + 1) : <<l, c.ids[l]>> \in batches[j].tokens
        <2> SUFFICES ASSUME NEW l \in Labels, c.ids[l] # 0, known[l] = 0
                     PROVE  \E j \in 1..(k + 1) : <<l, c.ids[l]>> \in batches[j].tokens
            OBVIOUS
        <2>1. k + 1 \in 1..(k + 1) /\ \A j \in 1..k : j \in 1..(k + 1)
            OBVIOUS
        <2>2. CASE <<l, f[l]>> \in b.tokens
            <3>1. c.ids[l] = f[l]
                BY <1>7, <2>2
            <3>2. QED
                BY <2>1, <2>2, <3>1
        <2>3. CASE <<l, f[l]>> \notin b.tokens
            <3>1. c.ids[l] = r.cat.ids[l]
                BY <1>7, <2>3
            <3>2. PICK j \in 1..k : <<l, r.cat.ids[l]>> \in batches[j].tokens
                BY <3>1 DEF ReplayOk
            <3>3. QED
                BY <2>1, <3>1, <3>2
        <2>4. QED
            BY <2>2, <2>3
    <1>16. Extends(known, c.ids)
        BY <1>2, <1>6, ExtendsTrans
    <1> HIDE DEF q
    <1>17. ReplayOk(q, f, known, batches, k + 1)
        BY <1>5, <1>6, <1>12, <1>13, <1>14, <1>15, <1>16 DEF ReplayOk, CatOk
    <1>18. QED
        BY <1>12, <1>17 DEF q

\* A generation: replayed, it adds its tokens and what a flush of it would have added.
LEMMA ReplayGenerationOk ==
    ASSUME NEW f \in [Labels -> Nat], Distinct(f), NEW known, NEW batches, Batches(batches),
           BatchesOk(f, known, batches), NEW g \in Nat, NEW from, ReplayOk(from, f, known, batches, 0)
    PROVE  LET r == ReplayLoop(from, batches, g)[Len(batches)]
           IN  /\ ReplayOk(r, f, known, batches, Len(batches))
               /\ r.graph = FlushLoop(from.graph, batches)[Len(batches)]
    <1> DEFINE r == ReplayLoop(from, batches, g)
               h == FlushLoop(from.graph, batches)
               S == {k \in Nat : k <= Len(batches) =>
                                     ReplayOk(r[k], f, known, batches, k) /\ r[k].graph = h[k]}
    <1>1. Len(batches) \in Nat
        BY DEF Batches
    <1>2. r[0] = from /\ \A k \in 1..Len(batches) : r[k] = ReplayBatch(r[k - 1], batches[k], g)
        BY <1>1, ReplayLoopTurns
    <1>3. h[0] = from.graph /\ \A k \in 1..Len(batches) : h[k] = Effect(h[k - 1], batches[k].d)
        BY FlushLoopTurns
    <1> HIDE DEF r, h
    <1>4. 0 \in S
        BY <1>2, <1>3
    <1>5. ASSUME NEW k \in S PROVE k + 1 \in S
        <2> SUFFICES ASSUME k + 1 <= Len(batches)
                     PROVE  ReplayOk(r[k + 1], f, known, batches, k + 1) /\ r[k + 1].graph = h[k + 1]
            OBVIOUS
        <2>1. k \in Nat /\ k + 1 \in 1..Len(batches) /\ k + 1 - 1 = k /\ k <= Len(batches)
            BY <1>1
        <2>2. r[k + 1] = ReplayBatch(r[k], batches[k + 1], g) /\ h[k + 1] = Effect(h[k], batches[k + 1].d)
            BY <1>2, <1>3, <2>1
        <2>3. ReplayOk(r[k], f, known, batches, k) /\ r[k].graph = h[k]
            BY <2>1
        <2>4. /\ ReplayOk(ReplayBatch(r[k], batches[k + 1], g), f, known, batches, k + 1)
              /\ ReplayBatch(r[k], batches[k + 1], g).graph = Effect(r[k].graph, batches[k + 1].d)
            BY <2>1, <2>3, ReplayBatchOk
        <2>5. QED
            BY <2>2, <2>3, <2>4
    <1>6. S = Nat
        <2> HIDE DEF S
        <2>1. QED
            BY <1>4, <1>5, Induction DEF S
    <1>7. ReplayOk(r[Len(batches)], f, known, batches, Len(batches)) /\ r[Len(batches)].graph = h[Len(batches)]
        BY <1>1, <1>6
    <1>8. QED
        BY <1>7 DEF r, h

\* Between generations, which of them comes next does not matter.
LEMMA ReplayOkStart ==
    ASSUME NEW r, NEW f, NEW known, NEW batches, ReplayOk(r, f, known, batches, 0), NEW others
    PROVE  ReplayOk(r, f, known, others, 0)
    <1>1. 1..0 = {}
        OBVIOUS
    <1>2. QED
        BY <1>1 DEF ReplayOk

\* A generation of tokens of the manifest leaves the catalog as it was.
LEMMA ReplayOkBetween ==
    ASSUME NEW r, NEW f, NEW known, NEW batches, Len(batches) \in Nat,
           ReplayOk(r, f, known, batches, Len(batches)), BatchesOk(known, known, batches), NEW others
    PROVE  ReplayOk(r, f, known, others, 0)
    <1>1. ASSUME NEW l \in Labels, r.cat.ids[l] # 0 PROVE known[l] # 0
        <2> SUFFICES ASSUME NEW j \in 1..Len(batches), <<l, r.cat.ids[l]>> \in batches[j].tokens
                     PROVE  known[l] # 0
            BY <1>1 DEF ReplayOk
        <2>1. Means(known, batches[j].tokens)
            BY DEF BatchesOk
        <2>2. known[l] = r.cat.ids[l]
            BY <2>1 DEF Means, Label, Id
        <2>3. QED
            BY <1>1, <2>2
    <1>2. 1..0 = {}
        OBVIOUS
    <1>3. QED
        BY <1>1, <1>2 DEF ReplayOk

\* What the segments and the log hold together: every generation on top of the ones before.
GraphLoop(g0, w) ==
    LET r[g \in 0..MaxGen] == IF g = 0 THEN g0 ELSE FlushLoop(r[g - 1], w[g])[Len(w[g])] IN r
IsGraphLoop(r, g0, w, n) ==
    r = [g \in 0..n |-> IF g = 0 THEN g0 ELSE FlushLoop(r[g - 1], w[g])[Len(w[g])]]

\* There is such a function.
LEMMA GraphLoopExists ==
    ASSUME NEW g0, NEW w, NEW m \in Nat
    PROVE  \E r : IsGraphLoop(r, g0, w, m)
    <1> DEFINE S == {n \in Nat : \E r : IsGraphLoop(r, g0, w, n)}
    <1>1. 0 \in S
        <2>1. IsGraphLoop([k \in 0..0 |-> g0], g0, w, 0)
            BY DEF IsGraphLoop
        <2>2. QED
            BY <2>1
    <1>2. ASSUME NEW n \in S PROVE n + 1 \in S
        <2>1. PICK r : IsGraphLoop(r, g0, w, n)
            OBVIOUS
        <2> DEFINE Turn(x, k) == FlushLoop(x, w[k])[Len(w[k])]
                   t == [k \in 0..(n + 1) |-> IF k <= n THEN r[k] ELSE Turn(r[n], n + 1)]
        <2>2. r = [k \in 0..n |-> IF k = 0 THEN g0 ELSE Turn(r[k - 1], k)]
            BY <2>1 DEF IsGraphLoop
        <2> HIDE DEF Turn
        <2>3. t = [k \in 0..(n + 1) |-> IF k = 0 THEN g0 ELSE Turn(t[k - 1], k)]
            BY <2>2
        <2>4. IsGraphLoop(t, g0, w, n + 1)
            BY <2>3 DEF IsGraphLoop, Turn
        <2>5. QED
            BY <2>4
    <1>3. S = Nat
        <2> HIDE DEF S
        <2>1. QED
            BY <1>1, <1>2, Induction DEF S
    <1>4. QED
        BY <1>3

\* Its turns.
LEMMA GraphLoopTurns ==
    ASSUME NEW g0, NEW w
    PROVE  /\ GraphLoop(g0, w)[0] = g0
           /\ \A g \in 1..MaxGen : GraphLoop(g0, w)[g] = FlushLoop(GraphLoop(g0, w)[g - 1], w[g])[Len(w[g])]
    <1>1. MaxGen \in Nat
        BY CatalogAssumption
    <1>2. IsGraphLoop(GraphLoop(g0, w), g0, w, MaxGen)
        <2>1. GraphLoop(g0, w) = CHOOSE r : IsGraphLoop(r, g0, w, MaxGen)
            BY DEF GraphLoop, IsGraphLoop
        <2>2. QED
            BY <1>1, <2>1, GraphLoopExists
    <1>3. QED
        BY <1>1, <1>2 DEF IsGraphLoop

\* A generation without batches adds nothing.
LEMMA EmptyFlush ==
    ASSUME NEW g
    PROVE  FlushLoop(g, <<>>)[Len(<<>>)] = g
    <1> DEFINE e == <<>>
    <1>1. Len(e) = 0 /\ e = [k \in 1..0 |-> e[k]] /\ 1..0 = {}
        OBVIOUS
    <1> HIDE DEF e
    <1>2. Batches(e)
        BY <1>1 DEF Batches
    <1>3. FlushLoop(g, e)[0] = g
        BY <1>2, FlushLoopTurns
    <1>4. QED
        BY <1>1, <1>3 DEF e

\* load_manifest accepts the manifest.
LEMMA ManifestIsValid ==
    ASSUME CatalogOk
    PROVE  ManifestValid(disk)
    <1>1. /\ CatOk(cat) /\ disk \in DiskType /\ Above(disk.next, disk.tokens) /\ Extends(disk.tokens, cat.ids)
          /\ Means(disk.tokens, SchemaTokens(disk.schemas)) /\ Means(disk.tokens, disk.indexes)
        BY DEF CatalogOk, ManifestOk, RefersTo
    <1>2. Distinct(disk.tokens)
        BY <1>1, ExtendsDistinct DEF CatOk
    <1>3. \A l, k \in Known(disk.tokens) : disk.tokens[l] = disk.tokens[k] => l = k
        BY <1>2 DEF Distinct, Known
    <1>4. \A i \in Taken(disk.tokens) : i < disk.next
        BY <1>1 DEF Taken, Above
    <1>5. ASSUME NEW ts, Means(disk.tokens, ts) PROVE Ids(ts) \subseteq Taken(disk.tokens)
        <2> SUFFICES ASSUME NEW t \in ts PROVE Id(t) \in Taken(disk.tokens)
            BY DEF Ids
        <2>1. Label(t) \in Labels /\ Id(t) # 0 /\ disk.tokens[Label(t)] = Id(t)
            BY <1>5, TokenForm
        <2>2. QED
            BY <2>1 DEF Taken
    <1>6. EntriesMean(disk.tokens, disk.schemas)
        BY <1>1, EntriesMeanIs
    <1>7. SchemaIds(disk.schemas) \subseteq Taken(disk.tokens)
        <2> DEFINE s == disk.schemas
        <2>1. ASSUME NEW e \in s.node PROVE Id(e.on) \in Taken(disk.tokens) /\ Id(e.never) \in Taken(disk.tokens)
            <3>1. Ids({e.on}) \subseteq Taken(disk.tokens) /\ Ids({e.never}) \subseteq Taken(disk.tokens)
                BY <1>5, <1>6 DEF EntriesMean
            <3>2. QED
                BY <3>1 DEF Ids
        <2>2. ASSUME NEW e \in s.edge PROVE Ids(e.from \cup e.to) \subseteq Taken(disk.tokens)
            <3>1. Means(disk.tokens, e.from \cup e.to)
                BY <1>6 DEF EntriesMean, Means
            <3>2. QED
                BY <1>5, <3>1
        <2> HIDE DEF s
        <2>3. (UNION {Ids(e.from \cup e.to) : e \in s.edge}) \subseteq Taken(disk.tokens)
            <3> SUFFICES ASSUME NEW i \in UNION {Ids(e.from \cup e.to) : e \in s.edge}
                         PROVE  i \in Taken(disk.tokens)
                OBVIOUS
            <3>1. PICK X \in {Ids(e.from \cup e.to) : e \in s.edge} : i \in X
                BY Zenon
            <3>2. QED
                BY <2>2, <3>1
        <2>4. SchemaIds(s) = {Id(e.on) : e \in s.node} \cup {Id(e.never) : e \in s.node}
                                \cup (UNION {Ids(e.from \cup e.to) : e \in s.edge})
            BY DEF SchemaIds
        <2>5. {Id(e.on) : e \in s.node} \subseteq Taken(disk.tokens) /\ {Id(e.never) : e \in s.node} \subseteq Taken(disk.tokens)
            BY <2>1
        <2>6. SchemaIds(s) \subseteq Taken(disk.tokens)
            BY <2>3, <2>4, <2>5
        <2>7. QED
            BY <2>6 DEF s
    <1>8. Ids(disk.indexes) \subseteq Taken(disk.tokens)
        BY <1>1, <1>5
    <1>9. QED
        BY <1>3, <1>4, <1>7, <1>8 DEF ManifestValid

\* What open recovers: no batch is refused, the catalog is made of the manifest and the active
\* generation, the records are those of the segments and the log.
LEMMA RecoveredOk ==
    ASSUME Labelled
    PROVE  /\ ReplayOk(Recovered, cat.ids, disk.tokens, wal[disk.active], Len(wal[disk.active]))
           /\ Recovered.graph = GraphLoop(stored, wal)[disk.active]
    <1> DEFINE f == cat.ids
               known == disk.tokens
               a == disk.active
               r == RecoveryLoop
               h == GraphLoop(stored, wal)
               S == {g \in Nat : g < a => ReplayOk(r[g], f, known, <<>>, 0) /\ r[g].graph = h[g]}
    <1>1. /\ CatOk(cat) /\ ManifestOk(disk) /\ Extends(known, f) /\ CatalogOk
          /\ LogOk(f, disk, wal) /\ stored \in GraphType /\ GraphMeans(known, stored)
        BY DEF Labelled, CatalogOk, LogsOk, RecordsOk
    <1>2. /\ f \in [Labels -> Nat] /\ Distinct(f) /\ known \in [Labels -> Nat] /\ disk.next \in Nat
          /\ Above(disk.next, known) /\ disk \in DiskType
        BY <1>1 DEF CatOk, CatType, ManifestOk, DiskType
    <1>3. a \in Nat /\ a \in 1..MaxGen /\ MaxGen \in Nat
        BY <1>2, CatalogAssumption DEF DiskType
    <1>4. r[0] = FromManifest /\ \A g \in 1..a : r[g] = RecoverOne(r[g - 1], g)
        BY <1>3, RecoveryLoopTurns
    <1>5. h[0] = stored /\ \A g \in 1..MaxGen : h[g] = FlushLoop(h[g - 1], wal[g])[Len(wal[g])]
        BY GraphLoopTurns
    <1>6. \A g \in 1..MaxGen : Batches(wal[g]) /\ Len(wal[g]) \in Nat
        BY <1>1 DEF LogOk, Batches
    <1>7. ReplayOk(FromManifest, f, known, <<>>, 0) /\ FromManifest.graph = stored
        <2> DEFINE c == [ids |-> known, gens |-> [l \in Labels |-> 0], next |-> disk.next]
        <2>1. FromManifest.ok = ManifestValid(disk) /\ FromManifest.cat = c /\ FromManifest.graph = stored
            BY DEF FromManifest
        <2>2. ManifestValid(disk)
            BY <1>1, ManifestIsValid
        <2>3. c \in CatType /\ c.ids = known /\ c.next = disk.next
            BY <1>2 DEF CatType
        <2>4. Extends(known, known)
            BY DEF Extends
        <2>5. 1..0 = {}
            OBVIOUS
        <2> HIDE DEF c
        <2>6. QED
            BY <1>1, <1>2, <2>1, <2>2, <2>3, <2>4, <2>5 DEF ReplayOk
    <1>8. ASSUME NEW g \in Nat, g + 1 \in 1..a, ReplayOk(r[g], f, known, <<>>, 0), r[g].graph = h[g],
                 g + 1 \in disk.frozen \cup {a}, BatchesOk(f, known, wal[g + 1])
          PROVE  /\ ReplayOk(r[g + 1], f, known, wal[g + 1], Len(wal[g + 1]))
                 /\ r[g + 1].graph = h[g + 1]
        <2> DEFINE w == wal[g + 1]
        <2>1. g + 1 \in 1..MaxGen /\ g + 1 - 1 = g
            BY <1>3, <1>8
        <2>2. r[g + 1] = ReplayLoop(r[g], w, g + 1)[Len(w)] /\ h[g + 1] = FlushLoop(h[g], w)[Len(w)]
            BY <1>4, <1>5, <1>8, <2>1 DEF RecoverOne, ReplayGeneration
        <2>3. ReplayOk(r[g], f, known, w, 0)
            BY <1>8, ReplayOkStart
        <2>4. Batches(w) /\ g + 1 \in Nat
            BY <1>6, <2>1
        <2> HIDE DEF w
        <2>5. LET q == ReplayLoop(r[g], w, g + 1)[Len(w)]
              IN  ReplayOk(q, f, known, w, Len(w)) /\ q.graph = FlushLoop(r[g].graph, w)[Len(w)]
            BY <1>2, <1>8, <2>3, <2>4, ReplayGenerationOk DEF w
        <2>6. QED
            BY <1>8, <2>2, <2>5 DEF w
    <1> HIDE DEF r, h, f, known, a
    <1>9. 0 \in S
        BY <1>4, <1>5, <1>7
    <1>10. ASSUME NEW g \in S PROVE g + 1 \in S
        <2> SUFFICES ASSUME g + 1 < a PROVE ReplayOk(r[g + 1], f, known, <<>>, 0) /\ r[g + 1].graph = h[g + 1]
            OBVIOUS
        <2>1. g \in Nat /\ g + 1 \in 1..a /\ g + 1 \in 1..MaxGen /\ g + 1 - 1 = g /\ g < a
            BY <1>3
        <2>2. ReplayOk(r[g], f, known, <<>>, 0) /\ r[g].graph = h[g]
            BY <2>1
        <2>3. CASE g + 1 \in disk.frozen
            <3>1. BatchesOk(known, known, wal[g + 1])
                BY <1>1, <2>1, <2>3 DEF LogOk, known
            <3>2. Extends(known, known)
                BY DEF Extends
            <3>3. BatchesOk(f, known, wal[g + 1])
                BY <1>1, <3>1, <3>2, BatchesOkExtends
            <3>4. /\ ReplayOk(r[g + 1], f, known, wal[g + 1], Len(wal[g + 1]))
                  /\ r[g + 1].graph = h[g + 1]
                BY <1>8, <2>1, <2>2, <2>3, <3>3
            <3>5. QED
                BY <1>6, <2>1, <3>1, <3>4, ReplayOkBetween
        <2>4. CASE g + 1 \notin disk.frozen
            <3>1. g + 1 \notin disk.frozen \cup {a}
                BY <2>1, <2>4
            <3>2. r[g + 1] = r[g]
                <4>1. r[g + 1] = RecoverOne(r[g], g + 1)
                    BY <1>4, <2>1
                <4>2. QED
                    BY <3>1, <4>1 DEF RecoverOne, a
            <3>3. wal[g + 1] = <<>>
                BY <1>1, <2>1, <3>1 DEF LogOk, a
            <3>4. h[g + 1] = h[g]
                BY <1>5, <2>1, <3>3, EmptyFlush
            <3>5. QED
                BY <2>2, <3>2, <3>4
        <2>5. QED
            BY <2>3, <2>4
    <1>11. S = Nat
        <2> HIDE DEF S
        <2>1. QED
            BY <1>9, <1>10, Induction DEF S
    <1>12. ReplayOk(r[a - 1], f, known, <<>>, 0) /\ r[a - 1].graph = h[a - 1] /\ a - 1 \in Nat
        <2>1. a - 1 \in Nat /\ a - 1 < a
            BY <1>3
        <2>2. a - 1 \in S
            BY <1>11, <2>1
        <2>3. QED
            BY <2>1, <2>2
    <1>13. BatchesOk(f, known, wal[a])
        BY <1>1 DEF LogOk, f, known, a
    <1>14. ReplayOk(r[a], f, known, wal[a], Len(wal[a])) /\ r[a].graph = h[a]
        <2>1. a - 1 + 1 = a /\ a \in 1..a
            BY <1>3
        <2>2. QED
            BY <1>8, <1>12, <1>13, <2>1
    <1>15. QED
        BY <1>14 DEF r, h, f, known, a, Recovered

-----------------------------------------------------------------------------
(* Storage: sync, freeze, flush, crashes and restarts *)

\* Sync changes nothing but what is fsynced.
LEMMA SyncKeeps ==
    ASSUME Labelled, Sync
    PROVE  Labelled'
    <1>1. /\ UNCHANGED <<core, disk, wal, stored, pc, profile>> /\ synced' = Len(wal[disk.active])
        BY DEF Sync, hist
    <1>2. disk.active \in 1..MaxGen
        BY DEF Labelled, CatalogOk, ManifestOk, DiskType
    <1>3. synced' \in Nat
        BY <1>1, <1>2 DEF Labelled, LogsOk, LogOk, Batches
    <1>4. CatalogOk' /\ MemoryOk' /\ RecordsOk'
        BY <1>1 DEF Labelled, CatalogOk, MemoryOk, RecordsOk, core, Manifest
    <1>5. LogsOk' /\ PhaseOk'
        BY <1>1, <1>3 DEF Labelled, LogsOk, PhaseOk, core, Durable
    <1>6. QED
        BY <1>4, <1>5 DEF Labelled

\* The manifest m with other generations.
GenerationsSet(m, z, a) == [m EXCEPT !.frozen = z, !.active = a]

\* Other generations in a manifest.
LEMMA WithGenerations ==
    ASSUME NEW m \in DiskType, NEW z \in SUBSET (1..MaxGen), NEW a \in 1..MaxGen
    PROVE  LET r == GenerationsSet(m, z, a)
           IN  /\ r \in DiskType /\ r.tokens = m.tokens /\ r.next = m.next /\ r.active = a
               /\ r.frozen = z /\ r.schemas = m.schemas /\ r.policy = m.policy /\ r.indexes = m.indexes
    BY DEF DiskType, GenerationsSet

\* No batches are in order.
LEMMA NoBatches ==
    ASSUME NEW f, NEW known
    PROVE  Batches(<<>>) /\ BatchesOk(f, known, <<>>)
    <1> DEFINE e == <<>>
    <1>1. Len(e) = 0 /\ e = [k \in 1..0 |-> e[k]] /\ 1..0 = {}
        OBVIOUS
    <1> HIDE DEF e
    <1>2. Batches(e) /\ BatchesOk(f, known, e)
        BY <1>1 DEF Batches, BatchesOk
    <1>3. QED
        BY <1>2 DEF e

\* freeze_memtable puts the whole catalog into the manifest, so the generation it ends needs no
\* tokens of its own.
LEMMA FreezeKeeps ==
    ASSUME Labelled, Freeze
    PROVE  Labelled'
    <1> DEFINE a == disk.active
               m == SyncedManifest
               z == disk.frozen \cup {a}
    <1>1. /\ UNCHANGED <<cat, graph, rules, pubIds, wal, stored, pc, profile>> /\ synced' = 0 /\ mem' = Manifest
          /\ a < MaxGen /\ disk' = [m EXCEPT !.frozen = @ \cup {a}, !.active = @ + 1]
        BY DEF Freeze, hist
    <1>2. CatalogOk /\ CatOk(cat) /\ ManifestOk(disk) /\ Extends(disk.tokens, cat.ids) /\ LogOk(cat.ids, disk, wal)
        BY DEF Labelled, CatalogOk, LogsOk
    <1>3. disk \in DiskType /\ a \in 1..MaxGen /\ disk.frozen \subseteq 1..MaxGen /\ MaxGen \in Nat
        BY <1>2, CatalogAssumption DEF ManifestOk, DiskType
    <1>4. Advances(disk, m, cat.ids) /\ m.tokens = cat.ids
        BY <1>2, <1>3, ApplyAdvances DEF SyncedManifest
    <1>5. m \in DiskType /\ m.active = a /\ m.frozen = disk.frozen /\ Above(m.next, m.tokens)
          /\ m.schemas = disk.schemas /\ m.policy = disk.policy /\ m.indexes = disk.indexes
        BY <1>4 DEF Advances
    <1>6. disk' = GenerationsSet(m, z, a + 1)
        BY <1>1, <1>5 DEF GenerationsSet
    <1>7. z \in SUBSET (1..MaxGen) /\ a + 1 \in 1..MaxGen
        BY <1>1, <1>3
    <1> HIDE DEF m
    <1>8. /\ disk' \in DiskType /\ disk'.tokens = cat.ids /\ disk'.next = m.next /\ disk'.active = a + 1
          /\ disk'.frozen = z /\ disk'.schemas = disk.schemas /\ disk'.policy = disk.policy
          /\ disk'.indexes = disk.indexes
        BY <1>4, <1>5, <1>6, <1>7, WithGenerations
    <1>9. RefersTo(cat.ids, disk.schemas, disk.policy, disk.indexes)
        BY <1>2, <1>4, <1>5, RefersToAdvances
    <1>10. Extends(cat.ids, cat.ids)
        BY DEF Extends
    <1>11. CatalogOk'
        <2>1. \A g \in z : g < a + 1
            BY <1>2, <1>3 DEF ManifestOk
        <2>2. ManifestOk(disk')
            BY <1>4, <1>5, <1>8, <1>9, <2>1 DEF ManifestOk
        <2>3. QED
            BY <1>1, <1>2, <1>8, <1>10, <2>2 DEF CatalogOk
    <1>12. MemoryOk'
        BY <1>1, <1>8 DEF Labelled, MemoryOk, Manifest
    <1>13. RecordsOk'
        <2>1. GraphMeans(cat.ids, stored)
            BY <1>2, GraphMeansExtends DEF Labelled, RecordsOk
        <2>2. QED
            BY <1>1, <1>8, <2>1 DEF Labelled, RecordsOk
    <1>14. LogsOk'
        <2>1. ASSUME NEW g \in z PROVE BatchesOk(cat.ids, cat.ids, wal[g])
            <3>1. CASE g = a
                BY <1>2, <1>10, <3>1, BatchesOkExtends DEF LogOk
            <3>2. CASE g \in disk.frozen
                BY <1>2, <1>3, <1>10, <3>2, BatchesOkExtends DEF LogOk
            <3>3. QED
                BY <3>1, <3>2
        <2>2. a + 1 \notin z
            BY <1>2, <1>3 DEF ManifestOk
        <2>3. wal[a + 1] = <<>>
            BY <1>2, <1>3, <1>7, <2>2 DEF LogOk
        <2>4. BatchesOk(cat.ids, cat.ids, wal[a + 1])
            BY <2>3, NoBatches
        <2>5. \A g \in 1..MaxGen : g \notin z \cup {a + 1} => wal[g] = <<>>
            BY <1>2 DEF LogOk
        <2> HIDE DEF z
        <2>6. LogOk(cat.ids, disk', wal)
            BY <1>2, <1>8, <2>1, <2>4, <2>5 DEF LogOk
        <2>7. Logs(cat.ids, cat.ids, wal[a + 1])
            BY DEF Logs
        <2>8. QED
            BY <1>1, <1>8, <2>6, <2>7 DEF LogsOk
    <1>15. PhaseOk'
        BY <1>1 DEF Labelled, PhaseOk, Durable
    <1>16. QED
        BY <1>11, <1>12, <1>13, <1>14, <1>15 DEF Labelled

\* The oldest frozen generation.
Oldest == CHOOSE g \in disk.frozen : \A h \in disk.frozen : g <= h

\* It is there.
LEMMA OldestIs ==
    ASSUME CatalogOk, disk.frozen # {}
    PROVE  Oldest \in disk.frozen /\ Oldest \in 1..MaxGen /\ \A h \in disk.frozen : Oldest <= h
    <1>1. disk.frozen \subseteq 1..MaxGen /\ disk.frozen \subseteq Nat
        BY CatalogAssumption DEF CatalogOk, ManifestOk, DiskType
    <1>2. \E g \in disk.frozen : \A h \in disk.frozen : g <= h
        BY <1>1, LeastNatural
    <1>3. Oldest \in disk.frozen /\ \A h \in disk.frozen : Oldest <= h
        BY <1>2 DEF Oldest
    <1>4. QED
        BY <1>1, <1>3

\* A flush puts a generation's records into a segment; their tokens are in the manifest already.
LEMMA FlushKeeps ==
    ASSUME Labelled, PublishFlush
    PROVE  Labelled'
    <1> DEFINE x == Oldest
               m == ApplyCheckpointed(disk, cat, x)
               z == disk.frozen \ {x}
    <1>1. /\ UNCHANGED <<core, synced, pc, profile>> /\ disk.frozen # {}
          /\ disk' = [m EXCEPT !.frozen = @ \ {x}] /\ stored' = FlushLoop(stored, wal[x])[Len(wal[x])]
          /\ wal' = [wal EXCEPT ![x] = <<>>]
        BY DEF PublishFlush, Oldest, hist
    <1>2. CatalogOk /\ CatOk(cat) /\ ManifestOk(disk) /\ Extends(disk.tokens, cat.ids) /\ LogOk(cat.ids, disk, wal)
        BY DEF Labelled, CatalogOk, LogsOk
    <1>3. disk \in DiskType /\ disk.active \in 1..MaxGen /\ disk.frozen \subseteq 1..MaxGen /\ MaxGen \in Nat
        BY <1>2, CatalogAssumption DEF ManifestOk, DiskType
    <1>4. x \in disk.frozen /\ x \in 1..MaxGen
        BY <1>1, <1>2, OldestIs
    <1> HIDE DEF x
    <1>5. Advances(disk, m, cat.ids)
        BY <1>2, <1>3, CheckpointAdvances DEF ManifestOk, CatOk
    <1> HIDE DEF m
    <1>6. m \in DiskType /\ m.active = disk.active /\ m.frozen = disk.frozen /\ Above(m.next, m.tokens)
          /\ m.schemas = disk.schemas /\ m.policy = disk.policy /\ m.indexes = disk.indexes
          /\ Extends(disk.tokens, m.tokens) /\ Extends(m.tokens, cat.ids)
        BY <1>5 DEF Advances
    <1>7. disk' = GenerationsSet(m, z, disk.active)
        BY <1>1, <1>6 DEF DiskType, GenerationsSet
    <1>8. /\ disk' \in DiskType /\ disk'.tokens = m.tokens /\ disk'.next = m.next /\ disk'.active = disk.active
          /\ disk'.frozen = z /\ disk'.schemas = disk.schemas /\ disk'.policy = disk.policy
          /\ disk'.indexes = disk.indexes
        BY <1>3, <1>6, <1>7, WithGenerations
    <1>9. RefersTo(m.tokens, disk.schemas, disk.policy, disk.indexes)
        BY <1>2, <1>5, <1>6, RefersToAdvances
    <1>10. CatalogOk'
        <2>1. ManifestOk(disk')
            BY <1>2, <1>6, <1>8, <1>9 DEF ManifestOk
        <2>2. QED
            BY <1>1, <1>2, <1>6, <1>8, <2>1 DEF CatalogOk, core
    <1>11. MemoryOk'
        BY <1>1, <1>8 DEF Labelled, MemoryOk, Manifest, core
    <1>12. RecordsOk'
        <2>1. stored \in GraphType /\ GraphMeans(disk.tokens, stored)
            BY DEF Labelled, RecordsOk
        <2>2. Batches(wal[x]) /\ BatchesOk(disk.tokens, disk.tokens, wal[x])
            BY <1>2, <1>4 DEF LogOk
        <2>3. stored' \in GraphType /\ GraphMeans(disk.tokens, stored')
            BY <1>1, <2>1, <2>2, FlushMeans
        <2>4. GraphMeans(m.tokens, stored')
            BY <1>6, <2>3, GraphMeansExtends
        <2>5. QED
            BY <1>1, <1>8, <2>3, <2>4 DEF Labelled, RecordsOk, core
    <1>13. LogsOk'
        <2> DEFINE w == wal'
        <2>1. LogOk(cat.ids, m, wal)
            <3>1. Extends(cat.ids, cat.ids)
                BY DEF Extends
            <3>2. QED
                BY <1>2, <1>6, <3>1, LogOkExtends
        <2>2. wal = [g \in 1..MaxGen |-> wal[g]]
            BY <1>2 DEF LogOk
        <2>3. /\ w = [g \in 1..MaxGen |-> w[g]] /\ w[x] = <<>>
              /\ \A g \in 1..MaxGen : g # x => w[g] = wal[g]
            BY <1>1, <1>4, <2>2
        <2>4. disk.active # x
            BY <1>2, <1>3, <1>4 DEF ManifestOk
        <2> HIDE DEF w
        <2>5. \A g \in 1..MaxGen : Batches(w[g])
            BY <2>1, <2>3, NoBatches DEF LogOk
        <2>6. \A g \in 1..MaxGen : g \in z => BatchesOk(m.tokens, m.tokens, w[g])
            BY <1>6, <2>1, <2>3 DEF LogOk
        <2>7. BatchesOk(cat.ids, m.tokens, w[disk.active])
            BY <1>3, <1>6, <2>1, <2>3, <2>4 DEF LogOk
        <2>8. \A g \in 1..MaxGen : g \notin z \cup {disk.active} => w[g] = <<>>
            BY <1>6, <2>1, <2>3 DEF LogOk
        <2>9. LogOk(cat.ids, disk', w)
            BY <1>8, <2>3, <2>5, <2>6, <2>7, <2>8 DEF LogOk
        <2>10. ASSUME pc = "up" /\ Durable PROVE Logs(cat.ids, m.tokens, w[disk.active])
            <3>1. Logs(cat.ids, disk.tokens, wal[disk.active])
                BY <2>10 DEF Labelled, LogsOk
            <3>2. w[disk.active] = wal[disk.active]
                BY <1>3, <2>3, <2>4
            <3>3. \A l \in Labels : disk.tokens[l] # 0 => m.tokens[l] # 0
                BY <1>6 DEF Extends
            <3>4. QED
                BY <3>1, <3>2, <3>3 DEF Logs
        <2>11. cat' = cat /\ pc' = pc /\ (Durable' <=> Durable)
            BY <1>1 DEF core, Durable
        <2>12. QED
            BY <1>8, <2>9, <2>10, <2>11 DEF LogsOk, w
    <1>14. PhaseOk'
        BY <1>1 DEF Labelled, PhaseOk, Durable
    <1>15. QED
        BY <1>10, <1>11, <1>12, <1>13, <1>14 DEF Labelled

\* The batches a crash leaves.
LEMMA PrefixOk ==
    ASSUME NEW batches, Batches(batches), NEW kept \in Nat, kept <= Len(batches)
    PROVE  LET p == SubSeq(batches, 1, kept)
           IN  /\ Batches(p) /\ Len(p) = kept /\ \A k \in 1..kept : p[k] = batches[k]
               /\ \A f, known : BatchesOk(f, known, batches) => BatchesOk(f, known, p)
               /\ kept = Len(batches) => p = batches
    <1> DEFINE p == SubSeq(batches, 1, kept)
               S == {batches[k] : k \in 1..Len(batches)}
    <1>1. /\ Len(batches) \in Nat /\ batches = [k \in 1..Len(batches) |-> batches[k]]
          /\ \A k \in 1..Len(batches) : batches[k].applied /\ IsDelta(batches[k].d) /\ Whole(batches[k])
        BY DEF Batches
    <1>2. \A k \in 1..kept : k \in 1..Len(batches) /\ batches[k] \in S /\ 1 + k - 1 = k
        BY <1>1
    <1>3. p \in Seq(S) /\ Len(p) = kept /\ \A k \in 1..kept : p[k] = batches[k]
        <2> HIDE DEF S
        <2>1. /\ p \in Seq(S) /\ Len(p) = (IF 1 <= kept THEN kept - 1 + 1 ELSE 0)
              /\ \A i \in 1..kept - 1 + 1 : p[i] = batches[1 + i - 1]
            BY <1>2, SubSeqProperties
        <2> HIDE DEF p
        <2>2. kept - 1 + 1 = kept /\ (~(1 <= kept) => kept = 0)
            OBVIOUS
        <2>3. QED
            BY <1>2, <2>1, <2>2
    <1> HIDE DEF S
    <1>4. p = [k \in 1..kept |-> p[k]]
        <2> HIDE DEF p
        <2>1. QED
            BY <1>3
    <1> HIDE DEF p
    <1>5. Batches(p)
        BY <1>1, <1>2, <1>3, <1>4 DEF Batches
    <1>6. ASSUME NEW f, NEW known, BatchesOk(f, known, batches) PROVE BatchesOk(f, known, p)
        <2>1. \A k \in 1..Len(p) : Means(f, p[k].tokens)
            BY <1>2, <1>3, <1>6 DEF BatchesOk
        <2>2. ASSUME NEW k \in 1..Len(p), NEW t \in BatchTokens(p[k].d)
              PROVE  t \in Token /\ (known[Label(t)] = Id(t) \/ \E j \in 1..k : t \in p[j].tokens)
            <3>1. k \in 1..Len(batches) /\ p[k] = batches[k] /\ \A j \in 1..k : p[j] = batches[j]
                BY <1>2, <1>3
            <3>2. t \in Token /\ (known[Label(t)] = Id(t) \/ \E j \in 1..k : t \in batches[j].tokens)
                BY <1>6, <3>1 DEF BatchesOk
            <3>3. QED
                BY <3>1, <3>2
        <2>3. QED
            BY <2>1, <2>2 DEF BatchesOk
    <1>7. ASSUME kept = Len(batches) PROVE p = batches
        BY <1>1, <1>3, <1>4, <1>7
    <1>8. QED
        BY <1>3, <1>5, <1>6, <1>7 DEF p

\* close and crashes: the manifest m stays, and of the active generation what was kept.
LEMMA StopKeeps ==
    ASSUME Labelled, NEW m, Advances(disk, m, cat.ids), NEW kept \in Nat, kept <= Len(wal[disk.active]),
           Stop(m, kept)
    PROVE  Labelled'
    <1> DEFINE a == disk.active
    <1>1. /\ UNCHANGED <<core, stored, profile>> /\ synced' = kept /\ disk' = m /\ pc' = "down" /\ Durable
          /\ wal' = [wal EXCEPT ![a] = SubSeq(@, 1, kept)]
        BY DEF Stop, Storage
    <1>2. CatalogOk /\ CatOk(cat) /\ ManifestOk(disk) /\ Extends(disk.tokens, cat.ids) /\ LogOk(cat.ids, disk, wal)
        BY DEF Labelled, CatalogOk, LogsOk
    <1>3. disk \in DiskType /\ a \in 1..MaxGen
        BY <1>2 DEF ManifestOk, DiskType
    <1>4. m \in DiskType /\ m.active = disk.active /\ m.frozen = disk.frozen /\ Above(m.next, m.tokens)
          /\ m.schemas = disk.schemas /\ m.policy = disk.policy /\ m.indexes = disk.indexes
          /\ Extends(disk.tokens, m.tokens) /\ Extends(m.tokens, cat.ids)
        BY DEF Advances
    <1>5. RefersTo(m.tokens, m.schemas, m.policy, m.indexes)
        BY <1>2, RefersToAdvances
    <1>6. CatalogOk'
        <2>1. ManifestOk(m)
            BY <1>2, <1>4, <1>5 DEF ManifestOk
        <2>2. QED
            BY <1>1, <1>2, <1>4, <2>1 DEF CatalogOk, core
    <1>7. MemoryOk'
        BY <1>1, <1>4 DEF Labelled, MemoryOk, Manifest, core
    <1>8. RecordsOk'
        <2>1. GraphMeans(m.tokens, stored)
            BY <1>4, GraphMeansExtends DEF Labelled, RecordsOk
        <2>2. QED
            BY <1>1, <2>1 DEF Labelled, RecordsOk, core
    <1>9. LogsOk'
        <2> DEFINE w == wal'
        <2>1. LogOk(cat.ids, m, wal)
            <3>1. Extends(cat.ids, cat.ids)
                BY DEF Extends
            <3>2. QED
                BY <1>2, <1>4, <3>1, LogOkExtends
        <2>2. wal = [g \in 1..MaxGen |-> wal[g]] /\ Batches(wal[a])
            BY <1>2, <1>3 DEF LogOk
        <2>3. /\ w = [g \in 1..MaxGen |-> w[g]] /\ w[a] = SubSeq(wal[a], 1, kept)
              /\ \A g \in 1..MaxGen : g # a => w[g] = wal[g]
            BY <1>1, <1>3, <2>2
        <2> HIDE DEF w
        <2>4. Batches(w[a]) /\ \A f, known : BatchesOk(f, known, wal[a]) => BatchesOk(f, known, w[a])
            BY <2>2, <2>3, PrefixOk
        <2>5. \A g \in m.frozen : g # a
            BY <1>2, <1>3, <1>4 DEF ManifestOk
        <2>6. \A g \in 1..MaxGen : Batches(w[g])
            BY <2>1, <2>3, <2>4 DEF LogOk
        <2>7. \A g \in 1..MaxGen : g \in m.frozen => BatchesOk(m.tokens, m.tokens, w[g])
            BY <2>1, <2>3, <2>5 DEF LogOk
        <2>8. BatchesOk(cat.ids, m.tokens, w[a])
            BY <1>4, <2>1, <2>4 DEF LogOk
        <2>9. \A g \in 1..MaxGen : g \notin m.frozen \cup {a} => w[g] = <<>>
            BY <1>4, <2>1, <2>3 DEF LogOk
        <2>10. LogOk(cat.ids, m, w)
            BY <1>4, <2>3, <2>6, <2>7, <2>8, <2>9 DEF LogOk
        <2>11. QED
            BY <1>1, <2>10 DEF LogsOk, core, w
    <1>10. PhaseOk'
        BY <1>1 DEF Labelled, PhaseOk, Durable
    <1>11. QED
        BY <1>6, <1>7, <1>8, <1>9, <1>10 DEF Labelled

\* Both of them.
LEMMA StopsKeep ==
    ASSUME Labelled, Close \/ Crash
    PROVE  /\ Labelled'
           /\ \E m : \E kept \in Nat : Advances(disk, m, cat.ids) /\ kept <= Len(wal[disk.active]) /\ Stop(m, kept)
    <1>1. CatalogOk /\ CatOk(cat) /\ ManifestOk(disk) /\ Extends(disk.tokens, cat.ids) /\ LogOk(cat.ids, disk, wal)
        BY DEF Labelled, CatalogOk, LogsOk
    <1>2. disk \in DiskType /\ disk.active \in 1..MaxGen
        BY <1>1 DEF ManifestOk, DiskType
    <1>3. Len(wal[disk.active]) \in Nat /\ synced \in Nat
        BY <1>1, <1>2 DEF LogOk, Batches, Labelled, PhaseOk
    <1>4. \E m : \E kept \in Nat : Advances(disk, m, cat.ids) /\ kept <= Len(wal[disk.active]) /\ Stop(m, kept)
        <2>1. CASE Close
            <3>1. Advances(disk, SyncedManifest, cat.ids)
                BY <1>1, <1>2, ApplyAdvances DEF SyncedManifest
            <3>2. Stop(SyncedManifest, Len(wal[disk.active]))
                BY <2>1 DEF Close
            <3>3. QED
                BY <1>3, <3>1, <3>2
        <2>2. CASE Crash
            <3>1. PICK kept \in synced..Len(wal[disk.active]) : Stop(disk, kept)
                BY <2>2 DEF Crash
            <3>2. kept \in Nat /\ kept <= Len(wal[disk.active])
                BY <1>3
            <3>3. Advances(disk, disk, cat.ids)
                BY <1>1 DEF Advances, ManifestOk, Extends
            <3>4. QED
                BY <3>1, <3>2, <3>3
        <2>3. QED
            BY <2>1, <2>2
    <1>5. QED
        BY <1>4, StopKeeps

\* open reads the log and leaves it as it is, when every batch had been applied.
LEMMA LogReread ==
    ASSUME NEW f, NEW m, NEW w, LogOk(f, m, w)
    PROVE  [g \in DOMAIN w |-> [k \in DOMAIN w[g] |-> [w[g][k] EXCEPT !.applied = TRUE]]] = w
    <1>1. w = [g \in 1..MaxGen |-> w[g]] /\ \A g \in 1..MaxGen : Batches(w[g])
        BY DEF LogOk
    <1>2. ASSUME NEW g \in 1..MaxGen PROVE [k \in DOMAIN w[g] |-> [w[g][k] EXCEPT !.applied = TRUE]] = w[g]
        <2> DEFINE s == w[g]
        <2>1. s = [k \in 1..Len(s) |-> s[k]] /\ \A k \in 1..Len(s) : Whole(s[k])
            BY <1>1 DEF Batches
        <2> HIDE DEF s
        <2>2. ASSUME NEW k \in 1..Len(s) PROVE [s[k] EXCEPT !.applied = TRUE] = s[k]
            <3> DEFINE b == s[k]
            <3>1. b = [tokens |-> b.tokens, d |-> b.d, applied |-> TRUE]
                BY <2>1 DEF Whole
            <3> HIDE DEF b
            <3>2. [b EXCEPT !.applied = TRUE] = b
                BY <3>1
            <3>3. QED
                BY <3>2 DEF b
        <2>3. DOMAIN s = 1..Len(s)
            BY <2>1
        <2>4. [k \in DOMAIN s |-> [s[k] EXCEPT !.applied = TRUE]] = [k \in 1..Len(s) |-> s[k]]
            BY <2>2, <2>3
        <2>5. QED
            BY <2>1, <2>4 DEF s
    <1>3. DOMAIN w = 1..MaxGen
        BY <1>1
    <1> DEFINE R(g) == [k \in DOMAIN w[g] |-> [w[g][k] EXCEPT !.applied = TRUE]]
    <1>4. \A g \in 1..MaxGen : R(g) = w[g]
        BY <1>2
    <1> HIDE DEF R
    <1>5. [g \in DOMAIN w |-> R(g)] = w
        BY <1>1, <1>3, <1>4
    <1>6. QED
        BY <1>5 DEF R

\* open succeeds, with the records the segments and the log hold.
LEMMA OpenDoes ==
    ASSUME Labelled, Open
    PROVE  /\ pc' = "up" /\ cat' = Recovered.cat /\ graph' = GraphLoop(stored, wal)[disk.active]
           /\ graph' = Recovered.graph /\ mem' = Manifest /\ rules' = disk.schemas
           /\ pubIds' = Recovered.cat.ids /\ wal' = wal
           /\ UNCHANGED <<disk, synced, stored, profile, lost, faulted>>
    <1> DEFINE r == Recovered
    <1>1. ReplayOk(r, cat.ids, disk.tokens, wal[disk.active], Len(wal[disk.active]))
          /\ r.graph = GraphLoop(stored, wal)[disk.active]
        BY RecoveredOk
    <1>2. LogOk(cat.ids, disk, wal) /\ disk.policy \subseteq Known(disk.tokens)
        BY DEF Labelled, LogsOk, CatalogOk, ManifestOk, RefersTo
    <1> HIDE DEF r
    <1>3. r.ok /\ Extends(disk.tokens, r.cat.ids)
        BY <1>1 DEF ReplayOk
    <1>4. PoliciesResolve(r.cat)
        BY <1>2, <1>3 DEF PoliciesResolve, Known, Extends
    <1>5. /\ pc' = "up" /\ cat' = r.cat /\ graph' = r.graph /\ mem' = Manifest /\ rules' = disk.schemas
          /\ pubIds' = r.cat.ids
          /\ wal' = [g \in DOMAIN wal |-> [k \in DOMAIN wal[g] |-> [wal[g][k] EXCEPT !.applied = TRUE]]]
          /\ UNCHANGED <<disk, synced, stored, profile, lost, faulted>>
        BY <1>3, <1>4 DEF Open, hist, r
    <1>6. wal' = wal
        BY <1>2, <1>5, LogReread
    <1>7. QED
        BY <1>1, <1>5, <1>6 DEF r

\* What is recovered is labelled as what was there before.
LEMMA OpenKeeps ==
    ASSUME Labelled, Open
    PROVE  Labelled'
    <1> DEFINE r == Recovered
               a == disk.active
    <1>1. /\ pc' = "up" /\ cat' = r.cat /\ graph' = r.graph /\ mem' = Manifest /\ rules' = disk.schemas
          /\ pubIds' = r.cat.ids /\ wal' = wal
          /\ UNCHANGED <<disk, synced, stored, profile>>
        BY OpenDoes
    <1>2. ReplayOk(r, cat.ids, disk.tokens, wal[a], Len(wal[a]))
        BY RecoveredOk
    <1> HIDE DEF r
    <1>3. CatOk(cat) /\ ManifestOk(disk) /\ LogOk(cat.ids, disk, wal)
        BY DEF Labelled, CatalogOk, LogsOk
    <1>4. /\ r.cat \in CatType /\ Above(r.cat.next, r.cat.ids)
          /\ Extends(disk.tokens, r.cat.ids) /\ Extends(r.cat.ids, cat.ids)
          /\ r.graph \in GraphType /\ GraphMeans(r.cat.ids, r.graph)
        BY <1>2 DEF ReplayOk
    <1>5. CatOk(r.cat)
        <2>1. Distinct(r.cat.ids)
            BY <1>3, <1>4, ExtendsDistinct DEF CatOk
        <2>2. QED
            BY <1>4, <2>1 DEF CatOk
    <1>6. CatalogOk'
        BY <1>1, <1>3, <1>4, <1>5 DEF CatalogOk
    <1>7. MemoryOk'
        BY <1>1 DEF MemoryOk, Manifest
    <1>8. RecordsOk'
        BY <1>1, <1>4 DEF Labelled, RecordsOk
    <1>9. LogsOk'
        <2>1. BatchesOk(r.cat.ids, disk.tokens, wal[a])
            <3>1. \A k \in 1..Len(wal[a]) : Means(r.cat.ids, wal[a][k].tokens)
                BY <1>2 DEF ReplayOk
            <3>2. BatchesOk(cat.ids, disk.tokens, wal[a])
                BY <1>3 DEF LogOk
            <3>3. QED
                BY <3>1, <3>2 DEF BatchesOk
        <2>2. LogOk(r.cat.ids, disk, wal)
            BY <1>3, <2>1 DEF LogOk
        <2>3. Logs(r.cat.ids, disk.tokens, wal[a])
            BY <1>2 DEF ReplayOk, Logs
        <2>4. QED
            BY <1>1, <2>2, <2>3 DEF LogsOk
    <1>10. PhaseOk'
        BY <1>1 DEF Labelled, PhaseOk
    <1>11. QED
        BY <1>6, <1>7, <1>8, <1>9, <1>10 DEF Labelled

-----------------------------------------------------------------------------
(* Labels keep their meaning *)

\* A publication that fails half-way marks the history, and nothing takes the mark back.
LEMMA PublishFaults ==
    ASSUME NEW c, NEW proposed, NEW nodeTargets, NEW edgeTarget, NEW published, NEW always,
           PublishSchemas(c, proposed, nodeTargets, edgeTarget, published, always), ~faulted'
    PROVE  ~faulted
    BY ManifestWriteDoes DEF PublishSchemas

\* The step after a fault is after a fault.
LEMMA FaultsStay ==
    ASSUME [Next]_vars, ~faulted'
    PROVE  ~faulted
    <1>1. CASE (\E l \in Labels : EnsureNodeLabel(l)) \/ UpsertEdge \/ DeleteEdge \/ InvalidateEdge
        BY <1>1, WriteDoes DEF EnsureNodeLabel, UpsertEdge, DeleteEdge, InvalidateEdge, WriteEdge
    <1>2. CASE NodeCall
        BY <1>2, WriteDoes DEF NodeCall, DeleteNode, UpsertNode, AddNodeLabel, RemoveNodeLabel
    <1>3. ASSUME NEW request, NEW writes, NEW edge, TxnCommit(request, writes, edge)
          PROVE  ~faulted
        BY <1>3, WriteDoes DEF TxnCommit
    <1>4. CASE \/ \E l \in Labels : EnsureNodePropertyIndex(l) \/ DropNodePropertyIndex(l) \/ SetPrunePolicy(l)
               \/ RemovePrunePolicy
        BY <1>4, ManifestWriteDoes
        DEF EnsureNodePropertyIndex, DropNodePropertyIndex, SetPrunePolicy, RemovePrunePolicy
    <1>5. CASE SchemaCall
        <2>1. ASSUME NEW l, NEW x, SetNodeSchema(l, x) PROVE ~faulted
            BY <2>1, PublishFaults DEF SetNodeSchema
        <2>2. ASSUME NEW from, NEW to, SetEdgeSchema(from, to) PROVE ~faulted
            BY <2>2, PublishFaults DEF SetEdgeSchema
        <2>3. ASSUME NEW l, NEW x, NEW from, NEW to, NEW replaces, GraphSchema(l, x, from, to, replaces)
              PROVE  ~faulted
            BY <2>3, PublishFaults DEF GraphSchema
        <2>4. ASSUME NEW kind, NEW kept, DropSchemas(kind, kept) PROVE ~faulted
            BY <2>4, ManifestWriteDoes DEF DropSchemas
        <2>5. CASE (\E l \in Labels : DropNodeSchema(l)) \/ DropEdgeSchema \/ DropGraphSchema
            BY <2>4, <2>5 DEF DropNodeSchema, DropEdgeSchema, DropGraphSchema
        <2>6. QED
            BY <1>5, <2>1, <2>2, <2>3, <2>5 DEF SchemaCall
    <1>6. CASE Sync \/ Freeze \/ PublishFlush \/ Close \/ Crash \/ Open \/ UNCHANGED vars
        BY <1>6 DEF Sync, Freeze, PublishFlush, Close, Crash, Stop, Open, hist, vars
    <1>7. QED
        BY <1>1, <1>2, <1>3, <1>4, <1>5, <1>6 DEF Next

\* A new database.
LEMMA InitLabelled ==
    ASSUME Init
    PROVE  Labelled
    <1> DEFINE none == [l \in Labels |-> 0]
    <1>1. /\ cat = [ids |-> none, gens |-> none, next |-> 1] /\ graph = NoGraph /\ stored = NoGraph
          /\ disk = [tokens |-> cat.ids, next |-> 1, active |-> 1, frozen |-> {},
                     schemas |-> NoSchemas, policy |-> {}, indexes |-> {}]
          /\ mem = Manifest /\ rules = NoSchemas /\ pubIds = cat.ids
          /\ wal = [g \in 1..MaxGen |-> <<>>] /\ synced = 0 /\ pc = "up" /\ profile \in Profiles
        BY DEF Init
    <1>2. /\ cat.ids = none /\ cat.next = 1 /\ disk.tokens = none /\ disk.next = 1 /\ disk.active = 1
          /\ disk.frozen = {} /\ disk.schemas = NoSchemas /\ disk.policy = {} /\ disk.indexes = {}
        BY <1>1
    <1>3. none \in [Labels -> Nat] /\ \A l \in Labels : none[l] = 0
        OBVIOUS
    <1>4. MaxGen \in Nat /\ 1 \in 1..MaxGen
        BY CatalogAssumption
    <1>5. NoSchemas \in SchemaType /\ NoSchemas.node = {} /\ NoSchemas.edge = {}
        BY DEF NoSchemas, SchemaType
    <1>6. NoGraph \in GraphType /\ \A n \in Nodes : NoGraph.nodes[n] = {}
        BY DEF NoGraph, GraphType, EdgeStates
    <1>7. cat \in CatType
        BY <1>1, <1>3 DEF CatType
    <1>8. disk \in DiskType
        BY <1>1, <1>2, <1>3, <1>4, <1>5 DEF DiskType
    <1> HIDE DEF none
    <1>9. SchemaTokens(NoSchemas) = {}
        BY <1>5 DEF SchemaTokens
    <1>10. CatalogOk
        <2>1. CatOk(cat)
            BY <1>2, <1>3, <1>7 DEF CatOk, Distinct, Above
        <2>2. RefersTo(none, NoSchemas, {}, {})
            BY <1>9 DEF RefersTo, Means
        <2>3. ManifestOk(disk)
            BY <1>2, <1>3, <1>8, <2>2 DEF ManifestOk, Above
        <2>4. QED
            BY <1>2, <2>1, <2>3 DEF CatalogOk, Extends
    <1>11. MemoryOk
        BY <1>1, <1>2 DEF MemoryOk
    <1>12. RecordsOk
        BY <1>1, <1>6 DEF RecordsOk, GraphMeans, Means
    <1>13. LogsOk
        <2>1. \A g \in 1..MaxGen : wal[g] = <<>>
            BY <1>1
        <2>2. \A g \in 1..MaxGen : Batches(wal[g])
            BY <2>1, NoBatches
        <2>3. BatchesOk(cat.ids, disk.tokens, wal[disk.active])
            BY <1>2, <1>4, <2>1, NoBatches
        <2>4. wal = [g \in 1..MaxGen |-> wal[g]]
            BY <1>1
        <2>5. LogOk(cat.ids, disk, wal)
            BY <1>2, <2>1, <2>2, <2>3, <2>4 DEF LogOk
        <2>6. Logs(cat.ids, disk.tokens, wal[disk.active])
            BY <1>2, <1>3 DEF Logs
        <2>7. QED
            BY <2>5, <2>6 DEF LogsOk
    <1>14. PhaseOk
        BY <1>1 DEF PhaseOk
    <1>15. QED
        BY <1>10, <1>11, <1>12, <1>13, <1>14 DEF Labelled

\* Every step without a fault keeps the invariant.
LEMMA NextLabelled ==
    ASSUME Labelled, [Next]_vars, ~faulted'
    PROVE  Labelled'
    <1>1. ASSUME Writing PROVE Labelled'
        <2>1. PICK c, d : WriteOf(c, d)
            BY <1>1 DEF Writing
        <2>2. QED
            BY <1>1, <2>1, WriteKeeps DEF WriteOf, Writing
    <1>2. CASE (\E l \in Labels : EnsureNodeLabel(l)) \/ UpsertEdge \/ DeleteEdge \/ InvalidateEdge
        BY <1>1, <1>2, TokenOrEdgeWrites
    <1>3. CASE NodeCall
        BY <1>1, <1>3, NodeCallWrites
    <1>4. ASSUME NEW w \in Writes, NEW e \in {"keep", "none", "valid"},
                 TxnCommit(SetToSeq(UNION {w[n] : n \in DOMAIN w}), w, e)
          PROVE  Labelled'
        BY <1>1, <1>4, TxnWrites
    <1>5. CASE \/ \E l \in Labels : EnsureNodePropertyIndex(l) \/ DropNodePropertyIndex(l) \/ SetPrunePolicy(l)
               \/ RemovePrunePolicy
        BY <1>5, EnsureIndexKeeps, DropIndexKeeps, SetPolicyKeeps, RemovePolicyKeeps
    <1>6. CASE SchemaCall
        <2>1. CASE \E l \in Labels : \E x \in Labels \ {l} : SetNodeSchema(l, x)
            BY <2>1, SetNodeSchemaKeeps
        <2>2. CASE \E l \in Labels : \E x \in Labels \ {l} :
                      \E from, to \in LabelSets, replaces \in BOOLEAN : GraphSchema(l, x, from, to, replaces)
            BY <2>2, GraphSchemaKeeps
        <2>3. CASE \E from, to \in LabelSets : SetEdgeSchema(from, to)
            BY <2>3, SetEdgeSchemaKeeps
        <2>4. CASE (\E l \in Labels : DropNodeSchema(l)) \/ DropEdgeSchema \/ DropGraphSchema
            BY <2>4, DropsKeep
        <2>5. QED
            BY <1>6, <2>1, <2>2, <2>3, <2>4 DEF SchemaCall
    <1>7. CASE Sync \/ Freeze \/ PublishFlush
        BY <1>7, SyncKeeps, FreezeKeeps, FlushKeeps
    <1>8. CASE Close \/ Crash \/ Open
        BY <1>8, StopsKeep, OpenKeeps
    <1>9. CASE UNCHANGED vars
        <2>1. UNCHANGED <<core, files, pc, profile>>
            BY <1>9 DEF vars, hist
        <2>2. CatalogOk' /\ MemoryOk' /\ RecordsOk'
            BY <2>1 DEF Labelled, CatalogOk, MemoryOk, RecordsOk, core, files, Manifest
        <2>3. LogsOk' /\ PhaseOk'
            BY <2>1 DEF Labelled, LogsOk, PhaseOk, core, files, Durable
        <2>4. QED
            BY <2>2, <2>3 DEF Labelled
    <1>10. QED
        BY <1>2, <1>3, <1>4, <1>5, <1>6, <1>7, <1>8, <1>9 DEF Next

\* A state of the invariant has its labels.
LEMMA LabelledMeans ==
    ASSUME Labelled
    PROVE  LabelsKeepMeaning
    <1>1. /\ Extends(disk.tokens, cat.ids) /\ RefersTo(disk.tokens, disk.schemas, disk.policy, disk.indexes)
          /\ rules = disk.schemas /\ pubIds = cat.ids /\ GraphMeans(cat.ids, graph) /\ pc \in {"up", "down"}
        BY DEF Labelled, CatalogOk, ManifestOk, MemoryOk, RecordsOk, PhaseOk
    <1>2. RefersTo(cat.ids, rules, disk.policy, disk.indexes)
        BY <1>1, RefersToExtends
    <1>3. Means(cat.ids, SchemaTokens(rules)) /\ disk.policy \subseteq Known(cat.ids) /\ Means(cat.ids, disk.indexes)
        BY <1>2 DEF RefersTo
    <1>4. ASSUME NEW t \in TokensInUse PROVE cat.ids[Label(t)] = Id(t)
        <2>1. TokensInUse = (UNION {graph.nodes[n] : n \in Nodes}) \cup SchemaTokens(rules)
            BY DEF TokensInUse, SchemaTokens
        <2>2. CASE t \in UNION {graph.nodes[n] : n \in Nodes}
            <3>1. PICK X \in {graph.nodes[n] : n \in Nodes} : t \in X
                BY <2>2, Zenon
            <3>2. PICK n \in Nodes : t \in graph.nodes[n]
                BY <3>1
            <3>3. QED
                BY <1>1, <3>2 DEF GraphMeans, Means
        <2>3. CASE t \in SchemaTokens(rules)
            BY <1>3, <2>3 DEF Means
        <2>4. QED
            BY <2>1, <2>2, <2>3
    <1>5. QED
        BY <1>1, <1>3, <1>4 DEF LabelsKeepMeaning, Means

\* Whatever crash comes between a WAL append, a manifest write and a flush, a label id never
\* comes to stand for another label: the database opens, and the records, schemas, index
\* declarations and prune policies mean the labels they were written with, for any set of
\* labels, any workload and any number of generations and restarts.
THEOREM LabelsKeepTheirMeaning == Spec => []LabelsKeepMeaning
    <1> DEFINE Inv == ~faulted => Labelled
    <1>1. Init => Inv
        BY InitLabelled
    <1>2. Inv /\ [Next]_vars => Inv'
        BY FaultsStay, NextLabelled
    <1>3. Inv => LabelsKeepMeaning
        BY LabelledMeans DEF LabelsKeepMeaning
    <1>4. QED
        BY <1>1, <1>2, <1>3, PTL DEF Spec

-----------------------------------------------------------------------------
(* Schemas hold.  The invariant adds that the records in memory are those of  *)
(* segments and log together, so that a restart brings back what was         *)
(* validated.                                                                *)

Backed == Durable => graph = GraphLoop(stored, wal)[MaxGen]
Valid  == ~lost => Conforms(rules, graph) /\ Backed

\* A flush depends on the batches read so far only.
LEMMA FlushLoopAgrees ==
    ASSUME NEW g, NEW b1, NEW b2, Batches(b1), Batches(b2), NEW n \in Nat, n <= Len(b1), n <= Len(b2),
           \A k \in 1..n : b1[k] = b2[k]
    PROVE  FlushLoop(g, b1)[n] = FlushLoop(g, b2)[n]
    <1> DEFINE r1 == FlushLoop(g, b1)
               r2 == FlushLoop(g, b2)
               S  == {k \in Nat : k <= n => r1[k] = r2[k]}
    <1>1. Len(b1) \in Nat /\ Len(b2) \in Nat
        BY DEF Batches
    <1>2. r1[0] = g /\ \A k \in 1..Len(b1) : r1[k] = Effect(r1[k - 1], b1[k].d)
        BY FlushLoopTurns
    <1>3. r2[0] = g /\ \A k \in 1..Len(b2) : r2[k] = Effect(r2[k - 1], b2[k].d)
        BY FlushLoopTurns
    <1> HIDE DEF r1, r2
    <1>4. 0 \in S
        BY <1>2, <1>3
    <1>5. ASSUME NEW k \in S PROVE k + 1 \in S
        <2> SUFFICES ASSUME k + 1 <= n PROVE r1[k + 1] = r2[k + 1]
            OBVIOUS
        <2>1. k + 1 \in 1..n /\ k + 1 \in 1..Len(b1) /\ k + 1 \in 1..Len(b2) /\ k + 1 - 1 = k /\ k <= n
            BY <1>1
        <2>2. r1[k + 1] = Effect(r1[k], b1[k + 1].d) /\ r2[k + 1] = Effect(r2[k], b2[k + 1].d)
            BY <1>2, <1>3, <2>1
        <2>3. r1[k] = r2[k] /\ b1[k + 1] = b2[k + 1]
            BY <2>1
        <2>4. QED
            BY <2>2, <2>3
    <1>6. S = Nat
        <2> HIDE DEF S
        <2>1. QED
            BY <1>4, <1>5, Induction DEF S
    <1>7. r1[n] = r2[n]
        BY <1>6
    <1>8. QED
        BY <1>7 DEF r1, r2

\* One batch more.
LEMMA FlushAppend ==
    ASSUME NEW g, NEW batches, NEW b, Batches(batches), Batches(Append(batches, b))
    PROVE  FlushLoop(g, Append(batches, b))[Len(Append(batches, b))]
             = Effect(FlushLoop(g, batches)[Len(batches)], b.d)
    <1> DEFINE r == Append(batches, b)
               n == Len(batches)
    <1>1. n \in Nat /\ batches = [k \in 1..n |-> batches[k]]
        BY DEF Batches
    <1>2. Len(r) = n + 1 /\ r[n + 1] = b /\ \A k \in 1..n : r[k] = batches[k]
        <2> DEFINE S == {batches[k] : k \in 1..n} \cup {b}
        <2>1. batches \in [1..n -> S] /\ b \in S
            BY <1>1
        <2> HIDE DEF S
        <2>2. batches \in Seq(S)
            BY <1>1, <2>1
        <2>3. QED
            BY <2>1, <2>2, AppendProperties
    <1>3. Batches(r)
        OBVIOUS
    <1> HIDE DEF r
    <1>4. n <= n /\ n <= Len(r) /\ n + 1 \in 1..Len(r) /\ n + 1 - 1 = n
        BY <1>1, <1>2
    <1>5. FlushLoop(g, r)[n + 1] = Effect(FlushLoop(g, r)[n], b.d)
        <2>1. FlushLoop(g, r)[n + 1] = Effect(FlushLoop(g, r)[n + 1 - 1], r[n + 1].d)
            BY <1>3, <1>4, FlushLoopTurns
        <2>2. QED
            BY <1>2, <1>4, <2>1
    <1>6. FlushLoop(g, r)[n] = FlushLoop(g, batches)[n]
        BY <1>1, <1>2, <1>3, <1>4, FlushLoopAgrees
    <1>7. QED
        BY <1>2, <1>5, <1>6 DEF r

\* The two logs have the same batches in the generations behind `from`, up to n.
SameBehind(w1, w2, from, n) ==
    from \in Nat /\ n \in Nat /\ from <= n /\ n <= MaxGen /\ \A g \in 1..n : from < g => w1[g] = w2[g]

\* The same generations on top of the same records.
LEMMA GraphLoopAgrees ==
    ASSUME NEW g1, NEW w1, NEW g2, NEW w2, NEW from, NEW n, SameBehind(w1, w2, from, n),
           GraphLoop(g1, w1)[from] = GraphLoop(g2, w2)[from]
    PROVE  GraphLoop(g1, w1)[n] = GraphLoop(g2, w2)[n]
    <1> DEFINE r1 == GraphLoop(g1, w1)
               r2 == GraphLoop(g2, w2)
               S  == {k \in Nat : from + k <= n => r1[from + k] = r2[from + k]}
    <1>1. /\ MaxGen \in Nat /\ from \in Nat /\ n \in Nat /\ from <= n /\ n <= MaxGen
          /\ \A g \in 1..n : from < g => w1[g] = w2[g]
        BY CatalogAssumption DEF SameBehind
    <1>2. \A g \in 1..MaxGen : r1[g] = FlushLoop(r1[g - 1], w1[g])[Len(w1[g])]
        BY GraphLoopTurns
    <1>3. \A g \in 1..MaxGen : r2[g] = FlushLoop(r2[g - 1], w2[g])[Len(w2[g])]
        BY GraphLoopTurns
    <1>4. r1[from] = r2[from]
        OBVIOUS
    <1> HIDE DEF r1, r2
    <1>5. 0 \in S
        BY <1>1, <1>4
    <1>6. ASSUME NEW k \in S PROVE k + 1 \in S
        <2> DEFINE g == from + k
        <2> SUFFICES ASSUME g + 1 <= n PROVE r1[g + 1] = r2[g + 1]
            BY <1>1
        <2>1. g \in Nat /\ g + 1 \in 1..MaxGen /\ g + 1 \in 1..n /\ from < g + 1 /\ g + 1 - 1 = g /\ g <= n
            BY <1>1
        <2>2. r1[g] = r2[g]
            BY <2>1
        <2> HIDE DEF g
        <2>3. w1[g + 1] = w2[g + 1]
            BY <1>1, <2>1
        <2>4. r1[g + 1] = FlushLoop(r1[g], w1[g + 1])[Len(w1[g + 1])]
            BY <1>2, <2>1
        <2>5. r2[g + 1] = FlushLoop(r2[g], w2[g + 1])[Len(w2[g + 1])]
            BY <1>3, <2>1
        <2>6. QED
            BY <2>2, <2>3, <2>4, <2>5
    <1>7. S = Nat
        <2> HIDE DEF S
        <2>1. QED
            BY <1>5, <1>6, Induction DEF S
    <1>8. n - from \in Nat /\ from + (n - from) = n
        BY <1>1
    <1>9. r1[n] = r2[n]
        <2>1. n - from \in S
            BY <1>7, <1>8
        <2>2. QED
            BY <1>1, <1>8, <2>1
    <1>10. QED
        BY <1>9 DEF r1, r2

\* Generations without batches.
LEMMA GraphLoopIdle ==
    ASSUME NEW g0, NEW w, NEW from \in Nat, NEW n \in Nat, from <= n, n <= MaxGen,
           \A g \in (from + 1)..n : w[g] = <<>>
    PROVE  GraphLoop(g0, w)[n] = GraphLoop(g0, w)[from]
    <1> DEFINE r == GraphLoop(g0, w)
               S == {k \in Nat : from + k <= n => r[from + k] = r[from]}
    <1>1. MaxGen \in Nat
        BY CatalogAssumption
    <1>2. \A g \in 1..MaxGen : r[g] = FlushLoop(r[g - 1], w[g])[Len(w[g])]
        BY GraphLoopTurns
    <1> HIDE DEF r
    <1>3. 0 \in S
        OBVIOUS
    <1>4. ASSUME NEW k \in S PROVE k + 1 \in S
        <2> DEFINE g == from + k
        <2> SUFFICES ASSUME g + 1 <= n PROVE r[g + 1] = r[from]
            OBVIOUS
        <2>1. g \in Nat /\ g + 1 \in 1..MaxGen /\ g + 1 \in (from + 1)..n /\ g + 1 - 1 = g /\ g <= n
            BY <1>1
        <2>2. r[g] = r[from]
            BY <2>1
        <2> HIDE DEF g
        <2>3. r[g + 1] = FlushLoop(r[g], w[g + 1])[Len(w[g + 1])] /\ w[g + 1] = <<>>
            BY <1>2, <2>1
        <2>4. QED
            BY <2>2, <2>3, EmptyFlush
    <1>5. S = Nat
        <2> HIDE DEF S
        <2>1. QED
            BY <1>3, <1>4, Induction DEF S
    <1>6. n - from \in Nat /\ from + (n - from) = n
        OBVIOUS
    <1>7. r[n] = r[from]
        <2>1. n - from \in S
            BY <1>5, <1>6
        <2>2. QED
            BY <1>6, <2>1
    <1>8. QED
        BY <1>7 DEF r

\* Behind the active generation there is nothing.
LEMMA GraphLoopEnds ==
    ASSUME NEW f, NEW m, ManifestOk(m), NEW w, LogOk(f, m, w), NEW g0
    PROVE  GraphLoop(g0, w)[MaxGen] = GraphLoop(g0, w)[m.active]
    <1>1. m.active \in Nat /\ m.active <= MaxGen /\ m.active \in 1..MaxGen /\ MaxGen \in Nat
        BY CatalogAssumption DEF ManifestOk, DiskType
    <1>2. ASSUME NEW g \in (m.active + 1)..MaxGen PROVE w[g] = <<>>
        <2>1. g \in 1..MaxGen /\ g # m.active /\ ~(g < m.active)
            BY <1>1
        <2>2. g \notin m.frozen \cup {m.active}
            BY <2>1 DEF ManifestOk
        <2>3. QED
            BY <2>1, <2>2 DEF LogOk
    <1>3. QED
        BY <1>1, <1>2, GraphLoopIdle

\* A write is validated on its own effect, and that is enough.
LEMMA WriteValid ==
    ASSUME Labelled, Valid, pc = "up", NEW c, NEW d, WriteOf(c, d), ~faulted'
    PROVE  Valid'
    <1> DEFINE a == disk.active
               b == [tokens |-> Created(cat, c), d |-> d, applied |-> TRUE]
    <1>1. /\ graph' = Effect(graph, d) /\ wal' = (IF Durable THEN Logged(b) ELSE wal)
          /\ rules' = rules /\ disk' = disk /\ stored' = stored /\ profile' = profile /\ lost' = lost
          /\ ValidateOps(rules, graph, d)
        BY WriteDoes DEF WriteOf
    <1>2. Labelled'
        BY WriteKeeps DEF WriteOf
    <1>3. ManifestOk(disk) /\ LogOk(cat.ids, disk, wal)
        BY DEF Labelled, CatalogOk, LogsOk
    <1>4. LogOk(cat'.ids, disk, wal')
        BY <1>1, <1>2 DEF Labelled, LogsOk
    <1>5. a \in 1..MaxGen /\ a - 1 \in Nat /\ a - 1 <= MaxGen /\ 0 <= a - 1 /\ MaxGen \in Nat
        BY <1>3, CatalogAssumption DEF ManifestOk, DiskType
    <1> SUFFICES ASSUME ~lost PROVE Conforms(rules', graph') /\ Backed'
        BY <1>1 DEF Valid
    <1>6. Conforms(rules, Effect(graph, d))
        <2>1. IsBatch(d)
            BY DEF WriteOf, IsDelta, IsBatch, EdgeStates
        <2>2. QED
            BY <1>1, <2>1, ValidateOpsExact DEF Valid
    <1>7. ASSUME Durable PROVE Effect(graph, d) = GraphLoop(stored, wal')[MaxGen]
        <2> DEFINE r == GraphLoop(stored, wal)
                   q == GraphLoop(stored, wal')
        <2>1. graph = r[a] /\ q[MaxGen] = q[a]
            BY <1>3, <1>4, <1>7, GraphLoopEnds DEF Valid, Backed
        <2>2. wal' = [wal EXCEPT ![a] = Append(@, b)] /\ wal = [g \in 1..MaxGen |-> wal[g]]
            BY <1>1, <1>3, <1>7 DEF Logged, LogOk
        <2> HIDE DEF b
        <2>3. wal'[a] = Append(wal[a], b) /\ \A g \in 1..MaxGen : g # a => wal'[g] = wal[g]
            BY <1>5, <2>2
        <2>4. Batches(wal[a]) /\ Batches(Append(wal[a], b))
            BY <1>3, <1>4, <1>5, <2>3 DEF LogOk
        <2>5. r[0] = stored /\ q[0] = stored
            BY GraphLoopTurns
        <2>6. r[a] = FlushLoop(r[a - 1], wal[a])[Len(wal[a])]
            BY <1>5, GraphLoopTurns
        <2>7. q[a] = FlushLoop(q[a - 1], wal'[a])[Len(wal'[a])]
            BY <1>5, GraphLoopTurns
        <2>8. q[a - 1] = r[a - 1]
            <3> DEFINE k == a - 1
            <3>1. SameBehind(wal', wal, 0, k)
                BY <1>5, <2>3 DEF SameBehind
            <3>2. GraphLoop(stored, wal')[0] = GraphLoop(stored, wal)[0]
                BY <2>5
            <3> HIDE DEF k
            <3>3. GraphLoop(stored, wal')[k] = GraphLoop(stored, wal)[k]
                BY <3>1, <3>2, GraphLoopAgrees
            <3>4. QED
                BY <3>3 DEF k
        <2> HIDE DEF r, q
        <2>9. q[a] = Effect(r[a], b.d)
            BY <2>3, <2>4, <2>6, <2>7, <2>8, FlushAppend
        <2>10. b.d = d
            BY DEF b
        <2>11. QED
            BY <2>1, <2>9, <2>10 DEF q
    <1>8. Durable' <=> Durable
        BY <1>1 DEF Durable
    <1>9. Backed'
        BY <1>1, <1>7, <1>8 DEF Backed
    <1>10. QED
        BY <1>1, <1>6, <1>9

\* A step that leaves records, segments and log alone.
LEMMA RulesValid ==
    ASSUME Valid, UNCHANGED <<graph, wal, stored, profile, lost>>,
           ~lost /\ Conforms(rules, graph) => Conforms(rules', graph)
    PROVE  Valid'
    <1>1. Backed' <=> Backed
        BY DEF Backed, Durable
    <1>2. QED
        BY <1>1 DEF Valid

\* A manifest write that publishes these schemas.
LEMMA ManifestWriteValid ==
    ASSUME Valid, NEW m, NEW new, NEW schemas, NEW publish, WriteManifest(m, new, schemas, publish), ~faulted',
           ~lost /\ Conforms(rules, graph) => Conforms(schemas, graph)
    PROVE  Valid'
    <1>1. rules' = schemas /\ UNCHANGED <<graph, wal, stored, profile, lost>>
        BY ManifestWriteDoes
    <1>2. QED
        BY <1>1, RulesValid

\* Index declarations and prune policies.
LEMMA DeclarationsValid ==
    ASSUME Valid, ~faulted',
           \/ \E l \in Labels : EnsureNodePropertyIndex(l) \/ DropNodePropertyIndex(l) \/ SetPrunePolicy(l)
           \/ RemovePrunePolicy
    PROVE  Valid'
    BY ManifestWriteValid
    DEF EnsureNodePropertyIndex, DropNodePropertyIndex, SetPrunePolicy, RemovePrunePolicy

\* A node schema: the nodes it applies to are looked at, the others have no reason to change.
LEMMA EnteredConforms ==
    ASSUME NEW s, NEW g, NEW r, NEW e, NEW kept, kept \subseteq s.node,
           Conforms(s, g), r.node = UpsertEntry(kept, e),
           \A n \in Nodes : Ids(g.nodes[n]) \cap {Id(e.on)} # {} => NodeOk(r, Ids(g.nodes[n])),
           g.edge # "none" => EndpointsOk(r, Ids(g.nodes[Ends.from]), Ids(g.nodes[Ends.to]))
    PROVE  Conforms(r, g)
    <1> SUFFICES ASSUME NEW n \in Nodes, Id(e.on) \notin Ids(g.nodes[n]) PROVE NodeOk(r, Ids(g.nodes[n]))
        BY DEF Conforms
    <1>1. NodeOk(s, Ids(g.nodes[n]))
        BY DEF Conforms
    <1>2. QED
        BY <1>1 DEF NodeOk, UpsertEntry

\* set_node_schema
LEMMA SetNodeSchemaValid ==
    ASSUME Labelled, Valid, NEW l \in Labels, NEW x \in Labels, SetNodeSchema(l, x), ~faulted'
    PROVE  Valid'
    <1> DEFINE c == Resolve(cat, <<l, x>>)
               e == NodeEntry(c, l, x)
               s == disk.schemas
               r == [s EXCEPT !.node = UpsertEntry(s.node, e)]
    <1>1. PublishSchemas(c, [mem.schemas EXCEPT !.node = UpsertEntry(mem.schemas.node, e)],
                         {c.ids[l]}, FALSE, r, TRUE)
        BY DEF SetNodeSchema
    <1>2. mem.schemas = s /\ rules = s
        BY DEF Labelled, MemoryOk, Manifest
    <1>3. PublishSchemas(c, r, {c.ids[l]}, FALSE, r, TRUE)
        BY <1>1, <1>2
    <1>4. ExistingOk(r, {c.ids[l]}, FALSE)
        BY <1>3 DEF PublishSchemas
    <1>5. s \in SchemaType
        BY DEF Labelled, CatalogOk, ManifestOk, DiskType
    <1>6. r.node = UpsertEntry(s.node, e) /\ r.edge = s.edge
        BY <1>5 DEF SchemaType
    <1>7. Id(e.on) = c.ids[l]
        BY DEF NodeEntry, Id
    <1> HIDE DEF r, e, c, s
    <1>8. ASSUME Conforms(s, graph) PROVE Conforms(r, graph)
        <2>1. graph.edge # "none" => EndpointsOk(r, Ids(graph.nodes[Ends.from]), Ids(graph.nodes[Ends.to]))
            BY <1>6, <1>8 DEF Conforms, EndpointsOk
        <2>2. \A n \in Nodes : Ids(graph.nodes[n]) \cap {Id(e.on)} # {} => NodeOk(r, Ids(graph.nodes[n]))
            BY <1>4, <1>7 DEF ExistingOk
        <2>3. QED
            BY <1>6, <1>8, <2>1, <2>2, EnteredConforms
    <1>9. QED
        BY <1>2, <1>3, <1>8, ManifestWriteValid DEF PublishSchemas

\* set_edge_schema
LEMMA SetEdgeSchemaValid ==
    ASSUME Labelled, Valid, NEW from, NEW to, SetEdgeSchema(from, to), ~faulted'
    PROVE  Valid'
    <1> DEFINE c == Resolve(cat, SetToSeq(from \cup to))
               e == EdgeEntry(c, from, to)
               s == disk.schemas
               r == [s EXCEPT !.edge = {e}]
    <1>1. PublishSchemas(c, [mem.schemas EXCEPT !.edge = {e}], {}, TRUE, r, TRUE)
        BY DEF SetEdgeSchema
    <1>2. mem.schemas = s /\ rules = s
        BY DEF Labelled, MemoryOk, Manifest
    <1>3. PublishSchemas(c, r, {}, TRUE, r, TRUE)
        BY <1>1, <1>2
    <1>4. ExistingOk(r, {}, TRUE)
        BY <1>3 DEF PublishSchemas
    <1>5. s \in SchemaType
        BY DEF Labelled, CatalogOk, ManifestOk, DiskType
    <1>6. r.node = s.node
        BY <1>5 DEF SchemaType
    <1> HIDE DEF r, c, s
    <1>7. ASSUME Conforms(s, graph) PROVE Conforms(r, graph)
        <2>1. \A n \in Nodes : NodeOk(r, Ids(graph.nodes[n]))
            BY <1>6, <1>7 DEF Conforms, NodeOk
        <2>2. QED
            BY <1>4, <2>1 DEF Conforms, ExistingOk
    <1>8. QED
        BY <1>2, <1>3, <1>7, ManifestWriteValid DEF PublishSchemas

\* set_graph_schema and alter_graph_schema
LEMMA GraphSchemaValid ==
    ASSUME Labelled, Valid, NEW l \in Labels, NEW x \in Labels, NEW from, NEW to, NEW replaces,
           GraphSchema(l, x, from, to, replaces), ~faulted'
    PROVE  Valid'
    <1> DEFINE c == Resolve(cat, <<l, x>> \o SetToSeq((from \cup to) \ {l, x}))
               e == NodeEntry(c, l, x)
               kept == IF replaces THEN {} ELSE mem.schemas.node
               r == [node |-> UpsertEntry(kept, e), edge |-> {EdgeEntry(c, from, to)}]
    <1>1. PublishSchemas(c, r, {c.ids[l]}, TRUE, r, FALSE)
        BY DEF GraphSchema
    <1>2. ExistingOk(r, {c.ids[l]}, TRUE)
        BY <1>1 DEF PublishSchemas
    <1>3. rules = mem.schemas
        BY DEF Labelled, MemoryOk, Manifest
    <1>4. kept \subseteq rules.node
        BY <1>3
    <1>5. Id(e.on) = c.ids[l] /\ r.node = UpsertEntry(kept, e)
        BY DEF NodeEntry, Id
    <1> HIDE DEF r, e, c, kept
    <1>6. ASSUME Conforms(rules, graph) PROVE Conforms(r, graph)
        BY <1>2, <1>4, <1>5, <1>6, EnteredConforms DEF ExistingOk
    <1>7. QED
        BY <1>1, <1>6, ManifestWriteValid DEF PublishSchemas

\* The schema drops leave fewer entries.
LEMMA DropsValid ==
    ASSUME Labelled, Valid, (\E l \in Labels : DropNodeSchema(l)) \/ DropEdgeSchema \/ DropGraphSchema, ~faulted'
    PROVE  Valid'
    <1> DEFINE s == disk.schemas
    <1>1. s \in SchemaType /\ rules = s
        BY DEF Labelled, MemoryOk, CatalogOk, ManifestOk, DiskType
    <1>2. PICK kind, kept : DropSchemas(kind, kept) /\ kept.node \subseteq s.node /\ kept.edge \subseteq s.edge
        <2>1. ASSUME NEW l \in Labels, DropNodeSchema(l)
              PROVE  \E kind, kept : DropSchemas(kind, kept) /\ kept.node \subseteq s.node /\ kept.edge \subseteq s.edge
            <3> DEFINE kept == [s EXCEPT !.node = {e \in s.node : Id(e.on) # cat.ids[l]}]
            <3>1. DropSchemas("nodeSchema", kept)
                BY <2>1 DEF DropNodeSchema
            <3>2. kept.node \subseteq s.node /\ kept.edge \subseteq s.edge
                BY <1>1 DEF SchemaType
            <3> HIDE DEF kept
            <3>3. QED
                BY <3>1, <3>2
        <2>2. CASE DropEdgeSchema
            <3> DEFINE kept == [s EXCEPT !.edge = {}]
            <3>1. DropSchemas("edgeSchema", kept)
                BY <2>2 DEF DropEdgeSchema
            <3>2. kept.node \subseteq s.node /\ kept.edge \subseteq s.edge
                BY <1>1 DEF SchemaType
            <3> HIDE DEF kept
            <3>3. QED
                BY <3>1, <3>2
        <2>3. CASE DropGraphSchema
            <3>1. NoSchemas.node \subseteq s.node /\ NoSchemas.edge \subseteq s.edge
                BY DEF NoSchemas
            <3>2. QED
                BY <2>3, <3>1 DEF DropGraphSchema
        <2>4. QED
            BY <2>1, <2>2, <2>3
    <1>3. Conforms(s, graph) => Conforms(kept, graph)
        BY <1>2 DEF Conforms, NodeOk, EndpointsOk
    <1>4. QED
        BY <1>1, <1>2, <1>3, ManifestWriteValid DEF DropSchemas

\* The flush of the oldest generation moves its records from the log to the segments.
LEMMA FlushValid ==
    ASSUME Labelled, Valid, PublishFlush
    PROVE  Valid'
    <1> DEFINE x == Oldest
               a == disk.active
    <1>1. /\ UNCHANGED <<graph, rules, profile, lost>> /\ disk.frozen # {}
          /\ stored' = FlushLoop(stored, wal[x])[Len(wal[x])] /\ wal' = [wal EXCEPT ![x] = <<>>]
        BY DEF PublishFlush, Oldest, hist, core
    <1>2. CatalogOk /\ ManifestOk(disk) /\ LogOk(cat.ids, disk, wal)
        BY DEF Labelled, CatalogOk, LogsOk
    <1>3. a \in 1..MaxGen /\ MaxGen \in Nat /\ \A g \in disk.frozen : g < a
        BY <1>2, CatalogAssumption DEF ManifestOk, DiskType
    <1>4. x \in disk.frozen /\ x \in 1..MaxGen /\ \A h \in disk.frozen : x <= h
        BY <1>1, <1>2, OldestIs
    <1> HIDE DEF x
    <1>5. /\ wal'[x] = <<>> /\ \A g \in 1..MaxGen : g # x => wal'[g] = wal[g]
        BY <1>1, <1>4 DEF LogOk, Labelled, LogsOk
    <1>6. ASSUME NEW g \in 1..MaxGen, g < x PROVE wal[g] = <<>>
        <2>1. g \notin disk.frozen \cup {a}
            BY <1>3, <1>4, <1>6
        <2>2. QED
            BY <1>2, <2>1 DEF LogOk
    <1> DEFINE p == x - 1
               r == GraphLoop(stored, wal)
               q == GraphLoop(stored', wal')
    <1>7. p \in Nat /\ 0 \in Nat /\ 0 <= p /\ p <= MaxGen /\ x \in Nat /\ x <= MaxGen /\ 0 <= x
        BY <1>3, <1>4
    <1>8. r[x] = stored'
        <2>1. r[0] = stored /\ r[x] = FlushLoop(r[x - 1], wal[x])[Len(wal[x])]
            BY <1>4, GraphLoopTurns
        <2>2. ASSUME NEW g \in (0 + 1)..p PROVE wal[g] = <<>>
            <3>1. g \in 1..MaxGen /\ g < x
                BY <1>3, <1>4, <1>7
            <3>2. QED
                BY <1>6, <3>1
        <2>3. r[p] = r[0]
            BY <1>7, <2>2, GraphLoopIdle
        <2>4. QED
            BY <1>1, <2>1, <2>3
    <1>9. q[x] = stored'
        <2>1. q[0] = stored'
            BY GraphLoopTurns
        <2>2. ASSUME NEW g \in (0 + 1)..x PROVE wal'[g] = <<>>
            <3>1. g \in 1..MaxGen /\ (g < x \/ g = x)
                BY <1>3, <1>4, <1>7
            <3>2. QED
                BY <1>5, <1>6, <3>1
        <2>3. q[x] = q[0]
            BY <1>7, <2>2, GraphLoopIdle
        <2>4. QED
            BY <2>1, <2>3
    <1>10. r[MaxGen] = q[MaxGen]
        <2>1. SameBehind(wal, wal', x, MaxGen)
            BY <1>3, <1>4, <1>5 DEF SameBehind
        <2>2. GraphLoop(stored, wal)[x] = GraphLoop(stored', wal')[x]
            BY <1>8, <1>9
        <2>3. GraphLoop(stored, wal)[MaxGen] = GraphLoop(stored', wal')[MaxGen]
            BY <2>1, <2>2, GraphLoopAgrees
        <2>4. QED
            BY <2>3
    <1> HIDE DEF r, q
    <1>11. Durable' <=> Durable
        BY <1>1 DEF Durable
    <1>12. Backed => Backed'
        <2> SUFFICES ASSUME Backed, Durable PROVE graph' = GraphLoop(stored', wal')[MaxGen]
            BY <1>11 DEF Backed
        <2>1. graph = r[MaxGen]
            BY DEF Backed, r
        <2>2. QED
            BY <1>1, <1>10, <2>1 DEF q
    <1>13. QED
        BY <1>1, <1>12 DEF Valid

\* A stop that loses nothing cuts nothing off the log.
LEMMA StopValid ==
    ASSUME Labelled, Valid, NEW m, NEW kept \in Nat, kept <= Len(wal[disk.active]), Stop(m, kept)
    PROVE  Valid'
    <1> DEFINE a == disk.active
    <1>1. /\ UNCHANGED <<graph, rules, stored, profile>> /\ wal' = [wal EXCEPT ![a] = SubSeq(@, 1, kept)]
          /\ lost' = (lost \/ \E k \in kept + 1 .. Len(wal[a]) : wal[a][k].applied)
        BY DEF Stop, core
    <1>2. wal = [g \in 1..MaxGen |-> wal[g]] /\ a \in 1..MaxGen /\ Batches(wal[a])
        BY DEF Labelled, CatalogOk, ManifestOk, DiskType, LogsOk, LogOk
    <1>3. ASSUME ~lost' PROVE ~lost /\ wal' = wal
        <2>1. Len(wal[a]) \in Nat /\ \A k \in 1..Len(wal[a]) : wal[a][k].applied
            BY <1>2 DEF Batches
        <2>2. ~lost /\ \A k \in kept + 1 .. Len(wal[a]) : ~wal[a][k].applied
            BY <1>1, <1>3
        <2>3. kept = Len(wal[a])
            <3> SUFFICES ASSUME kept # Len(wal[a]) PROVE FALSE
                OBVIOUS
            <3>1. kept + 1 \in 1..Len(wal[a]) /\ kept + 1 \in kept + 1 .. Len(wal[a])
                BY <2>1
            <3>2. QED
                BY <2>1, <2>2, <3>1
        <2>4. SubSeq(wal[a], 1, kept) = wal[a]
            BY <1>2, <2>3, PrefixOk
        <2>5. wal' = [wal EXCEPT ![a] = wal[a]]
            BY <1>1, <2>4
        <2>6. QED
            BY <1>2, <2>2, <2>5
    <1>4. Durable' <=> Durable
        BY <1>1 DEF Durable
    <1>5. QED
        BY <1>1, <1>3, <1>4 DEF Valid, Backed

\* open brings back the records, and the schemas with them.
LEMMA OpenValid ==
    ASSUME Labelled, Valid, Open
    PROVE  Valid'
    <1>1. /\ graph' = GraphLoop(stored, wal)[disk.active] /\ rules' = disk.schemas /\ wal' = wal
          /\ UNCHANGED <<stored, profile, lost>>
        BY OpenDoes
    <1>2. rules = disk.schemas /\ Durable
        BY DEF Labelled, MemoryOk, PhaseOk, Open
    <1>3. graph' = GraphLoop(stored, wal)[MaxGen]
        BY <1>1, GraphLoopEnds DEF Labelled, CatalogOk, LogsOk
    <1>4. Backed'
        BY <1>1, <1>3 DEF Backed
    <1>5. ~lost => graph' = graph
        BY <1>2, <1>3 DEF Valid, Backed
    <1>6. QED
        BY <1>1, <1>2, <1>4, <1>5 DEF Valid

\* Every step without a fault.
LEMMA NextValid ==
    ASSUME Labelled, Valid, [Next]_vars, ~faulted'
    PROVE  Valid'
    <1>1. ASSUME Writing PROVE Valid'
        <2>1. PICK c, d : WriteOf(c, d)
            BY <1>1 DEF Writing
        <2>2. QED
            BY <1>1, <2>1, WriteValid DEF Writing
    <1>2. CASE (\E l \in Labels : EnsureNodeLabel(l)) \/ UpsertEdge \/ DeleteEdge \/ InvalidateEdge
        BY <1>1, <1>2, TokenOrEdgeWrites
    <1>3. CASE NodeCall
        BY <1>1, <1>3, NodeCallWrites
    <1>4. ASSUME NEW w \in Writes, NEW e \in {"keep", "none", "valid"},
                 TxnCommit(SetToSeq(UNION {w[n] : n \in DOMAIN w}), w, e)
          PROVE  Valid'
        BY <1>1, <1>4, TxnWrites
    <1>5. CASE \/ \E l \in Labels : EnsureNodePropertyIndex(l) \/ DropNodePropertyIndex(l) \/ SetPrunePolicy(l)
               \/ RemovePrunePolicy
        BY <1>5, DeclarationsValid
    <1>6. CASE SchemaCall
        <2>1. CASE \E l \in Labels : \E x \in Labels \ {l} : SetNodeSchema(l, x)
            BY <2>1, SetNodeSchemaValid
        <2>2. CASE \E l \in Labels : \E x \in Labels \ {l} :
                      \E from, to \in LabelSets, replaces \in BOOLEAN : GraphSchema(l, x, from, to, replaces)
            BY <2>2, GraphSchemaValid
        <2>3. CASE \E from, to \in LabelSets : SetEdgeSchema(from, to)
            BY <2>3, SetEdgeSchemaValid
        <2>4. CASE (\E l \in Labels : DropNodeSchema(l)) \/ DropEdgeSchema \/ DropGraphSchema
            BY <2>4, DropsValid
        <2>5. QED
            BY <1>6, <2>1, <2>2, <2>3, <2>4 DEF SchemaCall
    <1>7. CASE Sync \/ Freeze \/ UNCHANGED vars
        <2>1. UNCHANGED <<graph, rules, wal, stored, profile, lost>>
            BY <1>7 DEF Sync, Freeze, vars, core, files, hist
        <2>2. QED
            BY <2>1, RulesValid
    <1>8. CASE Close \/ Crash
        <2>1. PICK m : \E kept \in Nat : Advances(disk, m, cat.ids) /\ kept <= Len(wal[disk.active]) /\ Stop(m, kept)
            BY <1>8, StopsKeep
        <2>2. QED
            BY <2>1, StopValid
    <1>9. CASE PublishFlush \/ Open
        BY <1>9, FlushValid, OpenValid
    <1>10. QED
        BY <1>2, <1>3, <1>4, <1>5, <1>6, <1>7, <1>8, <1>9 DEF Next

\* The ids of named tokens are the labels.
LEMMA NamedIds ==
    ASSUME NEW ts
    PROVE  Ids(Named(ts)) = {Label(t) : t \in ts}
    <1>1. ASSUME NEW t \in ts PROVE Label(t) \in Ids(Named(ts))
        <2>1. <<Label(t), Label(t)>> \in Named(ts) /\ Id(<<Label(t), Label(t)>>) = Label(t)
            BY DEF Named, Id
        <2>2. QED
            BY <2>1 DEF Ids
    <1>2. ASSUME NEW x \in Ids(Named(ts)) PROVE x \in {Label(t) : t \in ts}
        <2>1. PICK y \in Named(ts) : x = Id(y)
            BY DEF Ids
        <2>2. PICK t \in ts : y = <<Label(t), Label(t)>>
            BY DEF Named
        <2>3. x = Label(t)
            BY <2>1, <2>2 DEF Id
        <2>4. QED
            BY <2>3
    <1>3. QED
        BY <1>1, <1>2

\* Whether tokens are compared by id or by label makes no difference.
LEMMA SameToken ==
    ASSUME NEW f, Distinct(f), NEW ts, NEW us, Means(f, ts), Means(f, us), NEW t \in ts, NEW u \in us
    PROVE  Id(t) = Id(u) <=> Label(t) = Label(u)
    <1>1. /\ Label(t) \in Labels /\ Id(t) # 0 /\ f[Label(t)] = Id(t)
          /\ Label(u) \in Labels /\ Id(u) # 0 /\ f[Label(u)] = Id(u)
        BY TokenForm
    <1>2. QED
        BY <1>1 DEF Distinct

\* What conforms by id conforms by label.
LEMMA ConformsByLabel ==
    ASSUME Labelled, Conforms(rules, graph)
    PROVE  Conforms(NamedSchemas, NamedGraph)
    <1> DEFINE f == cat.ids
               S == NamedSchemas
               G == NamedGraph
               T(n) == graph.nodes[n]
    <1>1. /\ Distinct(f) /\ graph \in GraphType /\ GraphMeans(f, graph) /\ rules = disk.schemas
          /\ RefersTo(disk.tokens, disk.schemas, disk.policy, disk.indexes) /\ Extends(disk.tokens, f)
        BY DEF Labelled, CatalogOk, CatOk, ManifestOk, RecordsOk, MemoryOk
    <1>2. EntriesMean(f, rules)
        <2>1. Means(f, SchemaTokens(rules))
            BY <1>1, RefersToExtends DEF RefersTo
        <2>2. QED
            BY <2>1, EntriesMeanIs
    <1>3. /\ \A n \in Nodes : G.nodes[n] = Named(T(n))
          /\ G.edge = graph.edge
        BY <1>1 DEF NamedGraph, GraphType
    <1>4. \A n \in Nodes : Means(f, T(n))
        BY <1>1 DEF GraphMeans
    <1>5. \A n \in Nodes : Ids(G.nodes[n]) = {Label(t) : t \in T(n)}
        BY <1>3, NamedIds
    <1>6. /\ S.node = {[on |-> <<Label(e.on), Label(e.on)>>, never |-> <<Label(e.never), Label(e.never)>>] :
                           e \in rules.node}
          /\ S.edge = {[from |-> Named(e.from), to |-> Named(e.to)] : e \in rules.edge}
        BY DEF NamedSchemas
    <1> HIDE DEF f, S, G, T
    <1>7. ASSUME NEW n \in Nodes PROVE NodeOk(S, Ids(G.nodes[n]))
        <2> SUFFICES ASSUME NEW y \in S.node, Id(y.on) \in Ids(G.nodes[n]), Id(y.never) \in Ids(G.nodes[n])
                     PROVE  FALSE
            BY DEF NodeOk
        <2>1. PICK e \in rules.node : y = [on |-> <<Label(e.on), Label(e.on)>>,
                                           never |-> <<Label(e.never), Label(e.never)>>]
            BY <1>6
        <2>2. Id(y.on) = Label(e.on) /\ Id(y.never) = Label(e.never)
            BY <2>1 DEF Id
        <2>3. PICK t \in T(n) : Label(t) = Label(e.on)
            BY <1>5, <2>2
        <2>4. PICK u \in T(n) : Label(u) = Label(e.never)
            BY <1>5, <2>2
        <2>5. Means(f, {e.on}) /\ Means(f, {e.never}) /\ Means(f, T(n))
            BY <1>2, <1>4 DEF EntriesMean
        <2>6. Id(t) = Id(e.on)
            BY <1>1, <2>3, <2>5, SameToken
        <2>7. Id(u) = Id(e.never)
            BY <1>1, <2>4, <2>5, SameToken
        <2>8. Id(e.on) \in Ids(T(n)) /\ Id(e.never) \in Ids(T(n))
            BY <2>6, <2>7 DEF Ids
        <2>9. NodeOk(rules, Ids(T(n)))
            BY DEF Conforms, T
        <2>10. QED
            BY <2>8, <2>9 DEF NodeOk
    <1>8. Ends.from \in Nodes /\ Ends.to \in Nodes
        BY DEF Ends, Nodes
    <1>9. ASSUME graph.edge # "none", NEW y \in S.edge
          PROVE  /\ y.from # {} => /\ Ids(G.nodes[Ends.from]) # {}
                                   /\ Ids(y.from) \subseteq Ids(G.nodes[Ends.from])
                 /\ y.to # {}   => /\ Ids(G.nodes[Ends.to]) # {}
                                   /\ Ids(y.to) \cap Ids(G.nodes[Ends.to]) = {}
        <2> DEFINE A == T(Ends.from)
                   B == T(Ends.to)
        <2>1. PICK e \in rules.edge : y = [from |-> Named(e.from), to |-> Named(e.to)]
            BY <1>6
        <2>2. /\ y.from = Named(e.from) /\ y.to = Named(e.to)
              /\ Ids(y.from) = {Label(t) : t \in e.from} /\ Ids(y.to) = {Label(t) : t \in e.to}
            BY <2>1, NamedIds
        <2>3. (y.from # {} => e.from # {}) /\ (y.to # {} => e.to # {})
            BY <2>2 DEF Named
        <2>4. /\ Ids(G.nodes[Ends.from]) = {Label(t) : t \in A} /\ Ids(G.nodes[Ends.to]) = {Label(t) : t \in B}
            BY <1>5, <1>8
        <2>5. Means(f, A) /\ Means(f, B) /\ Means(f, e.from) /\ Means(f, e.to)
            BY <1>2, <1>4, <1>8 DEF EntriesMean
        <2>6. /\ e.from # {} => Ids(A) # {} /\ Ids(e.from) \subseteq Ids(A)
              /\ e.to # {} => Ids(B) # {} /\ Ids(e.to) \cap Ids(B) = {}
            BY <1>9 DEF Conforms, EndpointsOk, T
        <2> HIDE DEF A, B
        <2>7. (Ids(A) # {} => A # {}) /\ (Ids(B) # {} => B # {})
            BY IdsEmpty
        <2>8. ASSUME y.from # {} PROVE Ids(y.from) \subseteq Ids(G.nodes[Ends.from])
            <3> SUFFICES ASSUME NEW t \in e.from PROVE \E u \in A : Label(u) = Label(t)
                BY <2>2, <2>4
            <3>1. Id(t) \in Ids(A)
                BY <2>3, <2>6, <2>8 DEF Ids
            <3>2. PICK u \in A : Id(u) = Id(t)
                BY <3>1 DEF Ids
            <3>3. Label(u) = Label(t)
                BY <1>1, <2>5, <3>2, SameToken
            <3>4. QED
                BY <3>3
        <2>9. ASSUME y.to # {}, NEW t \in e.to, NEW u \in B, Label(t) = Label(u) PROVE FALSE
            <3>1. Id(t) = Id(u)
                BY <1>1, <2>5, <2>9, SameToken
            <3>2. Id(t) \in Ids(e.to) /\ Id(u) \in Ids(B)
                BY DEF Ids
            <3>3. QED
                BY <2>3, <2>6, <2>9, <3>1, <3>2
        <2>10. y.to # {} => Ids(y.to) \cap Ids(G.nodes[Ends.to]) = {}
            BY <2>2, <2>4, <2>9
        <2>11. (A # {} => {Label(t) : t \in A} # {}) /\ (B # {} => {Label(t) : t \in B} # {})
            OBVIOUS
        <2>12. QED
            BY <2>3, <2>4, <2>6, <2>7, <2>8, <2>10, <2>11
    <1>10. graph.edge # "none" => EndpointsOk(S, Ids(G.nodes[Ends.from]), Ids(G.nodes[Ends.to]))
        BY <1>9 DEF EndpointsOk
    <1>11. Conforms(S, G)
        BY <1>3, <1>7, <1>10 DEF Conforms
    <1>12. QED
        BY <1>11 DEF S, G

\* A new database has no schemas.
LEMMA InitValid ==
    ASSUME Init
    PROVE  Valid
    <1>1. rules = NoSchemas /\ graph = NoGraph /\ stored = NoGraph /\ wal = [g \in 1..MaxGen |-> <<>>]
        BY DEF Init
    <1>2. Conforms(NoSchemas, NoGraph)
        BY DEF Conforms, NoSchemas, NodeOk, EndpointsOk
    <1>3. MaxGen \in Nat /\ 0 \in Nat /\ 0 <= MaxGen /\ MaxGen <= MaxGen
        BY CatalogAssumption
    <1>4. \A g \in (0 + 1)..MaxGen : wal[g] = <<>>
        BY <1>1
    <1>5. GraphLoop(stored, wal)[MaxGen] = GraphLoop(stored, wal)[0]
        BY <1>3, <1>4, GraphLoopIdle
    <1>6. GraphLoop(stored, wal)[0] = stored
        BY GraphLoopTurns
    <1>7. QED
        BY <1>1, <1>2, <1>5, <1>6 DEF Valid, Backed

\* A published schema holds for all live data, by label, through later writes, batches, further
\* publications, flushes, crashes that lose nothing and restarts, for any set of labels and any
\* workload, although every write is validated on its own effect only.
THEOREM SchemasHold == Spec => []SchemaHolds
    <1> DEFINE Inv == ~faulted => Labelled /\ Valid
    <1>1. Init => Inv
        BY InitLabelled, InitValid
    <1>2. Inv /\ [Next]_vars => Inv'
        BY FaultsStay, NextLabelled, NextValid
    <1>3. Inv => SchemaHolds
        BY ConformsByLabel DEF Valid, SchemaHolds
    <1>4. QED
        BY <1>1, <1>2, <1>3, PTL DEF Spec
=============================================================================
