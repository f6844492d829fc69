------------------------------- MODULE Pages --------------------------------
(***************************************************************************)
(* Paginated reads of GraphStore's sources: neighbors_paged,               *)
(* nodes_by_label_id_paged and edges_by_label_id_paged.  They are pure     *)
(* functions of a snapshot; a client that follows next_cursor reads every  *)
(* page from a newer one.  Options are sets; a page is [items, next].      *)
(***************************************************************************)
EXTENDS GraphStore

CONSTANTS
    PageLimits,   \* bound: the limits asked for, 0 for none
    ChunkFactor   \* a chunk is ChunkFactor pages long, 4 in the code; with 1
                  \* a page of a small graph needs several chunks

ASSUME PagesAssumption == PageLimits \subseteq Nat /\ ChunkFactor \in Nat \ {0}

Page(items, next) == [items |-> items, next |-> next]
Ascending(ids) == SetToSortSeq(ids, <)
Take(s, limit) == IF limit = 0 THEN s ELSE SubSeq(s, 1, Min({limit, Len(s)}))

(* The binary search for the cursor, on a list in ascending order: how     *)
(* many entries are behind it.                                             *)
SeekPast(list, after) ==
    Cardinality({i \in DOMAIN list : \E c \in after : list[i] <= c})

(* The heap loop of merge_sorted_paged.  at[i] is the next position of     *)
(* list i; of equal keys the lowest source comes first, the later ones are *)
(* duplicates; skipped holds the <<source, key>> that skip_fn rejects.     *)
RECURSIVE MergeFrom(_, _, _, _, _, _)
MergeFrom(lists, skipped, limit, at, last, items) ==
    LET heap == {i \in DOMAIN lists : at[i] <= Len(lists[i])}
        key  == Min({lists[i][at[i]] : i \in heap})
        src  == Min({i \in heap : lists[i][at[i]] = key})
        next == [at EXCEPT ![src] = @ + 1]
        more == heap # {src} \/ next[src] <= Len(lists[src])
    IN  IF heap = {} THEN Page(items, {})
        ELSE IF last = {key} THEN MergeFrom(lists, skipped, limit, next, last, items)
        ELSE IF <<src, key>> \in skipped
        THEN MergeFrom(lists, skipped, limit, next, {key}, items)
        ELSE IF limit > 0 /\ Len(items) + 1 >= limit
        THEN Page(Append(items, key), IF more THEN {key} ELSE {})
        ELSE MergeFrom(lists, skipped, limit, next, {key}, Append(items, key))

MergeSortedPaged(lists, skipped, limit, after) ==
    MergeFrom(lists, skipped, limit,
              [i \in DOMAIN lists |-> SeekPast(lists[i], after) + 1], {}, <<>>)

(* policy_excluded_node_ids *)
Excluded(srcs) == {n \in LiveNodes(srcs) : policy /\ Opinion(srcs, "n", n).low}

-----------------------------------------------------------------------------
(* neighbors_paged, without decay *)

(* What the sources may hand to the merge: the active memtable's entries   *)
(* are sorted there, a frozen one's come in any order, as its hash map     *)
(* gives them, a segment's as the outgoing list and then the incoming one. *)
AdjacencyLists(srcs, memtables, n, dir) ==
    LET outgoing(i) == {e \in SourceNeighbors(srcs[i], i <= memtables, n) :
                           dir # "in" /\ srcs[i].e[e].from = n}
        incoming(i) == {e \in SourceNeighbors(srcs[i], i <= memtables, n) \ outgoing(i) :
                           dir # "out" /\ srcs[i].e[e].to = n}
        orders(i) == IF i = 1 THEN {Ascending(outgoing(i) \union incoming(i))}
                     ELSE IF i <= memtables THEN SetToSeqs(outgoing(i) \union incoming(i))
                     ELSE {Ascending(outgoing(i)) \o Ascending(incoming(i))}
    IN  FoldLeft(LAMBDA ls, i : {Append(l, order) : l \in ls, order \in orders(i)},
                 {<<>>}, [i \in DOMAIN srcs |-> i])

(* skip_fn: all tombstones of all sources count, and the entry's validity. *)
SkippedEntries(srcs, n) ==
    LET deadEdges == Tombstones(srcs, "e")
        deadNodes == Tombstones(srcs, "n")
    IN  {ie \in (DOMAIN srcs) \X EdgeIds :
            LET entry == srcs[ie[1]].e[ie[2]]
            IN  /\ Touches(entry, n)
                /\ \/ ie[2] \in deadEdges
                   \/ OtherEnd(entry, n) \in deadNodes
                   \/ ~entry.valid}

(* What a query of n's neighbors merges, skips and hides by policy. *)
NeighborQuery(srcs, lists, excluded, n) ==
    [lists   |-> lists,
     skipped |-> SkippedEntries(srcs, n),
     hidden  |-> IF excluded = {} THEN {}
                 ELSE {e \in EdgeIds : \E i \in DOMAIN srcs :
                          LET entry == srcs[i].e[e]
                          IN  Touches(entry, n) /\ OtherEnd(entry, n) \in excluded}]

\* Mutant: a page that the policy thins out is not filled up.
FilteredNeighborsOnce(q, limit, after, collected) ==
    LET chunk == MergeSortedPaged(q.lists, q.skipped, limit, after)
    IN  Page(SelectSeq(chunk.items, LAMBDA e : e \notin q.hidden), chunk.next)

(* The loop of the policy path: chunks until the page is full. *)
RECURSIVE FilteredNeighbors(_, _, _, _)
FilteredNeighbors(q, limit, after, collected) ==
    LET chunk == MergeSortedPaged(q.lists, q.skipped, limit * ChunkFactor, after)
        shown == collected \o SelectSeq(chunk.items, LAMBDA e : e \notin q.hidden)
    IN  IF Len(shown) >= limit THEN Page(Take(shown, limit), {shown[limit]})
        ELSE IF chunk.next = {} THEN Page(shown, {})
        ELSE FilteredNeighbors(q, limit, {Last(chunk.items)}, shown)

NeighborsPaged(q, limit, after) ==
    IF ~policy THEN MergeSortedPaged(q.lists, q.skipped, limit, after)
    ELSE IF limit = 0
    THEN Page(SelectSeq(MergeSortedPaged(q.lists, q.skipped, 0, after).items,
                        LAMBDA e : e \notin q.hidden), {})
    ELSE FilteredNeighbors(q, limit, after, <<>>)

-----------------------------------------------------------------------------
(* Scans by label *)

(* nodes_by_single_label_id_paged_unfiltered: candidates from the label    *)
(* postings of all sources, each kept if its newest record has the label;  *)
(* one more than the limit is looked for.                                  *)
NodesUnfiltered(srcs, label, limit, after) ==
    LET carries(slot) == IsLive(slot) /\ label \in slot.labels
        candidates == {n \in NodeIds : /\ \A c \in after : n > c
                                       /\ \E i \in DOMAIN srcs : carries(srcs[i].n[n])}
        found == Ascending({n \in candidates : carries(Opinion(srcs, "n", n))})
    IN  IF limit > 0 /\ Len(found) > limit THEN Page(Take(found, limit), {found[limit]})
        ELSE Page(found, {})

RECURSIVE FilteredNodes(_, _, _, _, _)
FilteredNodes(srcs, label, limit, after, collected) ==
    LET chunk == NodesUnfiltered(srcs, label, limit * ChunkFactor, after)
        shown == collected \o SelectSeq(chunk.items, LAMBDA n : n \notin Excluded(srcs))
    IN  IF limit > 0 /\ Len(shown) >= limit THEN Page(Take(shown, limit), {shown[limit]})
        ELSE IF chunk.next = {} THEN Page(shown, {})
        ELSE FilteredNodes(srcs, label, limit, {Last(chunk.items)}, shown)

NodesByLabelPaged(srcs, label, limit, after) ==
    IF policy THEN FilteredNodes(srcs, label, limit, after, <<>>)
    ELSE NodesUnfiltered(srcs, label, limit, after)

(* What a scan by edge label merges and skips; there is one edge label. *)
EdgeQuery(srcs) ==
    [lists   |-> [i \in DOMAIN srcs |-> Ascending({e \in EdgeIds : IsLive(srcs[i].e[e])})],
     skipped |-> (DOMAIN srcs) \X Tombstones(srcs, "e")]

EdgesByLabelPaged(q, limit, after) == MergeSortedPaged(q.lists, q.skipped, limit, after)

-----------------------------------------------------------------------------
(* Properties *)

(* None, or an id that has ids behind it. *)
Cursors(ids) == {{}} \union {{c} : c \in ids \ {Max(ids)}}

(* The directions worth asking for: of a node all of whose edges go one    *)
(* way, the lists in both directions are those of that way, and the others *)
(* are empty.                                                              *)
DirectionsOf(srcs, n) ==
    LET has(end) == \E i \in DOMAIN srcs, e \in EdgeIds :
                        IsLive(srcs[i].e[e]) /\ srcs[i].e[e][end] = n
    IN  IF has("from") /\ has("to") THEN {"out", "in", "both"} ELSE {"both"}

(* The page holds the next `limit` of the expected ids behind the cursor,  *)
(* and says so if it is not the last.                                      *)
IsPageOf(page, expected, limit, after) ==
    LET rest == {x \in expected : \A c \in after : x > c}
    IN  /\ page.items = Take(Ascending(rest), limit)
        /\ page.next = {} => Len(page.items) = Cardinality(rest)
        /\ page.next # {} => page.items # <<>> /\ page.next = {Last(page.items)}

(* A page of edges_by_label_id_paged or nodes_by_label_id_paged is the     *)
(* part of the live records behind the cursor, in ascending order, and a   *)
(* page of neighbors_paged that of what neighbors() returns: a client that *)
(* follows next_cursor gets every record that is there all the time        *)
(* exactly once, however its versions and tombstones move between the      *)
(* sources from page to page, and a page that a prune policy thins out is  *)
(* filled up.  neighbors_paged keeps this only if each source happens to   *)
(* hand over its list in ascending order, as merge_sorted_paged takes for  *)
(* granted; a hash map or a list in both directions need not.  As in       *)
(* DegreesExact, the node never had a dangling edge.                       *)
PagesExact ==
    LET srcs  == Sources
        nodes == Newest(srcs, "n")
        edges == Newest(srcs, "e")
        hidden == Excluded(srcs)
        shown == LiveNodes(srcs) \ hidden
        scan  == EdgeQuery(srcs)
        live  == LiveEdges(srcs)
        ascending(list) == list = Ascending(ToSet(list))
    IN  /\ \A limit \in PageLimits, after \in Cursors(EdgeIds) :
              IsPageOf(EdgesByLabelPaged(scan, limit, after), live, limit, after)
        /\ \A n \in LiveNodes(srcs) \ dangled : \A dir \in DirectionsOf(srcs, n) :
           \A lists \in AdjacencyLists(srcs, 1 + Len(frozen), n, dir) :
              (\A i \in DOMAIN lists : ascending(lists[i])) =>
              LET q == NeighborQuery(srcs, lists, hidden, n)
                  neighbors == {e \in IncidentNow(n) \ q.hidden :
                                   \/ dir # "in" /\ edges[e].from = n
                                   \/ dir # "out" /\ edges[e].to = n}
              IN  \A limit \in PageLimits, after \in Cursors(EdgeIds) :
                      IsPageOf(NeighborsPaged(q, limit, after), neighbors, limit, after)
        /\ \A l \in Labels :
              LET carrying == {n \in shown : l \in nodes[n].labels}
              IN  \A limit \in PageLimits, after \in Cursors(NodeIds) :
                      IsPageOf(NodesByLabelPaged(srcs, l, limit, after), carrying, limit, after)
=============================================================================
