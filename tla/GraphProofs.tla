---------------------------- MODULE GraphProofs -----------------------------
(***************************************************************************)
(* Lookups by key and by triple, adjacency, cascades and degrees of        *)
(* GraphStore, for every number of ids, labels, keys, sources, commits and *)
(* batch entries.                                                          *)
(*                                                                         *)
(* The lookups stop at the first source that knows an answer, so they are  *)
(* right only if no source behind a newer owner can be mistaken for it.    *)
(* Good says what makes that so of a list of sources: a deleted id never   *)
(* comes back in a newer source, an edge keeps its ends, ids not given out *)
(* yet are unused, and where two records claim a key (with edge_uniqueness, *)
(* a triple) the older one is not its id's newest version.  It is kept by  *)
(* every operation of a commit, and so by every plan, once a plan is known *)
(* to assign ids by the sources it leads to: the two batch loops, with     *)
(* their staged keys and triples, are shown to know exactly those.  It is  *)
(* kept by freezing and flushing, and by a compaction's output in place of *)
(* its inputs, which may drop ids but picks newest versions only.          *)
(*                                                                         *)
(* Degrees are sums that nobody recounts.  DegreeGood says that they add   *)
(* up to the valid edges, and that these are anchored: both ends are live, *)
(* and known at the edge's version or behind it.  That is what a           *)
(* compaction needs, which keeps its inputs' sum but drops an edge whose   *)
(* ends it does not find; Keeps is what its output owes the sources it     *)
(* replaces, from the step that takes the inputs to the one that installs  *)
(* the output.                                                             *)
(***************************************************************************)
EXTENDS GraphStore, WellFoundedInduction, FiniteSetTheorems, SequenceTheorems, TLAPS

-----------------------------------------------------------------------------
(* The inductive invariant, as a predicate of a list of sources *)

Holds(slot, l, k) == IsLive(slot) /\ l \in slot.labels /\ slot.key = k
Joins(slot, f, t) == IsLive(slot) /\ slot.from = f /\ slot.to = t

SlotOk(slot) == slot = Absent \/ IsLive(slot) \/ IsDead(slot)

\* A source maps the ids to slots.
SourceOk(src) ==
    /\ DOMAIN src = {"n", "e", "d"}
    /\ DOMAIN src.n = NodeIds /\ DOMAIN src.e = EdgeIds
    /\ \A n \in NodeIds : SlotOk(src.n[n])
    /\ \A e \in EdgeIds : SlotOk(src.e[e])

\* A deleted id does not come back.
DeadFinal(srcs) ==
    \A i, j \in DOMAIN srcs : j < i =>
        /\ \A n \in NodeIds : IsDead(srcs[i].n[n]) => ~IsLive(srcs[j].n[n])
        /\ \A e \in EdgeIds : IsDead(srcs[i].e[e]) => ~IsLive(srcs[j].e[e])

\* The versions of an edge have the same ends.
EndsFixed(srcs) ==
    \A i, j \in DOMAIN srcs : \A e \in EdgeIds :
        IsLive(srcs[i].e[e]) /\ IsLive(srcs[j].e[e]) =>
            srcs[i].e[e].from = srcs[j].e[e].from /\ srcs[i].e[e].to = srcs[j].e[e].to

\* The ids to give out are unused, and edges join nodes that had an id.
IdsFresh(srcs, nodes, edges) ==
    \A i \in DOMAIN srcs :
        /\ \A n \in NodeIds : n >= nodes => srcs[i].n[n] = Absent
        /\ \A e \in EdgeIds : e >= edges => srcs[i].e[e] = Absent
        /\ \A e \in EdgeIds : IsLive(srcs[i].e[e]) =>
               srcs[i].e[e].from \in 1..(nodes - 1) /\ srcs[i].e[e].to \in 1..(nodes - 1)

\* Before a node took a key that another node's record still claims, that other node got a
\* newer version.
KeysPassedOn(srcs) ==
    \A i, j \in DOMAIN srcs : j <= i => \A n, m \in NodeIds : n # m => \A l, k :
        Holds(srcs[j].n[n], l, k) /\ Holds(srcs[i].n[m], l, k) =>
            \E h \in j..(i - 1) : srcs[h].n[m] # Absent

\* The same for the edges of a triple.
TriplesPassedOn(srcs) ==
    \A i, j \in DOMAIN srcs : j <= i => \A d, e \in EdgeIds : d # e => \A f, t :
        Joins(srcs[j].e[d], f, t) /\ Joins(srcs[i].e[e], f, t) =>
            \E h \in j..(i - 1) : srcs[h].e[e] # Absent

Good(srcs, nodes, edges) ==
    /\ Len(srcs) \in Nat /\ DOMAIN srcs = 1..Len(srcs)
    /\ \A i \in DOMAIN srcs : SourceOk(srcs[i])
    /\ DeadFinal(srcs) /\ EndsFixed(srcs) /\ IdsFresh(srcs, nodes, edges)
    /\ KeysPassedOn(srcs) /\ (unique => TriplesPassedOn(srcs))

\* Where two records claim a key, or a triple.
LEMMA KeyPassed ==
    ASSUME NEW S, KeysPassedOn(S), NEW i \in DOMAIN S, NEW j \in DOMAIN S, j <= i, NEW n \in NodeIds, NEW m \in NodeIds,
           n # m, NEW l, NEW k, Holds(S[j].n[n], l, k), Holds(S[i].n[m], l, k)
    PROVE  \E h \in j..(i - 1) : S[h].n[m] # Absent
    BY DEF KeysPassedOn

LEMMA TriplePassed ==
    ASSUME NEW S, TriplesPassedOn(S), NEW i \in DOMAIN S, NEW j \in DOMAIN S, j <= i, NEW d \in EdgeIds, NEW e \in EdgeIds,
           d # e, NEW f, NEW t, Joins(S[j].e[d], f, t), Joins(S[i].e[e], f, t)
    PROVE  \E h \in j..(i - 1) : S[h].e[e] # Absent
    BY DEF TriplesPassedOn

-----------------------------------------------------------------------------
(* Least and greatest numbers, induction *)

\* A nonempty set of naturals has a least member.
LEMMA LeastNatural ==
    ASSUME NEW S \in SUBSET Nat, S # {}
    PROVE  \E m \in S : \A k \in S : m <= k
    <1> DEFINE R == OpToRel(<, Nat)
    <1>1. IsWellFoundedOn(R, Nat)
        BY NatLessThanWellFounded
    <1>2. PICK m \in S : \A k \in S : <<k, m>> \notin R
        <2> HIDE DEF R
        <2>1. QED
            BY <1>1, WFMin
    <1>3. \A k \in S : ~(k < m)
        BY <1>2 DEF OpToRel
    <1>4. QED
        BY <1>3

\* Induction over the naturals, for a set.
LEMMA Induction ==
    ASSUME NEW S \in SUBSET Nat, 0 \in S, \A n \in S : n + 1 \in S
    PROVE  S = Nat
    <1> SUFFICES ASSUME Nat \ S # {} PROVE FALSE
        OBVIOUS
    <1>1. PICK m \in Nat \ S : \A k \in Nat \ S : m <= k
        BY LeastNatural
    <1>2. m - 1 \in S
        BY <1>1
    <1>3. QED
        BY <1>1, <1>2

\* Min is the least member.
LEMMA MinIs ==
    ASSUME NEW S \in SUBSET Nat, S # {}
    PROVE  Min(S) \in S /\ \A y \in S : Min(S) <= y
    <1>1. \E m \in S : \A k \in S : m <= k
        BY LeastNatural
    <1>2. QED
        BY <1>1 DEF Min

\* Max is the greatest member of a bounded set.
LEMMA MaxIs ==
    ASSUME NEW b \in Nat, NEW S \in SUBSET (1..b), S # {}
    PROVE  Max(S) \in S /\ \A y \in S : y <= Max(S)
    <1> DEFINE U == {x \in Nat : \A y \in S : y <= x}
    <1>1. PICK m \in U : \A x \in U : m <= x
        <2>1. b \in U
            OBVIOUS
        <2>2. QED
            BY <2>1, LeastNatural
    <1>2. m \in S
        <2> SUFFICES ASSUME m \notin S PROVE FALSE
            OBVIOUS
        <2>1. \A y \in S : y <= m /\ y # m
            BY <1>1
        <2>2. m # 0
            <3>1. PICK y \in S : TRUE
                OBVIOUS
            <3>2. y \in Nat \ {0} /\ y <= m
                BY <2>1, <3>1
            <3>3. QED
                BY <3>2
        <2>3. m - 1 \in U
            BY <2>1, <2>2
        <2>4. QED
            BY <1>1, <2>3
    <1>3. QED
        BY <1>1, <1>2 DEF Max

-----------------------------------------------------------------------------
(* The newest version *)

\* Source i decides about the id.
Decides(srcs, on, id, i) ==
    /\ i \in DOMAIN srcs /\ srcs[i][on][id] # Absent
    /\ \A j \in DOMAIN srcs : j < i => srcs[j][on][id] = Absent

\* The source that decides gives the opinion.
LEMMA OpinionOf ==
    ASSUME NEW srcs, DOMAIN srcs \subseteq Nat, NEW on, NEW id, NEW i, Decides(srcs, on, id, i)
    PROVE  Opinion(srcs, on, id) = srcs[i][on][id]
    <1> DEFINE held == {h \in DOMAIN srcs : srcs[h][on][id] # Absent}
    <1>1. i \in held /\ held \subseteq Nat
        BY DEF Decides
    <1>2. Min(held) \in held /\ Min(held) <= i
        BY <1>1, MinIs
    <1>3. Min(held) = i
        BY <1>1, <1>2 DEF Decides
    <1>4. QED
        BY <1>1, <1>3 DEF Opinion

\* Either a source decides or there is no opinion.
LEMMA SomeoneDecides ==
    ASSUME NEW srcs, DOMAIN srcs \subseteq Nat, NEW on, NEW id
    PROVE  \/ \E i \in DOMAIN srcs : Decides(srcs, on, id, i)
           \/ /\ \A i \in DOMAIN srcs : srcs[i][on][id] = Absent
              /\ Opinion(srcs, on, id) = Absent
    <1> DEFINE held == {h \in DOMAIN srcs : srcs[h][on][id] # Absent}
    <1>1. CASE held = {}
        BY <1>1 DEF Opinion
    <1>2. CASE held # {}
        <2>1. PICK i \in held : \A j \in held : i <= j
            BY <1>2, LeastNatural
        <2>2. Decides(srcs, on, id, i)
            BY <2>1 DEF Decides
        <2>3. QED
            BY <2>2
    <1>3. QED
        BY <1>1, <1>2

\* At most one source decides.
LEMMA OneDecides ==
    ASSUME NEW srcs, DOMAIN srcs \subseteq Nat, NEW on, NEW id,
           NEW i, Decides(srcs, on, id, i), NEW j, Decides(srcs, on, id, j)
    PROVE  i = j
    BY DEF Decides

\* The opinion of a list of sources is a slot of a source that decides.
LEMMA OpinionOk ==
    ASSUME NEW srcs, NEW nodes, NEW edges, Good(srcs, nodes, edges)
    PROVE  /\ \A n \in NodeIds : SlotOk(Opinion(srcs, "n", n))
           /\ \A e \in EdgeIds : SlotOk(Opinion(srcs, "e", e))
    <1>1. DOMAIN srcs \subseteq Nat
        BY DEF Good
    <1>2. ASSUME NEW n \in NodeIds PROVE SlotOk(Opinion(srcs, "n", n))
        <2>1. CASE \E i \in DOMAIN srcs : Decides(srcs, "n", n, i)
            <3>1. PICK i \in DOMAIN srcs : Decides(srcs, "n", n, i)
                BY <2>1
            <3>2. Opinion(srcs, "n", n) = srcs[i].n[n]
                BY <1>1, <3>1, OpinionOf
            <3>3. QED
                BY <3>2 DEF Good, SourceOk
        <2>2. CASE Opinion(srcs, "n", n) = Absent
            BY <2>2 DEF SlotOk
        <2>3. QED
            BY <1>1, <2>1, <2>2, SomeoneDecides
    <1>3. ASSUME NEW e \in EdgeIds PROVE SlotOk(Opinion(srcs, "e", e))
        <2>1. CASE \E i \in DOMAIN srcs : Decides(srcs, "e", e, i)
            <3>1. PICK i \in DOMAIN srcs : Decides(srcs, "e", e, i)
                BY <2>1
            <3>2. Opinion(srcs, "e", e) = srcs[i].e[e]
                BY <1>1, <3>1, OpinionOf
            <3>3. QED
                BY <3>2 DEF Good, SourceOk
        <2>2. CASE Opinion(srcs, "e", e) = Absent
            BY <2>2 DEF SlotOk
        <2>3. QED
            BY <1>1, <2>1, <2>2, SomeoneDecides
    <1>4. QED
        BY <1>2, <1>3

\* The newest version of a live id.
LEMMA LiveDecided ==
    ASSUME NEW srcs, DOMAIN srcs \subseteq Nat, NEW on, NEW id, IsLive(Opinion(srcs, on, id))
    PROVE  \E i \in DOMAIN srcs : Decides(srcs, on, id, i) /\ Opinion(srcs, on, id) = srcs[i][on][id]
    <1>1. Opinion(srcs, on, id) # Absent
        BY DEF IsLive, Absent
    <1>2. PICK i \in DOMAIN srcs : Decides(srcs, on, id, i)
        BY <1>1, SomeoneDecides
    <1>3. QED
        BY <1>2, OpinionOf

-----------------------------------------------------------------------------
(* Lookups *)

\* The first source that knows an owner of a key names the one node that has the key now.
LEMMA KeyLookupExact ==
    ASSUME NEW srcs, NEW nodes, NEW edges, Good(srcs, nodes, edges), NEW l, NEW k, MaxNode \in Nat
    PROVE  KeyLookup(srcs, l, k) = {n \in NodeIds : Holds(Opinion(srcs, "n", n), l, k)}
    <1> DEFINE owners(i) == {n \in NodeIds : Holds(srcs[i].n[n], l, k)}
               held == {i \in DOMAIN srcs : owners(i) # {}}
               c == Max(owners(Min(held)))
               now == {n \in NodeIds : Holds(Opinion(srcs, "n", n), l, k)}
    <1>1. DOMAIN srcs \subseteq Nat
        BY DEF Good
    <1>2. KeyLookup(srcs, l, k) = IF held # {} /\ Holds(Opinion(srcs, "n", c), l, k) THEN {c} ELSE {}
        BY DEF KeyLookup, Holds
    <1>3. ASSUME held # {}
          PROVE  Min(held) \in held /\ (\A i \in held : Min(held) <= i) /\ c \in owners(Min(held))
        <2>1. Min(held) \in held /\ \A i \in held : Min(held) <= i
            BY <1>1, <1>3, MinIs
        <2>2. owners(Min(held)) \in SUBSET (1..MaxNode) /\ owners(Min(held)) # {}
            BY <2>1 DEF NodeIds
        <2> HIDE DEF owners, held
        <2>3. QED
            BY <2>1, <2>2, MaxIs
    <1>4. ASSUME NEW n \in now PROVE held # {} /\ c = n
        <2>1. PICK j \in DOMAIN srcs : Decides(srcs, "n", n, j) /\ Opinion(srcs, "n", n) = srcs[j].n[n]
            BY <1>1, LiveDecided DEF Holds
        <2>2. j \in held
            BY <2>1
        <2>3. Min(held) \in DOMAIN srcs /\ Min(held) <= j /\ Holds(srcs[Min(held)].n[c], l, k) /\ c \in NodeIds
            BY <1>3, <2>2
        <2>4. Holds(srcs[j].n[n], l, k)
            BY <2>1
        <2> HIDE DEF c, held, now
        <2>5. ASSUME c # n PROVE FALSE
            <3>1. n \in NodeIds
                BY DEF now
            <3>2. PICK h \in Min(held)..(j - 1) : srcs[h].n[n] # Absent
                BY <2>3, <2>4, <2>5, <3>1 DEF Good, KeysPassedOn
            <3>3. h \in DOMAIN srcs /\ h < j
                BY <2>1, <2>3, <3>2 DEF Good
            <3>4. QED
                BY <2>1, <3>2, <3>3 DEF Decides
        <2>6. QED
            BY <2>2, <2>5
    <1>5. CASE now = {}
        <2>1. ASSUME held # {} PROVE ~Holds(Opinion(srcs, "n", c), l, k)
            BY <1>3, <1>5, <2>1
        <2> HIDE DEF c, held, now
        <2>2. QED
            BY <1>2, <1>5, <2>1 DEF now
    <1>6. CASE now # {}
        <2>1. PICK n \in now : TRUE
            BY <1>6
        <2>2. held # {} /\ c = n /\ Holds(Opinion(srcs, "n", n), l, k)
            BY <1>4, <2>1
        <2>3. now = {c}
            BY <1>4, <2>1
        <2> HIDE DEF c, held, now
        <2>4. QED
            BY <1>2, <2>2, <2>3 DEF now
    <1>7. QED
        BY <1>5, <1>6

\* With edge_uniqueness, the first source that knows a triple names the one edge that has it.
LEMMA TripleLookupExact ==
    ASSUME NEW srcs, NEW nodes, NEW edges, Good(srcs, nodes, edges), unique, NEW f, NEW t, MaxEdge \in Nat
    PROVE  TripleLookup(srcs, f, t) = {e \in EdgeIds : Joins(Opinion(srcs, "e", e), f, t)}
    <1> DEFINE matches(i) == {e \in EdgeIds : Joins(srcs[i].e[e], f, t)}
               held == {i \in DOMAIN srcs : matches(i) # {}}
               c == Max(matches(Min(held)))
               now == {e \in EdgeIds : Joins(Opinion(srcs, "e", e), f, t)}
    <1>1. DOMAIN srcs \subseteq Nat
        BY DEF Good
    <1>2. TripleLookup(srcs, f, t) =
              IF held # {} /\ ~\E i \in 1..(Min(held) - 1) : IsDead(srcs[i].e[c]) THEN {c} ELSE {}
        BY DEF TripleLookup, Joins
    <1>3. ASSUME held # {}
          PROVE  Min(held) \in held /\ (\A i \in held : Min(held) <= i) /\ c \in matches(Min(held))
        <2>1. Min(held) \in held /\ \A i \in held : Min(held) <= i
            BY <1>1, <1>3, MinIs
        <2>2. matches(Min(held)) \in SUBSET (1..MaxEdge) /\ matches(Min(held)) # {}
            BY <2>1 DEF EdgeIds
        <2> HIDE DEF matches, held
        <2>3. QED
            BY <2>1, <2>2, MaxIs
    <1>4. ASSUME NEW e \in now PROVE held # {} /\ c = e /\ ~\E i \in 1..(Min(held) - 1) : IsDead(srcs[i].e[c])
        <2>1. PICK j \in DOMAIN srcs : Decides(srcs, "e", e, j) /\ Opinion(srcs, "e", e) = srcs[j].e[e]
            BY <1>1, LiveDecided DEF Joins
        <2>2. j \in held
            BY <2>1
        <2>3. Min(held) \in DOMAIN srcs /\ Min(held) <= j /\ Joins(srcs[Min(held)].e[c], f, t) /\ c \in EdgeIds
            BY <1>3, <2>2
        <2>4. Joins(srcs[j].e[e], f, t) /\ e \in EdgeIds
            BY <2>1
        <2> HIDE DEF c, held, now
        <2>5. ASSUME c # e PROVE FALSE
            <3>2. PICK h \in Min(held)..(j - 1) : srcs[h].e[e] # Absent
                BY <2>3, <2>4, <2>5 DEF Good, TriplesPassedOn
            <3>3. h \in DOMAIN srcs /\ h < j
                BY <2>1, <2>3, <3>2 DEF Good
            <3>4. QED
                BY <2>1, <3>2, <3>3 DEF Decides
        <2>6. \A i \in 1..(Min(held) - 1) : i \in DOMAIN srcs /\ i < j
            BY <1>1, <2>1, <2>3 DEF Good
        <2>7. \A i \in 1..(Min(held) - 1) : srcs[i].e[e] = Absent
            BY <2>1, <2>6 DEF Decides
        <2>8. ~IsDead(Absent)
            BY DEF IsDead, Absent
        <2>9. QED
            BY <2>2, <2>5, <2>7, <2>8
    <1>5. CASE now = {}
        <2>1. ASSUME held # {} PROVE \E i \in 1..(Min(held) - 1) : IsDead(srcs[i].e[c])
            <3>1. Min(held) \in DOMAIN srcs /\ c \in EdgeIds /\ Joins(srcs[Min(held)].e[c], f, t)
                BY <1>3, <2>1
            <3> HIDE DEF c, held, now
            <3>2. srcs[Min(held)].e[c] # Absent
                BY <3>1 DEF Joins, IsLive, Absent
            <3>3. PICK j \in DOMAIN srcs : Decides(srcs, "e", c, j)
                BY <1>1, <3>1, <3>2, SomeoneDecides
            <3>4. Opinion(srcs, "e", c) = srcs[j].e[c]
                BY <1>1, <3>3, OpinionOf
            <3>5. ~Joins(srcs[j].e[c], f, t)
                BY <1>5, <3>1, <3>4 DEF now
            <3>6. ~IsLive(srcs[j].e[c])
                BY <3>1, <3>3, <3>5 DEF Good, EndsFixed, Joins
            <3>7. IsDead(srcs[j].e[c])
                BY <3>1, <3>3, <3>6 DEF Good, SourceOk, SlotOk, Decides
            <3>8. j <= Min(held)
                BY <1>1, <3>1, <3>2, <3>3 DEF Decides
            <3>9. j # Min(held)
                BY <3>1, <3>6 DEF Joins
            <3>10. j \in 1..(Min(held) - 1)
                BY <3>1, <3>3, <3>8, <3>9 DEF Good
            <3>11. QED
                BY <3>7, <3>10
        <2> HIDE DEF c, held, now
        <2>2. QED
            BY <1>2, <1>5, <2>1 DEF now
    <1>6. CASE now # {}
        <2>1. PICK e \in now : TRUE
            BY <1>6
        <2>2. held # {} /\ c = e /\ ~\E i \in 1..(Min(held) - 1) : IsDead(srcs[i].e[c])
            BY <1>4, <2>1
        <2>3. now = {c}
            BY <1>4, <2>1
        <2> HIDE DEF c, held, now
        <2>4. QED
            BY <1>2, <2>2, <2>3 DEF now
    <1>7. QED
        BY <1>5, <1>6

-----------------------------------------------------------------------------
(* Neighbors *)

\* A live node or edge has no tombstone anywhere.
LEMMA NoTombstone ==
    ASSUME NEW srcs, NEW nodes, NEW edges, Good(srcs, nodes, edges)
    PROVE  /\ \A n \in NodeIds : IsLive(Opinion(srcs, "n", n)) =>
                  \A i \in DOMAIN srcs : ~IsDead(srcs[i].n[n])
           /\ \A e \in EdgeIds : IsLive(Opinion(srcs, "e", e)) =>
                  \A i \in DOMAIN srcs : ~IsDead(srcs[i].e[e])
    <1>1. DOMAIN srcs \subseteq Nat /\ ~IsDead(Absent) /\ \A s : ~(IsLive(s) /\ IsDead(s))
        BY DEF Good, IsDead, IsLive, Absent
    <1>2. ASSUME NEW n \in NodeIds, IsLive(Opinion(srcs, "n", n)), NEW i \in DOMAIN srcs
          PROVE  ~IsDead(srcs[i].n[n])
        <2>1. PICK j \in DOMAIN srcs : Decides(srcs, "n", n, j) /\ Opinion(srcs, "n", n) = srcs[j].n[n]
            BY <1>1, <1>2, LiveDecided
        <2>2. CASE i < j
            BY <1>1, <2>1, <2>2 DEF Decides
        <2>3. CASE j < i
            BY <1>2, <2>1, <2>3 DEF Good, DeadFinal
        <2>4. CASE i = j
            BY <1>1, <1>2, <2>1, <2>4
        <2>5. QED
            BY <1>1, <2>2, <2>3, <2>4
    <1>3. ASSUME NEW e \in EdgeIds, IsLive(Opinion(srcs, "e", e)), NEW i \in DOMAIN srcs
          PROVE  ~IsDead(srcs[i].e[e])
        <2>1. PICK j \in DOMAIN srcs : Decides(srcs, "e", e, j) /\ Opinion(srcs, "e", e) = srcs[j].e[e]
            BY <1>1, <1>3, LiveDecided
        <2>2. CASE i < j
            BY <1>1, <2>1, <2>2 DEF Decides
        <2>3. CASE j < i
            BY <1>3, <2>1, <2>3 DEF Good, DeadFinal
        <2>4. CASE i = j
            BY <1>1, <1>3, <2>1, <2>4
        <2>5. QED
            BY <1>1, <2>2, <2>3, <2>4
    <1>4. QED
        BY <1>2, <1>3

\* The edge joins n to a live node, in its newest version.
ToLive(srcs, e, n) ==
    /\ Touches(Opinion(srcs, "e", e), n)
    /\ IsLive(Opinion(srcs, "n", OtherEnd(Opinion(srcs, "e", e), n)))

\* An edge's ends are nodes.
LEMMA EndsAreNodes ==
    ASSUME NEW srcs, NEW nodes \in Nat, NEW edges, Good(srcs, nodes, edges), nodes <= MaxNode + 1, MaxNode \in Nat,
           NEW i \in DOMAIN srcs, NEW e \in EdgeIds, IsLive(srcs[i].e[e])
    PROVE  srcs[i].e[e].from \in NodeIds /\ srcs[i].e[e].to \in NodeIds
    BY DEF Good, IdsFresh, NodeIds

\* The tombstones of a list of sources.
LEMMA TombstonesAre ==
    ASSUME NEW srcs, NEW nodes, NEW edges, Good(srcs, nodes, edges), 1 \in DOMAIN srcs
    PROVE  /\ Tombstones(srcs, "n") = {n \in NodeIds : \E i \in DOMAIN srcs : IsDead(srcs[i].n[n])}
           /\ Tombstones(srcs, "e") = {e \in EdgeIds : \E i \in DOMAIN srcs : IsDead(srcs[i].e[e])}
    BY DEF Good, SourceOk, Tombstones

\* A source that holds a version of the edge returns it, between live nodes.
LEMMA ListedWhereHeld ==
    ASSUME NEW srcs, NEW nodes \in Nat, NEW edges, Good(srcs, nodes, edges), nodes <= MaxNode + 1, MaxNode \in Nat,
           NEW n \in NodeIds, IsLive(Opinion(srcs, "n", n)), NEW e \in EdgeIds, ToLive(srcs, e, n),
           NEW i \in DOMAIN srcs, NEW memtable
    PROVE  /\ IsLive(srcs[i].e[e]) => e \in SourceNeighbors(srcs[i], memtable, n)
           /\ IsLive(srcs[i].e[e]) => OtherEnd(srcs[i].e[e], n) = OtherEnd(Opinion(srcs, "e", e), n)
           /\ OtherEnd(Opinion(srcs, "e", e), n) \in NodeIds
    <1>1. DOMAIN srcs \subseteq Nat /\ IsLive(Opinion(srcs, "e", e))
        BY DEF Good, ToLive, Touches
    <1>2. PICK j \in DOMAIN srcs : Decides(srcs, "e", e, j) /\ Opinion(srcs, "e", e) = srcs[j].e[e]
        BY <1>1, LiveDecided
    <1> DEFINE other == OtherEnd(Opinion(srcs, "e", e), n)
    <1>3. other \in NodeIds
        BY <1>1, <1>2, EndsAreNodes DEF OtherEnd
    <1>4. ~IsDead(srcs[i].n[other]) /\ ~IsDead(srcs[i].n[n])
        BY <1>3, NoTombstone DEF ToLive
    <1>5. ASSUME IsLive(srcs[i].e[e])
          PROVE  srcs[i].e[e].from = srcs[j].e[e].from /\ srcs[i].e[e].to = srcs[j].e[e].to
        BY <1>1, <1>2, <1>5 DEF Good, EndsFixed
    <1>6. ASSUME IsLive(srcs[i].e[e])
          PROVE  OtherEnd(srcs[i].e[e], n) = other /\ Touches(srcs[i].e[e], n)
        BY <1>2, <1>5, <1>6 DEF OtherEnd, ToLive, Touches
    <1>7. QED
        BY <1>3, <1>4, <1>6 DEF SourceNeighbors

\* An edge that neighbors_raw returns is live.
LEMMA NeighborsLive ==
    ASSUME NEW srcs, NEW nodes, NEW edges, Good(srcs, nodes, edges), 1 \in DOMAIN srcs,
           NEW memtables, NEW n, NEW e \in NeighborsRaw(srcs, memtables, n)
    PROVE  e \in EdgeIds /\ IsLive(Opinion(srcs, "e", e))
    <1> DEFINE lists == [i \in DOMAIN srcs |-> SourceNeighbors(srcs[i], i <= memtables, n)]
               at == {j \in DOMAIN lists : e \in lists[j]}
               i == Min(at)
    <1>1. DOMAIN srcs \subseteq Nat /\ DOMAIN lists = DOMAIN srcs
        BY DEF Good
    <1>2. /\ e \in UNION {lists[j] : j \in DOMAIN lists}
          /\ i = 1 \/ e \notin Tombstones(srcs, "e")
        BY DEF NeighborsRaw
    <1>3. at # {} /\ at \subseteq Nat
        BY <1>1, <1>2
    <1>4. i \in at
        <2> HIDE DEF at
        <2>1. QED
            BY <1>3, MinIs
    <1>5. i \in DOMAIN srcs /\ e \in EdgeIds /\ IsLive(srcs[i].e[e])
        BY <1>4 DEF SourceNeighbors, Touches
    <1> HIDE DEF i, at, lists
    <1>6. srcs[i].e[e] # Absent
        BY <1>5 DEF IsLive, Absent
    <1>7. PICK j \in DOMAIN srcs : Decides(srcs, "e", e, j)
        BY <1>1, <1>5, <1>6, SomeoneDecides
    <1>8. Opinion(srcs, "e", e) = srcs[j].e[e]
        BY <1>1, <1>7, OpinionOf
    <1>9. j <= i /\ j >= 1
        BY <1>1, <1>5, <1>6, <1>7 DEF Decides, Good
    <1>10. CASE i = 1
        BY <1>1, <1>5, <1>7, <1>8, <1>9, <1>10
    <1>11. CASE e \notin Tombstones(srcs, "e")
        <2>1. ~IsDead(srcs[j].e[e])
            BY <1>5, <1>11, TombstonesAre
        <2>2. SlotOk(srcs[j].e[e])
            BY <1>5 DEF Good, SourceOk
        <2>3. QED
            BY <1>5, <1>7, <1>8, <2>1, <2>2 DEF SlotOk, Decides
    <1>12. QED
        BY <1>2, <1>10, <1>11

\* Between live nodes, neighbors_raw returns the valid edges.
LEMMA NeighborsRawExact ==
    ASSUME NEW srcs, NEW nodes \in Nat, NEW edges, Good(srcs, nodes, edges), nodes <= MaxNode + 1, MaxNode \in Nat,
           1 \in DOMAIN srcs, NEW memtables \in Nat, NEW n \in NodeIds, IsLive(Opinion(srcs, "n", n)),
           NEW e \in EdgeIds, ToLive(srcs, e, n)
    PROVE  e \in NeighborsRaw(srcs, memtables, n) <=> Opinion(srcs, "e", e).valid
    <1> DEFINE lists == [i \in DOMAIN srcs |-> SourceNeighbors(srcs[i], i <= memtables, n)]
               at == {j \in DOMAIN lists : e \in lists[j]}
               i == Min(at)
    <1>1. DOMAIN srcs \subseteq Nat /\ DOMAIN lists = DOMAIN srcs /\ IsLive(Opinion(srcs, "e", e))
        BY DEF Good, ToLive, Touches
    <1>2. PICK j \in DOMAIN srcs : Decides(srcs, "e", e, j) /\ Opinion(srcs, "e", e) = srcs[j].e[e]
        BY <1>1, LiveDecided
    <1>3. j \in at
        <2>1. e \in SourceNeighbors(srcs[j], j <= memtables, n)
            BY <1>1, <1>2, ListedWhereHeld
        <2>2. QED
            BY <1>1, <2>1
    <1>4. i \in at /\ i <= j
        <2>1. at \subseteq Nat
            BY <1>1
        <2> HIDE DEF at
        <2>2. QED
            BY <1>3, <2>1, MinIs
    <1>5. IsLive(srcs[i].e[e]) /\ i \in DOMAIN srcs
        BY <1>4 DEF SourceNeighbors, Touches
    <1>6. i = j
        <2> HIDE DEF i
        <2>1. srcs[i].e[e] # Absent
            BY <1>5 DEF IsLive, Absent
        <2>2. QED
            BY <1>1, <1>2, <1>4, <1>5, <2>1 DEF Decides
    <1>7. e \notin Tombstones(srcs, "e")
        BY <1>1, NoTombstone, TombstonesAre
    <1>8. OtherEnd(srcs[j].e[e], n) \notin Tombstones(srcs, "n")
        <2>1. OtherEnd(srcs[j].e[e], n) = OtherEnd(Opinion(srcs, "e", e), n)
            BY <1>2
        <2>2. QED
            BY <2>1, ListedWhereHeld, NoTombstone, TombstonesAre DEF ToLive
    <1>9. e \in UNION {lists[h] : h \in DOMAIN lists}
        BY <1>3
    <1>10. e \in NeighborsRaw(srcs, memtables, n) <=>
             /\ e \in UNION {lists[h] : h \in DOMAIN lists}
             /\ i = 1 \/ (e \notin Tombstones(srcs, "e") /\ OtherEnd(srcs[i].e[e], n) \notin Tombstones(srcs, "n"))
             /\ srcs[i].e[e].valid
        BY DEF NeighborsRaw
    <1> HIDE DEF i, lists
    <1>11. QED
        BY <1>2, <1>6, <1>7, <1>8, <1>9, <1>10

-----------------------------------------------------------------------------
(* One operation *)

\* The sequence number does not change what a slot says.
LEMMA StampedDead ==
    ASSUME NEW s PROVE IsDead(Stamped(Dead, s))
    BY DEF Stamped, Dead, IsDead

LEMMA StampedNode ==
    ASSUME NEW s, NEW labels, NEW key, NEW low
    PROVE  LET slot == Stamped(NodeRecord(labels, key, low), s)
           IN  IsLive(slot) /\ slot.labels = labels /\ slot.key = key /\ slot.low = low
    BY DEF Stamped, NodeRecord, IsLive

LEMMA StampedEdge ==
    ASSUME NEW s, NEW from, NEW to, NEW valid
    PROVE  LET slot == Stamped(EdgeRecord(from, to, valid), s)
           IN  IsLive(slot) /\ slot.from = from /\ slot.to = to /\ slot.valid = valid
    BY DEF Stamped, EdgeRecord, IsLive

\* What an operation does to the first source: the slot of the node.
LEMMA ApplyNodeOp ==
    ASSUME NEW src, SourceOk(src), NEW id \in NodeIds, NEW slot, NEW s
    PROVE  /\ ApplyOp(src, Op("n", id, slot), s).n = [src.n EXCEPT ![id] = Stamped(slot, s)]
           /\ ApplyOp(src, Op("n", id, slot), s).e = src.e
           /\ DOMAIN ApplyOp(src, Op("n", id, slot), s) = DOMAIN src
    BY DEF ApplyOp, Op, SourceOk, Stamped

\* The same for an edge.
LEMMA ApplyEdgeOp ==
    ASSUME NEW src, SourceOk(src), NEW id \in EdgeIds, NEW slot, NEW s
    PROVE  /\ ApplyOp(src, Op("e", id, slot), s).e = [src.e EXCEPT ![id] = Stamped(slot, s)]
           /\ ApplyOp(src, Op("e", id, slot), s).n = src.n
           /\ DOMAIN ApplyOp(src, Op("e", id, slot), s) = DOMAIN src
    BY DEF ApplyOp, Op, SourceOk, Stamped

\* A list of sources.
Slotted(srcs) == Len(srcs) \in Nat /\ DOMAIN srcs = 1..Len(srcs) /\ \A i \in DOMAIN srcs : SourceOk(srcs[i])

\* So are sources that satisfy the invariant.
LEMMA GoodSlotted ==
    ASSUME NEW srcs, NEW nodes, NEW edges, Good(srcs, nodes, edges) PROVE Slotted(srcs)
    BY DEF Good, Slotted

\* T is S with one operation applied to its first source.
Applies(S, T, op, s) ==
    /\ 1 \in DOMAIN S /\ DOMAIN T = DOMAIN S /\ Len(T) = Len(S)
    /\ \A i \in DOMAIN S : i # 1 => T[i] = S[i]
    /\ T[1] = ApplyOp(S[1], op, s)

\* In T the first source has another slot for one node.
NodeWritten(S, T, id, slot) ==
    /\ T[1].n[id] = slot
    /\ \A i \in DOMAIN S : \A x \in NodeIds : i # 1 \/ x # id => T[i].n[x] = S[i].n[x]
    /\ \A i \in DOMAIN S : T[i].e = S[i].e
    /\ \A i \in DOMAIN S : DOMAIN T[i] = {"n", "e", "d"} /\ DOMAIN T[i].n = NodeIds

\* What an operation on a node makes of the slots.
LEMMA NodeSlots ==
    ASSUME NEW S, NEW T, Slotted(S), NEW id \in NodeIds, NEW slot, NEW s,
           Applies(S, T, Op("n", id, slot), s)
    PROVE  NodeWritten(S, T, id, Stamped(slot, s))
    <1>1. SourceOk(S[1]) /\ 1 \in DOMAIN S
        BY DEF Slotted, Applies
    <1>2. /\ T[1].n = [S[1].n EXCEPT ![id] = Stamped(slot, s)]
          /\ T[1].e = S[1].e
          /\ DOMAIN T[1] = DOMAIN S[1]
        BY <1>1, ApplyNodeOp DEF Applies
    <1>3. \A i \in DOMAIN S : i # 1 => T[i] = S[i]
        BY DEF Applies
    <1>4. \A i \in DOMAIN S : DOMAIN S[i] = {"n", "e", "d"} /\ DOMAIN S[i].n = NodeIds
        BY DEF Slotted, SourceOk
    <1>5. T[1].n[id] = Stamped(slot, s)
        BY <1>1, <1>2, <1>4
    <1>6. ASSUME NEW i \in DOMAIN S, NEW x \in NodeIds, i # 1 \/ x # id PROVE T[i].n[x] = S[i].n[x]
        BY <1>2, <1>3, <1>4, <1>6
    <1>7. ASSUME NEW i \in DOMAIN S
          PROVE  T[i].e = S[i].e /\ DOMAIN T[i] = {"n", "e", "d"} /\ DOMAIN T[i].n = NodeIds
        <2>1. CASE i = 1
            BY <1>1, <1>2, <1>4, <2>1
        <2>2. CASE i # 1
            BY <1>3, <1>4, <2>2
        <2>3. QED
            BY <2>1, <2>2
    <1>8. QED
        BY <1>5, <1>6, <1>7 DEF NodeWritten

\* The same for sources that satisfy the invariant.
LEMMA NodeOpSlots ==
    ASSUME NEW S, NEW T, NEW nodes, NEW edges, Good(S, nodes, edges), NEW id \in NodeIds, NEW slot, NEW s,
           Applies(S, T, Op("n", id, slot), s)
    PROVE  NodeWritten(S, T, id, Stamped(slot, s))
    BY GoodSlotted, NodeSlots

\* In T the first source has another slot for one edge.
EdgeWritten(S, T, id, slot) ==
    /\ T[1].e[id] = slot
    /\ \A i \in DOMAIN S : \A x \in EdgeIds : i # 1 \/ x # id => T[i].e[x] = S[i].e[x]
    /\ \A i \in DOMAIN S : T[i].n = S[i].n
    /\ \A i \in DOMAIN S : DOMAIN T[i] = {"n", "e", "d"} /\ DOMAIN T[i].e = EdgeIds

\* What an operation on an edge makes of the slots.
LEMMA EdgeSlots ==
    ASSUME NEW S, NEW T, Slotted(S), NEW id \in EdgeIds, NEW slot, NEW s,
           Applies(S, T, Op("e", id, slot), s)
    PROVE  EdgeWritten(S, T, id, Stamped(slot, s))
    <1>1. SourceOk(S[1]) /\ 1 \in DOMAIN S
        BY DEF Slotted, Applies
    <1>2. /\ T[1].e = [S[1].e EXCEPT ![id] = Stamped(slot, s)]
          /\ T[1].n = S[1].n
          /\ DOMAIN T[1] = DOMAIN S[1]
        BY <1>1, ApplyEdgeOp DEF Applies
    <1>3. \A i \in DOMAIN S : i # 1 => T[i] = S[i]
        BY DEF Applies
    <1>4. \A i \in DOMAIN S : DOMAIN S[i] = {"n", "e", "d"} /\ DOMAIN S[i].e = EdgeIds
        BY DEF Slotted, SourceOk
    <1>5. T[1].e[id] = Stamped(slot, s)
        BY <1>1, <1>2, <1>4
    <1>6. ASSUME NEW i \in DOMAIN S, NEW x \in EdgeIds, i # 1 \/ x # id PROVE T[i].e[x] = S[i].e[x]
        BY <1>2, <1>3, <1>4, <1>6
    <1>7. ASSUME NEW i \in DOMAIN S
          PROVE  T[i].n = S[i].n /\ DOMAIN T[i] = {"n", "e", "d"} /\ DOMAIN T[i].e = EdgeIds
        <2>1. CASE i = 1
            BY <1>1, <1>2, <1>4, <2>1
        <2>2. CASE i # 1
            BY <1>3, <1>4, <2>2
        <2>3. QED
            BY <2>1, <2>2
    <1>8. QED
        BY <1>5, <1>6, <1>7 DEF EdgeWritten

\* The same for sources that satisfy the invariant.
LEMMA EdgeOpSlots ==
    ASSUME NEW S, NEW T, NEW nodes, NEW edges, Good(S, nodes, edges), NEW id \in EdgeIds, NEW slot, NEW s,
           Applies(S, T, Op("e", id, slot), s)
    PROVE  EdgeWritten(S, T, id, Stamped(slot, s))
    BY GoodSlotted, EdgeSlots

\* Sources that hold the same versions of an id have the same opinion on it.
LEMMA SameOpinion ==
    ASSUME NEW S, NEW T, DOMAIN S \subseteq Nat, DOMAIN T = DOMAIN S, NEW on, NEW x,
           \A i \in DOMAIN S : T[i][on][x] = S[i][on][x]
    PROVE  Opinion(T, on, x) = Opinion(S, on, x)
    <1>1. CASE \E i \in DOMAIN S : Decides(S, on, x, i)
        <2>1. PICK i \in DOMAIN S : Decides(S, on, x, i)
            BY <1>1
        <2>2. Decides(T, on, x, i)
            BY <2>1 DEF Decides
        <2>3. QED
            BY <2>1, <2>2, OpinionOf
    <1>2. CASE \A i \in DOMAIN S : S[i][on][x] = Absent
        <2>1. \A i \in DOMAIN T : ~Decides(T, on, x, i)
            BY <1>2 DEF Decides
        <2>2. \A i \in DOMAIN S : ~Decides(S, on, x, i)
            BY <1>2 DEF Decides
        <2>3. Opinion(S, on, x) = Absent
            BY <2>2, SomeoneDecides
        <2>4. Opinion(T, on, x) = Absent
            BY <2>1, SomeoneDecides
        <2>5. QED
            BY <2>3, <2>4
    <1>3. QED
        BY <1>1, <1>2, SomeoneDecides

\* T says of one node what the slot says, and of the others what S says.
NodeRevised(S, T, id, slot) ==
    /\ Opinion(T, "n", id) = slot
    /\ \A x \in NodeIds : x # id => Opinion(T, "n", x) = Opinion(S, "n", x)
    /\ \A x \in EdgeIds : Opinion(T, "e", x) = Opinion(S, "e", x)

\* An operation on a node changes the opinion on it only.
LEMMA NodeOpinion ==
    ASSUME NEW S, NEW T, Slotted(S), NEW id \in NodeIds, NEW slot, NEW s,
           Applies(S, T, Op("n", id, slot), s), Stamped(slot, s) # Absent
    PROVE  NodeRevised(S, T, id, Stamped(slot, s))
    <1>1. DOMAIN S \subseteq Nat /\ 1 \in DOMAIN S /\ DOMAIN T = DOMAIN S
        BY DEF Slotted, Applies
    <1>w. NodeWritten(S, T, id, Stamped(slot, s))
        BY NodeSlots
    <1>2. Opinion(T, "n", id) = Stamped(slot, s)
        <2>1. T[1]["n"][id] = Stamped(slot, s)
            BY <1>w DEF NodeWritten
        <2>2. \A j \in DOMAIN T : ~(j < 1)
            BY <1>1 DEF Slotted
        <2>3. Decides(T, "n", id, 1)
            BY <1>1, <2>1, <2>2 DEF Decides
        <2>4. QED
            BY <1>1, <2>1, <2>3, OpinionOf
    <1>3. ASSUME NEW x \in NodeIds, x # id PROVE Opinion(T, "n", x) = Opinion(S, "n", x)
        <2>1. \A i \in DOMAIN S : T[i].n[x] = S[i].n[x]
            BY <1>3, <1>w DEF NodeWritten
        <2>2. \A i \in DOMAIN S : T[i]["n"][x] = S[i]["n"][x]
            BY <2>1
        <2>3. QED
            BY <1>1, <2>2, SameOpinion
    <1>4. ASSUME NEW x \in EdgeIds PROVE Opinion(T, "e", x) = Opinion(S, "e", x)
        <2>1. \A i \in DOMAIN S : T[i].e = S[i].e
            BY <1>w DEF NodeWritten
        <2>2. \A i \in DOMAIN S : T[i]["e"][x] = S[i]["e"][x]
            BY <2>1
        <2>3. QED
            BY <1>1, <2>2, SameOpinion
    <1>5. QED
        BY <1>2, <1>3, <1>4 DEF NodeRevised

\* The same for sources that satisfy the invariant.
LEMMA NodeOpOpinion ==
    ASSUME NEW S, NEW T, NEW nodes, NEW edges, Good(S, nodes, edges), NEW id \in NodeIds, NEW slot, NEW s,
           Applies(S, T, Op("n", id, slot), s), Stamped(slot, s) # Absent
    PROVE  NodeRevised(S, T, id, Stamped(slot, s))
    BY GoodSlotted, NodeOpinion

\* T says of one edge what the slot says, and of the others what S says.
EdgeRevised(S, T, id, slot) ==
    /\ Opinion(T, "e", id) = slot
    /\ \A x \in EdgeIds : x # id => Opinion(T, "e", x) = Opinion(S, "e", x)
    /\ \A x \in NodeIds : Opinion(T, "n", x) = Opinion(S, "n", x)

\* An operation on an edge changes the opinion on it only.
LEMMA EdgeOpinion ==
    ASSUME NEW S, NEW T, Slotted(S), NEW id \in EdgeIds, NEW slot, NEW s,
           Applies(S, T, Op("e", id, slot), s), Stamped(slot, s) # Absent
    PROVE  EdgeRevised(S, T, id, Stamped(slot, s))
    <1>1. DOMAIN S \subseteq Nat /\ 1 \in DOMAIN S /\ DOMAIN T = DOMAIN S
        BY DEF Slotted, Applies
    <1>w. EdgeWritten(S, T, id, Stamped(slot, s))
        BY EdgeSlots
    <1>2. Opinion(T, "e", id) = Stamped(slot, s)
        <2>1. T[1]["e"][id] = Stamped(slot, s)
            BY <1>w DEF EdgeWritten
        <2>2. \A j \in DOMAIN T : ~(j < 1)
            BY <1>1 DEF Slotted
        <2>3. Decides(T, "e", id, 1)
            BY <1>1, <2>1, <2>2 DEF Decides
        <2>4. QED
            BY <1>1, <2>1, <2>3, OpinionOf
    <1>3. ASSUME NEW x \in EdgeIds, x # id PROVE Opinion(T, "e", x) = Opinion(S, "e", x)
        <2>1. \A i \in DOMAIN S : T[i].e[x] = S[i].e[x]
            BY <1>3, <1>w DEF EdgeWritten
        <2>2. \A i \in DOMAIN S : T[i]["e"][x] = S[i]["e"][x]
            BY <2>1
        <2>3. QED
            BY <1>1, <2>2, SameOpinion
    <1>4. ASSUME NEW x \in NodeIds PROVE Opinion(T, "n", x) = Opinion(S, "n", x)
        <2>1. \A i \in DOMAIN S : T[i].n = S[i].n
            BY <1>w DEF EdgeWritten
        <2>2. \A i \in DOMAIN S : T[i]["n"][x] = S[i]["n"][x]
            BY <2>1
        <2>3. QED
            BY <1>1, <2>2, SameOpinion
    <1>5. QED
        BY <1>2, <1>3, <1>4 DEF EdgeRevised

\* The same for sources that satisfy the invariant.
LEMMA EdgeOpOpinion ==
    ASSUME NEW S, NEW T, NEW nodes, NEW edges, Good(S, nodes, edges), NEW id \in EdgeIds, NEW slot, NEW s,
           Applies(S, T, Op("e", id, slot), s), Stamped(slot, s) # Absent
    PROVE  EdgeRevised(S, T, id, Stamped(slot, s))
    BY GoodSlotted, EdgeOpinion

\* The part of the invariant that is about edges.
EdgesGood(srcs, nodes, edges) ==
    /\ EndsFixed(srcs) /\ (unique => TriplesPassedOn(srcs))
    /\ \A i \in DOMAIN srcs : DOMAIN srcs[i].e = EdgeIds /\ \A e \in EdgeIds : SlotOk(srcs[i].e[e])
    /\ \A i, j \in DOMAIN srcs : j < i => \A e \in EdgeIds : IsDead(srcs[i].e[e]) => ~IsLive(srcs[j].e[e])
    /\ \A i \in DOMAIN srcs : \A e \in EdgeIds :
           /\ e >= edges => srcs[i].e[e] = Absent
           /\ IsLive(srcs[i].e[e]) =>
                  srcs[i].e[e].from \in 1..(nodes - 1) /\ srcs[i].e[e].to \in 1..(nodes - 1)

\* A write to a node keeps what concerns the edges.
LEMMA NodeWriteKeepsEdges ==
    ASSUME NEW S, NEW T, NEW nodes \in Nat, NEW edges, Good(S, nodes, edges), NEW more \in Nat, nodes <= more,
           DOMAIN T = DOMAIN S, NEW id, NEW slot, NodeWritten(S, T, id, slot)
    PROVE  EdgesGood(T, more, edges)
    <1>1. \A i \in DOMAIN T : T[i].e = S[i].e
        BY DEF NodeWritten
    <1>2. EndsFixed(T)
        BY <1>1 DEF Good, EndsFixed
    <1>3. ASSUME unique PROVE TriplesPassedOn(T)
        <2>1. \A i \in DOMAIN T, j \in DOMAIN T : \A h \in j..(i - 1) : h \in DOMAIN T
            BY DEF Good
        <2>2. TriplesPassedOn(S)
            BY <1>3 DEF Good
        <2>3. ASSUME NEW i \in DOMAIN T, NEW j \in DOMAIN T, j <= i, NEW d \in EdgeIds, NEW e \in EdgeIds, d # e,
                     NEW f, NEW t, Joins(T[j].e[d], f, t), Joins(T[i].e[e], f, t)
              PROVE  \E h \in j..(i - 1) : T[h].e[e] # Absent
            <3>1. PICK h \in j..(i - 1) : S[h].e[e] # Absent
                BY <1>1, <2>2, <2>3 DEF TriplesPassedOn
            <3>2. T[h].e[e] # Absent
                BY <1>1, <2>1, <3>1
            <3>3. QED
                BY <3>2
        <2>4. QED
            BY <2>3 DEF TriplesPassedOn
    <1>4. \A i \in DOMAIN T : DOMAIN T[i].e = EdgeIds /\ \A e \in EdgeIds : SlotOk(T[i].e[e])
        BY <1>1 DEF Good, SourceOk
    <1>5. \A i, j \in DOMAIN T : j < i => \A e \in EdgeIds : IsDead(T[i].e[e]) => ~IsLive(T[j].e[e])
        BY <1>1 DEF Good, DeadFinal
    <1>6. ASSUME NEW i \in DOMAIN T, NEW e \in EdgeIds
          PROVE  /\ e >= edges => T[i].e[e] = Absent
                 /\ IsLive(T[i].e[e]) =>
                        T[i].e[e].from \in 1..(more - 1) /\ T[i].e[e].to \in 1..(more - 1)
        BY <1>1 DEF Good, IdsFresh
    <1>7. QED
        BY <1>2, <1>3, <1>4, <1>5, <1>6 DEF EdgesGood

\* A record for a node that is live or new, under keys that no other node has, keeps the
\* invariant.
LEMMA UpsertNodeGood ==
    ASSUME NEW S, NEW T, NEW nodes \in Nat, NEW edges, Good(S, nodes, edges),
           NEW id \in NodeIds, NEW labels, NEW key, NEW low, NEW s,
           Applies(S, T, Op("n", id, NodeRecord(labels, key, low)), s),
           NEW more \in Nat, nodes <= more, id < more,
           IsLive(Opinion(S, "n", id)) \/ id >= nodes,
           \A l \in labels : \A n \in NodeIds : n # id => ~Holds(Opinion(S, "n", n), l, key)
    PROVE  Good(T, more, edges)
    <1> DEFINE slot == Stamped(NodeRecord(labels, key, low), s)
    <1>0. DOMAIN S = 1..Len(S) /\ Len(S) \in Nat /\ 1 \in DOMAIN S /\ DOMAIN T = DOMAIN S /\ Len(T) = Len(S)
        BY DEF Good, Applies
    <1>1. NodeWritten(S, T, id, slot)
        BY NodeOpSlots
    <1>2. IsLive(slot) /\ slot.labels = labels /\ slot.key = key
        BY StampedNode
    <1>e. EdgesGood(T, more, edges)
        BY <1>0, <1>1, NodeWriteKeepsEdges
    <1>3. slot # Absent /\ SlotOk(slot) /\ \A x : ~(IsLive(x) /\ IsDead(x)) /\ ~IsDead(Absent) /\ ~IsLive(Absent)
        BY <1>2 DEF IsLive, IsDead, Absent, SlotOk
    <1> HIDE DEF slot
    <1>4. ASSUME NEW i \in DOMAIN T PROVE SourceOk(T[i])
        <2>1. \A n \in NodeIds : SlotOk(T[i].n[n])
            BY <1>0, <1>1, <1>3 DEF Good, SourceOk, NodeWritten
        <2>2. QED
            BY <1>0, <1>1, <1>e, <2>1 DEF SourceOk, NodeWritten, EdgesGood
    <1>5. ASSUME NEW i \in DOMAIN T, NEW j \in DOMAIN T, j < i, NEW n \in NodeIds, IsDead(T[i].n[n])
          PROVE  ~IsLive(T[j].n[n])
        <2>1. i # 1 /\ T[i].n[n] = S[i].n[n]
            BY <1>0, <1>1, <1>5 DEF NodeWritten
        <2>2. CASE n = id
            <3>1. S[i].n[id] # Absent /\ IsDead(S[i].n[id])
                BY <1>3, <1>5, <2>1, <2>2
            <3>2. ~IsLive(Opinion(S, "n", id))
                BY <1>0, <3>1, NoTombstone
            <3>3. QED
                BY <1>0, <3>1, <3>2 DEF Good, IdsFresh
        <2>3. CASE n # id
            BY <1>0, <1>1, <1>5, <2>1, <2>3 DEF Good, DeadFinal, NodeWritten
        <2>4. QED
            BY <2>2, <2>3
    <1>6. ASSUME NEW i \in DOMAIN T, NEW n \in NodeIds, n >= more PROVE T[i].n[n] = Absent
        <2>1. n # id /\ n >= nodes
            BY <1>6 DEF NodeIds
        <2>2. QED
            BY <1>0, <1>1, <2>1 DEF Good, IdsFresh, NodeWritten
    <1>7. KeysPassedOn(T)
        <2> SUFFICES ASSUME NEW i \in DOMAIN T, NEW j \in DOMAIN T, j <= i, NEW n \in NodeIds, NEW m \in NodeIds,
                            n # m, NEW l, NEW k, Holds(T[j].n[n], l, k), Holds(T[i].n[m], l, k)
                     PROVE  \E h \in j..(i - 1) : T[h].n[m] # Absent
            BY DEF KeysPassedOn
        <2>0. \A h \in j..(i - 1) : h \in DOMAIN S
            BY <1>0
        <2>1. CASE j # 1
            <3>1. T[j].n[n] = S[j].n[n] /\ T[i].n[m] = S[i].n[m]
                BY <1>0, <1>1, <2>1 DEF NodeWritten
            <3>2. PICK h \in j..(i - 1) : S[h].n[m] # Absent
                BY <1>0, <3>1 DEF Good, KeysPassedOn
            <3>3. T[h].n[m] = S[h].n[m]
                BY <1>0, <1>1, <2>0, <2>1, <3>2 DEF NodeWritten
            <3>4. QED
                BY <3>2, <3>3
        <2>2. CASE j = 1 /\ m = id /\ i # 1
            <3>1. T[1].n[m] # Absent /\ 1 \in j..(i - 1)
                BY <1>0, <1>1, <1>3, <2>2 DEF NodeWritten
            <3>2. QED
                BY <3>1
        <2>3. CASE j = 1 /\ m = id /\ i = 1
            <3>1. Holds(S[1].n[n], l, k) /\ l \in labels /\ k = key
                BY <1>0, <1>1, <1>2, <2>3 DEF NodeWritten, Holds
            <3>2. Decides(S, "n", n, 1)
                BY <1>0, <1>3, <3>1 DEF Decides, Holds
            <3>3. Opinion(S, "n", n) = S[1].n[n]
                BY <1>0, <3>2, OpinionOf
            <3>4. QED
                BY <2>3, <3>1, <3>3
        <2>4. CASE j = 1 /\ m # id /\ n = id
            <3>1. Holds(S[i].n[m], l, k) /\ l \in labels /\ k = key
                BY <1>0, <1>1, <1>2, <2>4 DEF NodeWritten, Holds
            <3>2. \A h \in DOMAIN S : T[h].n[m] = S[h].n[m]
                BY <1>1, <2>4 DEF NodeWritten
            <3>3. ASSUME \A h \in DOMAIN S : h < i => S[h].n[m] = Absent PROVE FALSE
                <4>1. Decides(S, "n", m, i)
                    BY <1>0, <1>3, <3>1, <3>3 DEF Decides, Holds
                <4>2. Opinion(S, "n", m) = S[i].n[m]
                    BY <1>0, <4>1, OpinionOf
                <4>3. QED
                    BY <2>4, <3>1, <4>2
            <3>4. PICK h \in DOMAIN S : h < i /\ S[h].n[m] # Absent
                BY <3>3
            <3>5. h \in j..(i - 1)
                BY <1>0, <2>4, <3>4
            <3>6. QED
                BY <3>2, <3>4, <3>5
        <2>5. CASE j = 1 /\ m # id /\ n # id
            <3>1. T[j].n[n] = S[j].n[n] /\ \A h \in DOMAIN S : T[h].n[m] = S[h].n[m]
                BY <1>0, <1>1, <2>5 DEF NodeWritten
            <3>2. Holds(S[j].n[n], l, k) /\ Holds(S[i].n[m], l, k) /\ i \in DOMAIN S /\ j \in DOMAIN S
                BY <1>0, <3>1
            <3>3. KeysPassedOn(S)
                BY DEF Good
            <3>4. PICK h \in j..(i - 1) : S[h].n[m] # Absent
                BY <3>2, <3>3, KeyPassed
            <3>5. QED
                BY <2>0, <3>1, <3>4
        <2>6. QED
            BY <2>1, <2>2, <2>3, <2>4, <2>5
    <1>8. DeadFinal(T)
        BY <1>5, <1>e DEF DeadFinal, EdgesGood
    <1>9. IdsFresh(T, more, edges)
        BY <1>6, <1>e DEF IdsFresh, EdgesGood
    <1>10. EndsFixed(T) /\ (unique => TriplesPassedOn(T))
        BY <1>e DEF EdgesGood
    <1>11. QED
        BY <1>0, <1>4, <1>7, <1>8, <1>9, <1>10 DEF Good

\* A tombstone of a node that had an id keeps the invariant.
LEMMA DeleteNodeGood ==
    ASSUME NEW S, NEW T, NEW nodes \in Nat, NEW edges, Good(S, nodes, edges),
           NEW id \in NodeIds, id < nodes, NEW s, Applies(S, T, Op("n", id, Dead), s)
    PROVE  Good(T, nodes, edges)
    <1> DEFINE slot == Stamped(Dead, s)
    <1>0. DOMAIN S = 1..Len(S) /\ Len(S) \in Nat /\ 1 \in DOMAIN S /\ DOMAIN T = DOMAIN S /\ Len(T) = Len(S)
        BY DEF Good, Applies
    <1>1. NodeWritten(S, T, id, slot)
        BY NodeOpSlots
    <1>e. EdgesGood(T, nodes, edges)
        BY <1>0, <1>1, NodeWriteKeepsEdges
    <1>2. IsDead(slot)
        BY StampedDead
    <1>3. slot # Absent /\ SlotOk(slot) /\ ~IsLive(slot)
        BY <1>2 DEF IsLive, IsDead, Absent, SlotOk
    <1> HIDE DEF slot
    <1>4. ASSUME NEW i \in DOMAIN T PROVE SourceOk(T[i])
        <2>1. \A n \in NodeIds : SlotOk(T[i].n[n])
            BY <1>0, <1>1, <1>3 DEF Good, SourceOk, NodeWritten
        <2>2. QED
            BY <1>0, <1>1, <1>e, <2>1 DEF SourceOk, NodeWritten, EdgesGood
    <1>5. ASSUME NEW i \in DOMAIN T, NEW j \in DOMAIN T, j < i, NEW n \in NodeIds, IsDead(T[i].n[n])
          PROVE  ~IsLive(T[j].n[n])
        <2>1. i # 1 /\ T[i].n[n] = S[i].n[n]
            BY <1>0, <1>1, <1>5 DEF NodeWritten
        <2>2. QED
            BY <1>0, <1>1, <1>3, <1>5, <2>1 DEF Good, DeadFinal, NodeWritten
    <1>6. ASSUME NEW i \in DOMAIN T, NEW n \in NodeIds, n >= nodes PROVE T[i].n[n] = Absent
        <2>1. n # id
            BY <1>6 DEF NodeIds
        <2>2. QED
            BY <1>0, <1>1, <1>6, <2>1 DEF Good, IdsFresh, NodeWritten
    <1>7. KeysPassedOn(T)
        <2> SUFFICES ASSUME NEW i \in DOMAIN T, NEW j \in DOMAIN T, j <= i, NEW n \in NodeIds, NEW m \in NodeIds,
                            n # m, NEW l, NEW k, Holds(T[j].n[n], l, k), Holds(T[i].n[m], l, k)
                     PROVE  \E h \in j..(i - 1) : T[h].n[m] # Absent
            BY DEF KeysPassedOn
        <2>1. T[j].n[n] = S[j].n[n] /\ T[i].n[m] = S[i].n[m]
            BY <1>0, <1>1, <1>3 DEF NodeWritten, Holds
        <2>2. PICK h \in j..(i - 1) : S[h].n[m] # Absent
            BY <1>0, <2>1 DEF Good, KeysPassedOn
        <2>3. h \in DOMAIN S
            BY <1>0, <2>2
        <2>4. T[h].n[m] # Absent
            BY <1>0, <1>1, <1>3, <2>2, <2>3 DEF NodeWritten
        <2>5. QED
            BY <2>2, <2>4
    <1>8. DeadFinal(T)
        BY <1>5, <1>e DEF DeadFinal, EdgesGood
    <1>9. IdsFresh(T, nodes, edges)
        BY <1>6, <1>e DEF IdsFresh, EdgesGood
    <1>10. EndsFixed(T) /\ (unique => TriplesPassedOn(T))
        BY <1>e DEF EdgesGood
    <1>11. QED
        BY <1>0, <1>4, <1>7, <1>8, <1>9, <1>10 DEF Good

\* The part of the invariant that is about nodes.
NodesGood(srcs, nodes) ==
    /\ KeysPassedOn(srcs)
    /\ \A i \in DOMAIN srcs : DOMAIN srcs[i].n = NodeIds /\ \A n \in NodeIds : SlotOk(srcs[i].n[n])
    /\ \A i, j \in DOMAIN srcs : j < i => \A n \in NodeIds : IsDead(srcs[i].n[n]) => ~IsLive(srcs[j].n[n])
    /\ \A i \in DOMAIN srcs : \A n \in NodeIds : n >= nodes => srcs[i].n[n] = Absent

\* A write to an edge keeps what concerns the nodes.
LEMMA EdgeWriteKeepsNodes ==
    ASSUME NEW S, NEW T, NEW nodes, NEW edges, Good(S, nodes, edges),
           DOMAIN T = DOMAIN S, NEW id, NEW slot, EdgeWritten(S, T, id, slot)
    PROVE  NodesGood(T, nodes)
    <1>1. \A i \in DOMAIN T : T[i].n = S[i].n
        BY DEF EdgeWritten
    <1>2. KeysPassedOn(T)
        <2>1. \A i \in DOMAIN T, j \in DOMAIN T : \A h \in j..(i - 1) : h \in DOMAIN T
            BY DEF Good
        <2>2. KeysPassedOn(S)
            BY DEF Good
        <2>3. ASSUME NEW i \in DOMAIN T, NEW j \in DOMAIN T, j <= i, NEW n \in NodeIds, NEW m \in NodeIds, n # m,
                     NEW l, NEW k, Holds(T[j].n[n], l, k), Holds(T[i].n[m], l, k)
              PROVE  \E h \in j..(i - 1) : T[h].n[m] # Absent
            <3>1. PICK h \in j..(i - 1) : S[h].n[m] # Absent
                BY <1>1, <2>2, <2>3 DEF KeysPassedOn
            <3>2. T[h].n[m] # Absent
                BY <1>1, <2>1, <3>1
            <3>3. QED
                BY <3>2
        <2>4. QED
            BY <2>3 DEF KeysPassedOn
    <1>3. \A i \in DOMAIN T : DOMAIN T[i].n = NodeIds /\ \A n \in NodeIds : SlotOk(T[i].n[n])
        BY <1>1 DEF Good, SourceOk
    <1>4. \A i, j \in DOMAIN T : j < i => \A n \in NodeIds : IsDead(T[i].n[n]) => ~IsLive(T[j].n[n])
        BY <1>1 DEF Good, DeadFinal
    <1>5. \A i \in DOMAIN T : \A n \in NodeIds : n >= nodes => T[i].n[n] = Absent
        BY <1>1 DEF Good, IdsFresh
    <1>6. QED
        BY <1>2, <1>3, <1>4, <1>5 DEF NodesGood

\* A record for an edge that is live and has these ends, or new, keeps the invariant; with
\* edge_uniqueness, if no other edge has the triple.
LEMMA UpsertEdgeGood ==
    ASSUME NEW S, NEW T, NEW nodes \in Nat, NEW edges \in Nat, Good(S, nodes, edges),
           NEW id \in EdgeIds, NEW from \in 1..(nodes - 1), NEW to \in 1..(nodes - 1), NEW valid, NEW s,
           Applies(S, T, Op("e", id, EdgeRecord(from, to, valid)), s),
           NEW more \in Nat, edges <= more, id < more,
           Joins(Opinion(S, "e", id), from, to) \/ id >= edges,
           unique => \A e \in EdgeIds : e # id => ~Joins(Opinion(S, "e", e), from, to)
    PROVE  Good(T, nodes, more)
    <1> DEFINE slot == Stamped(EdgeRecord(from, to, valid), s)
    <1>0. DOMAIN S = 1..Len(S) /\ Len(S) \in Nat /\ 1 \in DOMAIN S /\ DOMAIN T = DOMAIN S /\ Len(T) = Len(S)
        BY DEF Good, Applies
    <1>1. EdgeWritten(S, T, id, slot)
        BY EdgeOpSlots
    <1>n. NodesGood(T, nodes)
        BY <1>0, <1>1, EdgeWriteKeepsNodes
    <1>2. IsLive(slot) /\ slot.from = from /\ slot.to = to
        BY StampedEdge
    <1>3. slot # Absent /\ SlotOk(slot) /\ \A x : ~(IsLive(x) /\ IsDead(x)) /\ ~IsDead(Absent) /\ ~IsLive(Absent)
        BY <1>2 DEF IsLive, IsDead, Absent, SlotOk
    <1> HIDE DEF slot
    <1>4. ASSUME NEW i \in DOMAIN T PROVE SourceOk(T[i])
        <2>1. \A e \in EdgeIds : SlotOk(T[i].e[e])
            BY <1>0, <1>1, <1>3 DEF Good, SourceOk, EdgeWritten
        <2>2. QED
            BY <1>0, <1>1, <1>n, <2>1 DEF SourceOk, EdgeWritten, NodesGood
    <1>5. ASSUME NEW i \in DOMAIN T, NEW j \in DOMAIN T, j < i, NEW e \in EdgeIds, IsDead(T[i].e[e])
          PROVE  ~IsLive(T[j].e[e])
        <2>1. i # 1 /\ T[i].e[e] = S[i].e[e]
            BY <1>0, <1>1, <1>5 DEF EdgeWritten
        <2>2. CASE e = id
            <3>1. S[i].e[id] # Absent /\ IsDead(S[i].e[id])
                BY <1>3, <1>5, <2>1, <2>2
            <3>2. ~IsLive(Opinion(S, "e", id))
                BY <1>0, <3>1, NoTombstone
            <3>3. QED
                BY <1>0, <3>1, <3>2 DEF Good, IdsFresh, Joins
        <2>3. CASE e # id
            BY <1>0, <1>1, <1>5, <2>1, <2>3 DEF Good, DeadFinal, EdgeWritten
        <2>4. QED
            BY <2>2, <2>3
    <1>6. ASSUME NEW i \in DOMAIN T, NEW e \in EdgeIds
          PROVE  /\ e >= more => T[i].e[e] = Absent
                 /\ IsLive(T[i].e[e]) =>
                        T[i].e[e].from \in 1..(nodes - 1) /\ T[i].e[e].to \in 1..(nodes - 1)
        <2>1. CASE i = 1 /\ e = id
            BY <1>1, <1>2, <2>1 DEF EdgeWritten, EdgeIds
        <2>2. CASE i # 1 \/ e # id
            <3>1. T[i].e[e] = S[i].e[e] /\ (e >= more => e >= edges)
                BY <1>0, <1>1, <2>2 DEF EdgeWritten, EdgeIds
            <3>2. QED
                BY <1>0, <3>1 DEF Good, IdsFresh
        <2>3. QED
            BY <2>1, <2>2
    <1>7. ASSUME unique PROVE TriplesPassedOn(T)
        <2> SUFFICES ASSUME NEW i \in DOMAIN T, NEW j \in DOMAIN T, j <= i, NEW d \in EdgeIds, NEW e \in EdgeIds,
                            d # e, NEW f, NEW t, Joins(T[j].e[d], f, t), Joins(T[i].e[e], f, t)
                     PROVE  \E h \in j..(i - 1) : T[h].e[e] # Absent
            BY DEF TriplesPassedOn
        <2>0. (\A h \in j..(i - 1) : h \in DOMAIN S) /\ TriplesPassedOn(S)
            BY <1>0, <1>7 DEF Good
        <2>1. CASE j # 1
            <3>1. T[j].e[d] = S[j].e[d] /\ T[i].e[e] = S[i].e[e]
                BY <1>0, <1>1, <2>1 DEF EdgeWritten
            <3>2. Joins(S[j].e[d], f, t) /\ Joins(S[i].e[e], f, t) /\ i \in DOMAIN S /\ j \in DOMAIN S
                BY <1>0, <3>1
            <3>3. PICK h \in j..(i - 1) : S[h].e[e] # Absent
                BY <2>0, <3>2, TriplePassed
            <3>4. h \in DOMAIN S /\ h # 1
                BY <1>0, <2>0, <2>1, <3>2, <3>3
            <3>5. T[h].e[e] = S[h].e[e]
                BY <1>1, <3>4 DEF EdgeWritten
            <3>6. QED
                BY <3>3, <3>5
        <2>2. CASE j = 1 /\ e = id /\ i # 1
            <3>1. T[1].e[e] # Absent /\ 1 \in j..(i - 1)
                BY <1>0, <1>1, <1>3, <2>2 DEF EdgeWritten
            <3>2. QED
                BY <3>1
        <2>3. CASE j = 1 /\ e = id /\ i = 1
            <3>1. Joins(S[1].e[d], f, t) /\ f = from /\ t = to
                BY <1>0, <1>1, <1>2, <2>3 DEF EdgeWritten, Joins
            <3>2. Decides(S, "e", d, 1)
                BY <1>0, <1>3, <3>1 DEF Decides, Joins
            <3>3. Opinion(S, "e", d) = S[1].e[d]
                BY <1>0, <3>2, OpinionOf
            <3>4. QED
                BY <1>7, <2>3, <3>1, <3>3
        <2>4. CASE j = 1 /\ e # id /\ d = id
            <3>1. Joins(S[i].e[e], f, t) /\ f = from /\ t = to
                BY <1>0, <1>1, <1>2, <2>4 DEF EdgeWritten, Joins
            <3>2. \A h \in DOMAIN S : T[h].e[e] = S[h].e[e]
                BY <1>1, <2>4 DEF EdgeWritten
            <3>3. ASSUME \A h \in DOMAIN S : h < i => S[h].e[e] = Absent PROVE FALSE
                <4>1. Decides(S, "e", e, i)
                    BY <1>0, <1>3, <3>1, <3>3 DEF Decides, Joins
                <4>2. Opinion(S, "e", e) = S[i].e[e]
                    BY <1>0, <4>1, OpinionOf
                <4>3. QED
                    BY <1>7, <2>4, <3>1, <4>2
            <3>4. PICK h \in DOMAIN S : h < i /\ S[h].e[e] # Absent
                BY <3>3
            <3>5. h \in j..(i - 1)
                BY <1>0, <2>4, <3>4
            <3>6. QED
                BY <3>2, <3>4, <3>5
        <2>5. CASE j = 1 /\ e # id /\ d # id
            <3>1. T[j].e[d] = S[j].e[d] /\ \A h \in DOMAIN S : T[h].e[e] = S[h].e[e]
                BY <1>0, <1>1, <2>5 DEF EdgeWritten
            <3>2. Joins(S[j].e[d], f, t) /\ Joins(S[i].e[e], f, t) /\ i \in DOMAIN S /\ j \in DOMAIN S
                BY <1>0, <3>1
            <3>3. PICK h \in j..(i - 1) : S[h].e[e] # Absent
                BY <2>0, <3>2, TriplePassed
            <3>4. QED
                BY <2>0, <3>1, <3>3
        <2>6. QED
            BY <2>1, <2>2, <2>3, <2>4, <2>5
    <1>8. DeadFinal(T)
        BY <1>5, <1>n DEF DeadFinal, NodesGood
    <1>9. IdsFresh(T, nodes, more)
        BY <1>6, <1>n DEF IdsFresh, NodesGood
    <1>10. EndsFixed(T)
        <2>1. ASSUME NEW i \in DOMAIN S, IsLive(S[i].e[id]) PROVE S[i].e[id].from = from /\ S[i].e[id].to = to
            <3>1. ~(id >= edges)
                BY <1>0, <1>3, <2>1 DEF Good, IdsFresh
            <3>2. PICK j \in DOMAIN S : Opinion(S, "e", id) = S[j].e[id]
                BY <1>0, <3>1, LiveDecided DEF Joins
            <3>3. IsLive(S[j].e[id]) /\ S[j].e[id].from = from /\ S[j].e[id].to = to
                BY <3>1, <3>2 DEF Joins
            <3>4. QED
                BY <2>1, <3>3 DEF Good, EndsFixed
        <2>2. ASSUME NEW i \in DOMAIN T, NEW e \in EdgeIds, IsLive(T[i].e[e])
              PROVE  IF e = id THEN T[i].e[e].from = from /\ T[i].e[e].to = to
                     ELSE IsLive(S[i].e[e]) /\ T[i].e[e] = S[i].e[e]
            <3>1. CASE i = 1 /\ e = id
                BY <1>1, <1>2, <3>1 DEF EdgeWritten
            <3>2. CASE i # 1 \/ e # id
                BY <1>0, <1>1, <2>1, <2>2, <3>2 DEF EdgeWritten
            <3>3. QED
                BY <3>1, <3>2
        <2>3. QED
            BY <1>0, <2>2 DEF Good, EndsFixed
    <1>11. QED
        BY <1>0, <1>4, <1>7, <1>8, <1>9, <1>10, <1>n DEF Good, NodesGood

\* A tombstone of an edge that had an id keeps the invariant.
LEMMA DeleteEdgeGood ==
    ASSUME NEW S, NEW T, NEW nodes \in Nat, NEW edges \in Nat, Good(S, nodes, edges),
           NEW id \in EdgeIds, id < edges, NEW s, Applies(S, T, Op("e", id, Dead), s)
    PROVE  Good(T, nodes, edges)
    <1> DEFINE slot == Stamped(Dead, s)
    <1>0. DOMAIN S = 1..Len(S) /\ Len(S) \in Nat /\ 1 \in DOMAIN S /\ DOMAIN T = DOMAIN S /\ Len(T) = Len(S)
        BY DEF Good, Applies
    <1>1. EdgeWritten(S, T, id, slot)
        BY EdgeOpSlots
    <1>n. NodesGood(T, nodes)
        BY <1>0, <1>1, EdgeWriteKeepsNodes
    <1>2. IsDead(slot)
        BY StampedDead
    <1>3. slot # Absent /\ SlotOk(slot) /\ ~IsLive(slot)
        BY <1>2 DEF IsLive, IsDead, Absent, SlotOk
    <1> HIDE DEF slot
    <1>4. ASSUME NEW i \in DOMAIN T PROVE SourceOk(T[i])
        <2>1. \A e \in EdgeIds : SlotOk(T[i].e[e])
            BY <1>0, <1>1, <1>3 DEF Good, SourceOk, EdgeWritten
        <2>2. QED
            BY <1>0, <1>1, <1>n, <2>1 DEF SourceOk, EdgeWritten, NodesGood
    <1>a. ASSUME NEW i \in DOMAIN T, NEW e \in EdgeIds, IsLive(T[i].e[e]) PROVE T[i].e[e] = S[i].e[e]
        BY <1>0, <1>1, <1>3, <1>a DEF EdgeWritten
    <1>5. ASSUME NEW i \in DOMAIN T, NEW j \in DOMAIN T, j < i, NEW e \in EdgeIds, IsDead(T[i].e[e])
          PROVE  ~IsLive(T[j].e[e])
        <2>1. i # 1 /\ T[i].e[e] = S[i].e[e]
            BY <1>0, <1>1, <1>5 DEF EdgeWritten
        <2>2. QED
            BY <1>0, <1>a, <1>5, <2>1 DEF Good, DeadFinal
    <1>6. ASSUME NEW i \in DOMAIN T, NEW e \in EdgeIds
          PROVE  /\ e >= edges => T[i].e[e] = Absent
                 /\ IsLive(T[i].e[e]) =>
                        T[i].e[e].from \in 1..(nodes - 1) /\ T[i].e[e].to \in 1..(nodes - 1)
        <2>1. e >= edges => e # id
            BY DEF EdgeIds
        <2>2. e >= edges => T[i].e[e] = Absent
            BY <1>0, <1>1, <2>1 DEF Good, IdsFresh, EdgeWritten
        <2>3. QED
            BY <1>0, <1>a, <2>2 DEF Good, IdsFresh
    <1>7. ASSUME unique PROVE TriplesPassedOn(T)
        <2> SUFFICES ASSUME NEW i \in DOMAIN T, NEW j \in DOMAIN T, j <= i, NEW d \in EdgeIds, NEW e \in EdgeIds,
                            d # e, NEW f, NEW t, Joins(T[j].e[d], f, t), Joins(T[i].e[e], f, t)
                     PROVE  \E h \in j..(i - 1) : T[h].e[e] # Absent
            BY DEF TriplesPassedOn
        <2>0. TriplesPassedOn(S)
            BY <1>7 DEF Good
        <2>1. T[j].e[d] = S[j].e[d] /\ T[i].e[e] = S[i].e[e]
            BY <1>a DEF Joins
        <2>2. PICK h \in j..(i - 1) : S[h].e[e] # Absent
            BY <1>0, <2>0, <2>1 DEF TriplesPassedOn
        <2>3. h \in DOMAIN S
            BY <1>0, <2>2
        <2>4. T[h].e[e] # Absent
            BY <1>0, <1>1, <1>3, <2>2, <2>3 DEF EdgeWritten
        <2>5. QED
            BY <2>2, <2>4
    <1>8. DeadFinal(T)
        BY <1>5, <1>n DEF DeadFinal, NodesGood
    <1>9. IdsFresh(T, nodes, edges)
        BY <1>6, <1>n DEF IdsFresh, NodesGood
    <1>10. EndsFixed(T)
        BY <1>0, <1>a DEF Good, EndsFixed
    <1>11. QED
        BY <1>0, <1>4, <1>7, <1>8, <1>9, <1>10, <1>n DEF Good, NodesGood

-----------------------------------------------------------------------------
(* Sequences, and the operations of a commit *)

IsSeq(q) == \E X : q \in Seq(X)

\* A sequence has a length and the domain to it.
LEMMA SeqIs ==
    ASSUME NEW q, IsSeq(q)
    PROVE  Len(q) \in Nat /\ DOMAIN q = 1..Len(q)
    BY DEF IsSeq

\* A sequence of one.
LEMMA TupleIs ==
    ASSUME NEW x
    PROVE  IsSeq(<<x>>) /\ Len(<<x>>) = 1 /\ <<x>>[1] = x
    <1>1. <<x>> \in Seq({x})
        OBVIOUS
    <1>2. QED
        BY <1>1 DEF IsSeq

\* The empty sequence.
LEMMA EmptyIs == IsSeq(<<>>) /\ Len(<<>>) = 0
    <1>1. <<>> \in Seq({})
        OBVIOUS
    <1>2. QED
        BY <1>1 DEF IsSeq

\* The members of a longer sequence.
LEMMA AppendIs ==
    ASSUME NEW q, IsSeq(q), NEW x
    PROVE  /\ IsSeq(Append(q, x)) /\ Len(Append(q, x)) = Len(q) + 1
           /\ \A i \in 1..Len(q) : Append(q, x)[i] = q[i]
           /\ Append(q, x)[Len(q) + 1] = x
    <1>1. PICK X : q \in Seq(X)
        BY DEF IsSeq
    <1>2. q \in Seq(X \union {x})
        BY <1>1
    <1>3. Append(q, x) \in Seq(X \union {x})
        BY <1>2
    <1>4. QED
        BY <1>2, <1>3 DEF IsSeq

\* The members of two sequences in a row.
LEMMA ConcatIs ==
    ASSUME NEW p, IsSeq(p), NEW q, IsSeq(q)
    PROVE  /\ IsSeq(p \o q) /\ Len(p \o q) = Len(p) + Len(q)
           /\ \A i \in 1..Len(p) : (p \o q)[i] = p[i]
           /\ \A i \in 1..Len(q) : (p \o q)[Len(p) + i] = q[i]
    <1>1. PICK X : p \in Seq(X)
        BY DEF IsSeq
    <1>2. PICK Y : q \in Seq(Y)
        BY DEF IsSeq
    <1>3. p \in Seq(X \union Y) /\ q \in Seq(X \union Y)
        BY <1>1, <1>2
    <1>4. p \o q \in Seq(X \union Y)
        BY <1>3
    <1>5. IsSeq(p \o q)
        BY <1>4 DEF IsSeq
    <1>6. Len(p \o q) = Len(p) + Len(q) /\ \A i \in 1..Len(p) : (p \o q)[i] = p[i]
        BY <1>3
    <1>7. \A i \in 1..Len(q) : (p \o q)[Len(p) + i] = q[i]
        BY <1>3
    <1>8. QED
        BY <1>5, <1>6, <1>7

\* Sequences with the same members are equal.
LEMMA SameSeq ==
    ASSUME NEW p, IsSeq(p), NEW q, IsSeq(q), Len(p) = Len(q), \A i \in 1..Len(p) : p[i] = q[i]
    PROVE  p = q
    <1>1. PICK X : p \in Seq(X)
        BY DEF IsSeq
    <1>2. PICK Y : q \in Seq(Y)
        BY DEF IsSeq
    <1>3. p \in Seq(X \union Y) /\ q \in Seq(X \union Y)
        BY <1>1, <1>2
    <1>4. QED
        BY <1>3, SeqEqual

\* The loop over the operations.
IsApplyLoop(r, source, ops, s, n) ==
    r = [i \in 0..n |-> IF i = 0 THEN source ELSE ApplyOp(r[i - 1], ops[i], s)]

\* There is such a loop.
LEMMA ApplyLoopExists ==
    ASSUME NEW source, NEW ops, NEW s, NEW m \in Nat
    PROVE  \E r : IsApplyLoop(r, source, ops, s, m)
    <1> DEFINE S == {n \in Nat : \E r : IsApplyLoop(r, source, ops, s, n)}
    <1>1. 0 \in S
        <2>1. IsApplyLoop([k \in 0..0 |-> source], source, ops, s, 0)
            BY DEF IsApplyLoop
        <2>2. QED
            BY <2>1
    <1>2. ASSUME NEW n \in S PROVE n + 1 \in S
        <2>1. PICK r : IsApplyLoop(r, source, ops, s, n)
            OBVIOUS
        <2> DEFINE t == [k \in 0..(n + 1) |-> IF k <= n THEN r[k] ELSE ApplyOp(r[n], ops[n + 1], s)]
        <2>2. IsApplyLoop(t, source, ops, s, n + 1)
            BY <2>1 DEF IsApplyLoop
        <2>3. QED
            BY <2>2
    <1>3. S = Nat
        <2> HIDE DEF S
        <2>1. QED
            BY <1>1, <1>2, Induction DEF S
    <1>4. QED
        BY <1>3

\* Its turns.
LEMMA ApplyLoopTurns ==
    ASSUME NEW source, NEW ops, NEW s, Len(ops) \in Nat
    PROVE  /\ ApplyLoop(source, ops, s)[0] = source
           /\ \A k \in 1..Len(ops) :
                 ApplyLoop(source, ops, s)[k] = ApplyOp(ApplyLoop(source, ops, s)[k - 1], ops[k], s)
    <1>1. IsApplyLoop(ApplyLoop(source, ops, s), source, ops, s, Len(ops))
        <2>1. ApplyLoop(source, ops, s) = CHOOSE r : IsApplyLoop(r, source, ops, s, Len(ops))
            BY DEF ApplyLoop, IsApplyLoop
        <2>2. QED
            BY <2>1, ApplyLoopExists
    <1>2. QED
        BY <1>1 DEF IsApplyLoop

\* Applying nothing, one operation, and one sequence after another.
LEMMA ApplyNone ==
    ASSUME NEW source, NEW s PROVE ApplyOps(source, <<>>, s) = source
    BY EmptyIs, ApplyLoopTurns DEF ApplyOps

LEMMA ApplyOne ==
    ASSUME NEW source, NEW op, NEW s PROVE ApplyOps(source, <<op>>, s) = ApplyOp(source, op, s)
    <1>1. Len(<<op>>) = 1 /\ <<op>>[1] = op
        BY TupleIs
    <1>2. ApplyLoop(source, <<op>>, s)[1] = ApplyOp(ApplyLoop(source, <<op>>, s)[1 - 1], <<op>>[1], s)
        BY <1>1, ApplyLoopTurns
    <1>3. ApplyLoop(source, <<op>>, s)[0] = source
        BY <1>1, ApplyLoopTurns
    <1>4. QED
        BY <1>1, <1>2, <1>3 DEF ApplyOps

LEMMA ApplyConcat ==
    ASSUME NEW source, NEW p, IsSeq(p), NEW q, IsSeq(q), NEW s
    PROVE  ApplyOps(source, p \o q, s) = ApplyOps(ApplyOps(source, p, s), q, s)
    <1> DEFINE all == ApplyLoop(source, p \o q, s)
               one == ApplyLoop(source, p, s)
               two == ApplyLoop(ApplyOps(source, p, s), q, s)
               S == {k \in Nat : k <= Len(p) => all[k] = one[k]}
               T == {k \in Nat : k <= Len(q) => all[Len(p) + k] = two[k]}
    <1>1. /\ Len(p) \in Nat /\ Len(q) \in Nat /\ Len(p \o q) = Len(p) + Len(q)
          /\ \A i \in 1..Len(p) : (p \o q)[i] = p[i]
          /\ \A i \in 1..Len(q) : (p \o q)[Len(p) + i] = q[i]
        <2>1. Len(p) \in Nat /\ Len(q) \in Nat
            BY SeqIs
        <2>2. /\ Len(p \o q) = Len(p) + Len(q)
              /\ \A i \in 1..Len(p) : (p \o q)[i] = p[i]
              /\ \A i \in 1..Len(q) : (p \o q)[Len(p) + i] = q[i]
            BY ConcatIs
        <2>3. QED
            BY <2>1, <2>2
    <1>2. all[0] = source /\ \A k \in 1..(Len(p) + Len(q)) : all[k] = ApplyOp(all[k - 1], (p \o q)[k], s)
        <2> DEFINE ops == p \o q
        <2>1. Len(ops) = Len(p) + Len(q) /\ Len(ops) \in Nat
            BY <1>1
        <2> HIDE DEF ops
        <2>2. /\ ApplyLoop(source, ops, s)[0] = source
              /\ \A k \in 1..Len(ops) :
                     ApplyLoop(source, ops, s)[k] = ApplyOp(ApplyLoop(source, ops, s)[k - 1], ops[k], s)
            BY <2>1, ApplyLoopTurns
        <2>3. QED
            BY <2>1, <2>2 DEF ops
    <1>3. one[0] = source /\ \A k \in 1..Len(p) : one[k] = ApplyOp(one[k - 1], p[k], s)
        BY <1>1, ApplyLoopTurns
    <1>4. two[0] = one[Len(p)] /\ \A k \in 1..Len(q) : two[k] = ApplyOp(two[k - 1], q[k], s)
        BY <1>1, ApplyLoopTurns DEF ApplyOps
    <1> HIDE DEF all, one, two
    <1>5. S = Nat
        <2>1. 0 \in S
            BY <1>2, <1>3
        <2>2. ASSUME NEW k \in S PROVE k + 1 \in S
            <3> SUFFICES ASSUME k + 1 <= Len(p) PROVE all[k + 1] = one[k + 1]
                OBVIOUS
            <3>1. k + 1 \in 1..Len(p) /\ (k + 1) - 1 = k /\ k + 1 \in 1..(Len(p) + Len(q))
                BY <1>1
            <3>2. all[k] = one[k]
                BY <1>1
            <3>3. all[k + 1] = ApplyOp(all[k], (p \o q)[k + 1], s)
                BY <1>2, <3>1
            <3>4. one[k + 1] = ApplyOp(one[k], p[k + 1], s)
                BY <1>3, <3>1
            <3>5. QED
                BY <1>1, <3>1, <3>2, <3>3, <3>4
        <2> HIDE DEF S
        <2>3. QED
            BY <2>1, <2>2, Induction DEF S
    <1>6. T = Nat
        <2>1. 0 \in T
            <3>1. all[Len(p)] = one[Len(p)]
                BY <1>1, <1>5
            <3>2. Len(p) + 0 = Len(p)
                BY <1>1
            <3>3. QED
                BY <1>4, <3>1, <3>2
        <2>2. ASSUME NEW k \in T PROVE k + 1 \in T
            <3> SUFFICES ASSUME k + 1 <= Len(q) PROVE all[Len(p) + (k + 1)] = two[k + 1]
                OBVIOUS
            <3>1. /\ k + 1 \in 1..Len(q) /\ (k + 1) - 1 = k /\ Len(p) + (k + 1) \in 1..(Len(p) + Len(q))
                  /\ (Len(p) + (k + 1)) - 1 = Len(p) + k
                BY <1>1
            <3>2. all[Len(p) + k] = two[k]
                BY <1>1
            <3>3. all[Len(p) + (k + 1)] = ApplyOp(all[Len(p) + k], (p \o q)[Len(p) + (k + 1)], s)
                BY <1>2, <3>1
            <3>4. two[k + 1] = ApplyOp(two[k], q[k + 1], s)
                BY <1>4, <3>1
            <3>5. QED
                BY <1>1, <3>1, <3>2, <3>3, <3>4
        <2> HIDE DEF T
        <2>3. QED
            BY <2>1, <2>2, Induction DEF T
    <1>7. all[Len(p) + Len(q)] = two[Len(q)]
        BY <1>1, <1>6
    <1>8. QED
        BY <1>1, <1>7 DEF ApplyOps, all, two

LEMMA ApplyAppend ==
    ASSUME NEW source, NEW ops, IsSeq(ops), NEW op, NEW s
    PROVE  ApplyOps(source, Append(ops, op), s) = ApplyOp(ApplyOps(source, ops, s), op, s)
    <1>1. IsSeq(ops \o <<op>>) /\ IsSeq(Append(ops, op)) /\ Len(ops) \in Nat
        BY AppendIs, TupleIs, ConcatIs, SeqIs
    <1>2. /\ Len(ops \o <<op>>) = Len(ops) + 1 /\ Len(Append(ops, op)) = Len(ops) + 1
          /\ \A i \in 1..Len(ops) : (ops \o <<op>>)[i] = ops[i] /\ Append(ops, op)[i] = ops[i]
          /\ (ops \o <<op>>)[Len(ops) + 1] = op /\ Append(ops, op)[Len(ops) + 1] = op
        BY AppendIs, TupleIs, ConcatIs
    <1>3. \A i \in 1..(Len(ops) + 1) : Append(ops, op)[i] = (ops \o <<op>>)[i]
        BY <1>1, <1>2
    <1>4. Append(ops, op) = ops \o <<op>>
        BY <1>1, <1>2, <1>3, SameSeq
    <1>5. QED
        BY <1>4, TupleIs, ApplyConcat, ApplyOne

-----------------------------------------------------------------------------
(* The operations of plans *)

NodeOpOk(op) ==
    \E id \in NodeIds : op = Op("n", id, Dead) \/ \E l, k, w : op = Op("n", id, NodeRecord(l, k, w))
EdgeOpOk(op) ==
    \E id \in EdgeIds : op = Op("e", id, Dead) \/ \E f, t, v : op = Op("e", id, EdgeRecord(f, t, v))

\* Records and tombstones for ids within the bounds.
OpsOk(ops) == IsSeq(ops) /\ \A i \in 1..Len(ops) : NodeOpOk(ops[i]) \/ EdgeOpOk(ops[i])

\* Nothing, one operation, and one sequence after another.
LEMMA NoOpsOk == OpsOk(<<>>)
    BY EmptyIs DEF OpsOk

LEMMA OneOpOk ==
    ASSUME NEW op, NodeOpOk(op) \/ EdgeOpOk(op) PROVE OpsOk(<<op>>)
    <1> DEFINE q == <<op>>
    <1>1. IsSeq(q) /\ Len(q) = 1 /\ q[1] = op
        BY TupleIs
    <1> HIDE DEF q
    <1>2. OpsOk(q)
        BY <1>1 DEF OpsOk
    <1>3. QED
        BY <1>2 DEF q

LEMMA OpsConcatOk ==
    ASSUME NEW p, OpsOk(p), NEW q, OpsOk(q) PROVE OpsOk(p \o q)
    <1> DEFINE w == p \o q
    <1>1. IsSeq(p) /\ IsSeq(q)
        BY DEF OpsOk
    <1>2. /\ IsSeq(w) /\ Len(w) = Len(p) + Len(q) /\ (\A i \in 1..Len(p) : w[i] = p[i])
          /\ (\A i \in 1..Len(q) : w[Len(p) + i] = q[i])
        BY <1>1, ConcatIs
    <1>3. Len(p) \in Nat /\ Len(q) \in Nat
        BY <1>1, SeqIs
    <1> HIDE DEF w
    <1>4. ASSUME NEW i \in 1..Len(w) PROVE NodeOpOk(w[i]) \/ EdgeOpOk(w[i])
        <2>1. CASE i \in 1..Len(p)
            BY <1>2, <2>1 DEF OpsOk
        <2>2. CASE i \notin 1..Len(p)
            <3> DEFINE k == i - Len(p)
            <3>1. k \in 1..Len(q) /\ i = Len(p) + k
                BY <1>2, <1>3, <2>2
            <3> HIDE DEF k
            <3>2. w[i] = q[k]
                BY <1>2, <3>1
            <3>3. QED
                BY <3>1, <3>2 DEF OpsOk
        <2>3. QED
            BY <2>1, <2>2
    <1>5. QED
        BY <1>2, <1>4 DEF OpsOk, w

LEMMA OpsAppendOk ==
    ASSUME NEW p, OpsOk(p), NEW op, NodeOpOk(op) \/ EdgeOpOk(op) PROVE OpsOk(Append(p, op))
    <1> DEFINE w == Append(p, op)
    <1>1. IsSeq(p)
        BY DEF OpsOk
    <1>2. /\ IsSeq(w) /\ Len(w) = Len(p) + 1 /\ (\A i \in 1..Len(p) : w[i] = p[i]) /\ w[Len(p) + 1] = op
        BY <1>1, AppendIs
    <1>3. Len(p) \in Nat
        BY <1>1, SeqIs
    <1> HIDE DEF w
    <1>4. ASSUME NEW i \in 1..Len(w) PROVE NodeOpOk(w[i]) \/ EdgeOpOk(w[i])
        <2>1. CASE i \in 1..Len(p)
            BY <1>2, <2>1 DEF OpsOk
        <2>2. CASE i = Len(p) + 1
            BY <1>2, <2>2
        <2>3. QED
            BY <1>2, <1>3, <2>1, <2>2
    <1>5. QED
        BY <1>2, <1>4 DEF OpsOk, w

\* A node that is live in T was live in S, or is new.
NoneReturns(S, T) ==
    \A n \in NodeIds : IsLive(Opinion(T, "n", n)) => IsLive(Opinion(S, "n", n)) \/ n >= nextNode

-----------------------------------------------------------------------------
(* Deletions *)

\* The active memtable before the older sources.
With(source, rest) == <<source>> \o rest

\* The members of that list.
LEMMA WithIs ==
    ASSUME NEW source, NEW rest, IsSeq(rest)
    PROVE  /\ IsSeq(With(source, rest)) /\ Len(With(source, rest)) = Len(rest) + 1
           /\ DOMAIN With(source, rest) = 1..(Len(rest) + 1) /\ 1 \in DOMAIN With(source, rest)
           /\ With(source, rest)[1] = source
           /\ \A i \in 2..(Len(rest) + 1) : With(source, rest)[i] = rest[i - 1]
    <1>1. IsSeq(<<source>>) /\ Len(<<source>>) = 1 /\ <<source>>[1] = source
        BY TupleIs
    <1>2. Len(rest) \in Nat
        BY SeqIs
    <1> DEFINE q == <<source>> \o rest
    <1>3. IsSeq(q) /\ Len(q) = Len(rest) + 1
        BY <1>1, <1>2, ConcatIs
    <1>4. q[1] = source
        BY <1>1, ConcatIs
    <1>5. ASSUME NEW i \in 2..(Len(rest) + 1) PROVE q[i] = rest[i - 1]
        <2>1. i - 1 \in 1..Len(rest) /\ 1 + (i - 1) = i
            BY <1>2
        <2>2. q[Len(<<source>>) + (i - 1)] = rest[i - 1]
            BY <1>1, <2>1, ConcatIs
        <2> HIDE DEF q
        <2>3. QED
            BY <1>1, <2>1, <2>2
    <1> HIDE DEF q
    <1>6. DOMAIN q = 1..(Len(rest) + 1)
        BY <1>3, SeqIs
    <1>7. 1 \in 1..(Len(rest) + 1)
        BY <1>2
    <1>8. QED
        BY <1>3, <1>4, <1>5, <1>6, <1>7 DEF With, q

\* An operation on the memtable.
LEMMA WithApplies ==
    ASSUME NEW source, NEW rest, IsSeq(rest), NEW op, NEW s
    PROVE  Applies(With(source, rest), With(ApplyOp(source, op, s), rest), op, s)
    <1>1. Len(rest) \in Nat
        BY SeqIs
    <1> DEFINE S == With(source, rest)
               T == With(ApplyOp(source, op, s), rest)
    <1>2. /\ Len(S) = Len(rest) + 1 /\ DOMAIN S = 1..(Len(rest) + 1) /\ 1 \in DOMAIN S
          /\ S[1] = source /\ \A i \in 2..(Len(rest) + 1) : S[i] = rest[i - 1]
        BY WithIs
    <1>3. /\ Len(T) = Len(rest) + 1 /\ DOMAIN T = 1..(Len(rest) + 1)
          /\ T[1] = ApplyOp(source, op, s) /\ \A i \in 2..(Len(rest) + 1) : T[i] = rest[i - 1]
        BY WithIs
    <1> HIDE DEF S, T
    <1>4. \A i \in DOMAIN S : i # 1 => T[i] = S[i]
        BY <1>1, <1>2, <1>3
    <1>5. QED
        BY <1>2, <1>3, <1>4 DEF Applies, S, T

\* The operations are deletions of nodes and edges that had an id.
DeleteOp(op, nodes, edges) ==
    \/ \E n \in NodeIds : n < nodes /\ op = Op("n", n, Dead)
    \/ \E e \in EdgeIds : e < edges /\ op = Op("e", e, Dead)

AllDelete(ops, nodes, edges) == IsSeq(ops) /\ \A i \in 1..Len(ops) : DeleteOp(ops[i], nodes, edges)

\* The first k operations delete the id.
DeletedBy(ops, k, on, id) == \E i \in 1..k : ops[i] = Op(on, id, Dead)

\* T says what S says, except that the ids of the first k operations are deleted.
DeletedFrom(S, T, ops, k) ==
    /\ \A n \in NodeIds : IF DeletedBy(ops, k, "n", n) THEN IsDead(Opinion(T, "n", n))
                          ELSE Opinion(T, "n", n) = Opinion(S, "n", n)
    /\ \A e \in EdgeIds : IF DeletedBy(ops, k, "e", e) THEN IsDead(Opinion(T, "e", e))
                          ELSE Opinion(T, "e", e) = Opinion(S, "e", e)

\* The fields of an operation.
LEMMA OpIs ==
    ASSUME NEW on1, NEW on2, NEW id1, NEW id2, NEW slot1, NEW slot2
    PROVE  Op(on1, id1, slot1) = Op(on2, id2, slot2) => on1 = on2 /\ id1 = id2 /\ slot1 = slot2
    BY DEF Op

\* Deletions keep the invariant, delete what they name and nothing else.
LEMMA DeletesGood ==
    ASSUME NEW source, NEW rest, IsSeq(rest), NEW nodes \in Nat, NEW edges \in Nat,
           Good(With(source, rest), nodes, edges), NEW ops, AllDelete(ops, nodes, edges), NEW s
    PROVE  /\ Good(With(ApplyOps(source, ops, s), rest), nodes, edges)
           /\ DeletedFrom(With(source, rest), With(ApplyOps(source, ops, s), rest), ops, Len(ops))
    <1> DEFINE r == ApplyLoop(source, ops, s)
               S == With(source, rest)
               P(k) == Good(With(r[k], rest), nodes, edges) /\ DeletedFrom(S, With(r[k], rest), ops, k)
               K == {k \in Nat : k <= Len(ops) => P(k)}
    <1>1. Len(ops) \in Nat
        BY SeqIs DEF AllDelete
    <1>2. r[0] = source /\ \A k \in 1..Len(ops) : r[k] = ApplyOp(r[k - 1], ops[k], s)
        BY <1>1, ApplyLoopTurns
    <1>3. \A slot : IsDead(slot) => slot # Absent
        BY DEF IsDead, Absent
    <1> HIDE DEF r
    <1>4. 0 \in K
        <2>1. \A on, id : ~DeletedBy(ops, 0, on, id)
            BY DEF DeletedBy
        <2>2. QED
            BY <1>2, <2>1 DEF DeletedFrom
    <1>5. ASSUME NEW k \in K PROVE k + 1 \in K
        <2> SUFFICES ASSUME k + 1 <= Len(ops) PROVE P(k + 1)
            OBVIOUS
        <2> DEFINE T == With(r[k], rest)
                   U == With(r[k + 1], rest)
                   op == ops[k + 1]
        <2>1. k + 1 \in 1..Len(ops) /\ (k + 1) - 1 = k /\ k \in Nat
            BY <1>1
        <2>2. Good(T, nodes, edges) /\ DeletedFrom(S, T, ops, k)
            BY <1>1, <2>1
        <2>3. r[k + 1] = ApplyOp(r[k], op, s)
            BY <1>2, <2>1
        <2>4. Applies(T, U, op, s)
            BY <2>3, WithApplies
        <2>5. \A on, id : DeletedBy(ops, k + 1, on, id) <=> (DeletedBy(ops, k, on, id) \/ op = Op(on, id, Dead))
            BY <2>1 DEF DeletedBy
        <2>6. DeleteOp(op, nodes, edges)
            BY <2>1 DEF AllDelete
        <2> HIDE DEF T, U, op, S
        <2>7. CASE \E n \in NodeIds : n < nodes /\ op = Op("n", n, Dead)
            <3>1. PICK n \in NodeIds : n < nodes /\ op = Op("n", n, Dead)
                BY <2>7
            <3>2. Good(U, nodes, edges)
                BY <2>2, <2>4, <3>1, DeleteNodeGood
            <3>3. IsDead(Stamped(Dead, s)) /\ Stamped(Dead, s) # Absent
                BY <1>3, StampedDead
            <3>4. /\ Opinion(U, "n", n) = Stamped(Dead, s)
                  /\ \A x \in NodeIds : x # n => Opinion(U, "n", x) = Opinion(T, "n", x)
                  /\ \A x \in EdgeIds : Opinion(U, "e", x) = Opinion(T, "e", x)
                <4>1. Applies(T, U, Op("n", n, Dead), s)
                    BY <2>4, <3>1
                <4>2. NodeRevised(T, U, n, Stamped(Dead, s))
                    BY <2>2, <3>3, <4>1, NodeOpOpinion
                <4>3. QED
                    BY <4>2 DEF NodeRevised
            <3>5. \A on, id : op = Op(on, id, Dead) <=> on = "n" /\ id = n
                BY <3>1, OpIs
            <3>a. ASSUME NEW y \in NodeIds
                  PROVE  IF DeletedBy(ops, k + 1, "n", y) THEN IsDead(Opinion(U, "n", y))
                         ELSE Opinion(U, "n", y) = Opinion(S, "n", y)
                <4>1. DeletedBy(ops, k + 1, "n", y) <=> (DeletedBy(ops, k, "n", y) \/ y = n)
                    BY <2>5, <3>5
                <4>2. CASE y = n
                    BY <3>3, <3>4, <4>1, <4>2
                <4>3. CASE y # n
                    BY <2>2, <3>4, <4>1, <4>3 DEF DeletedFrom
                <4>4. QED
                    BY <4>2, <4>3
            <3>b. ASSUME NEW y \in EdgeIds
                  PROVE  IF DeletedBy(ops, k + 1, "e", y) THEN IsDead(Opinion(U, "e", y))
                         ELSE Opinion(U, "e", y) = Opinion(S, "e", y)
                <4>1. DeletedBy(ops, k + 1, "e", y) <=> DeletedBy(ops, k, "e", y)
                    BY <2>5, <3>5
                <4>2. QED
                    BY <2>2, <3>4, <4>1 DEF DeletedFrom
            <3>6. DeletedFrom(S, U, ops, k + 1)
                BY <3>a, <3>b DEF DeletedFrom
            <3>7. QED
                BY <3>2, <3>6 DEF U
        <2>8. CASE \E e \in EdgeIds : e < edges /\ op = Op("e", e, Dead)
            <3>1. PICK e \in EdgeIds : e < edges /\ op = Op("e", e, Dead)
                BY <2>8
            <3>2. Good(U, nodes, edges)
                BY <2>2, <2>4, <3>1, DeleteEdgeGood
            <3>3. IsDead(Stamped(Dead, s)) /\ Stamped(Dead, s) # Absent
                BY <1>3, StampedDead
            <3>4. /\ Opinion(U, "e", e) = Stamped(Dead, s)
                  /\ \A x \in EdgeIds : x # e => Opinion(U, "e", x) = Opinion(T, "e", x)
                  /\ \A x \in NodeIds : Opinion(U, "n", x) = Opinion(T, "n", x)
                <4>1. Applies(T, U, Op("e", e, Dead), s)
                    BY <2>4, <3>1
                <4>2. EdgeRevised(T, U, e, Stamped(Dead, s))
                    BY <2>2, <3>3, <4>1, EdgeOpOpinion
                <4>3. QED
                    BY <4>2 DEF EdgeRevised
            <3>5. \A on, id : op = Op(on, id, Dead) <=> on = "e" /\ id = e
                BY <3>1, OpIs
            <3>a. ASSUME NEW y \in EdgeIds
                  PROVE  IF DeletedBy(ops, k + 1, "e", y) THEN IsDead(Opinion(U, "e", y))
                         ELSE Opinion(U, "e", y) = Opinion(S, "e", y)
                <4>1. DeletedBy(ops, k + 1, "e", y) <=> (DeletedBy(ops, k, "e", y) \/ y = e)
                    BY <2>5, <3>5
                <4>2. CASE y = e
                    BY <3>3, <3>4, <4>1, <4>2
                <4>3. CASE y # e
                    BY <2>2, <3>4, <4>1, <4>3 DEF DeletedFrom
                <4>4. QED
                    BY <4>2, <4>3
            <3>b. ASSUME NEW y \in NodeIds
                  PROVE  IF DeletedBy(ops, k + 1, "n", y) THEN IsDead(Opinion(U, "n", y))
                         ELSE Opinion(U, "n", y) = Opinion(S, "n", y)
                <4>1. DeletedBy(ops, k + 1, "n", y) <=> DeletedBy(ops, k, "n", y)
                    BY <2>5, <3>5
                <4>2. QED
                    BY <2>2, <3>4, <4>1 DEF DeletedFrom
            <3>6. DeletedFrom(S, U, ops, k + 1)
                BY <3>a, <3>b DEF DeletedFrom
            <3>7. QED
                BY <3>2, <3>6 DEF U
        <2>9. QED
            BY <2>6, <2>7, <2>8 DEF DeleteOp
    <1>6. K = Nat
        <2> HIDE DEF K
        <2>1. K \in SUBSET Nat
            BY DEF K
        <2>2. QED
            BY <1>4, <1>5, <2>1, Induction
    <1>7. P(Len(ops))
        BY <1>1, <1>6
    <1>8. QED
        BY <1>7 DEF ApplyOps, r

\* SetToSeq lists the members of a finite set.
LEMMA SetToSeqIs ==
    ASSUME NEW S, IsFiniteSet(S)
    PROVE  /\ IsSeq(SetToSeq(S)) /\ \A i \in 1..Len(SetToSeq(S)) : SetToSeq(S)[i] \in S
           /\ \A x \in S : \E i \in 1..Len(SetToSeq(S)) : SetToSeq(S)[i] = x
    <1>2. Cardinality(S) \in Nat /\ ExistsBijection(1..Cardinality(S), S)
        BY FS_CardinalityType
    <1> DEFINE n == Cardinality(S)
               q == SetToSeq(S)
    <1>3. \E f \in [1..n -> S] : IsInjective(f)
        BY <1>2 DEF ExistsBijection, Bijection, Injection
    <1>4. q \in [1..n -> S] /\ IsInjective(q)
        BY <1>3 DEF SetToSeq
    <1>5. q \in Injection(1..n, S)
        BY <1>4 DEF Injection
    <1>6. Cardinality(1..n) = n
        BY <1>2, FS_Interval
    <1> HIDE DEF n, q
    <1>7. q \in Surjection(1..n, S)
        BY <1>5, <1>6, FS_Injection DEF n
    <1>8. n \in Nat
        BY <1>2 DEF n
    <1>9. q \in Seq(S) /\ Len(q) = n
        BY <1>4, <1>8
    <1>10. \A l \in S : \E i \in 1..n : q[i] = l
        BY <1>7 DEF Surjection
    <1>11. IsSeq(q)
        BY <1>9 DEF IsSeq
    <1>12. QED
        BY <1>4, <1>9, <1>10, <1>11 DEF q

\* The operations that delete a set of ids.
LEMMA DeleteOpsIs ==
    ASSUME NEW on, NEW ids, IsFiniteSet(ids)
    PROVE  /\ IsSeq(DeleteOps(on, ids))
           /\ \A i \in 1..Len(DeleteOps(on, ids)) : \E x \in ids : DeleteOps(on, ids)[i] = Op(on, x, Dead)
           /\ \A x \in ids : \E i \in 1..Len(DeleteOps(on, ids)) : DeleteOps(on, ids)[i] = Op(on, x, Dead)
    <1> DEFINE q == SetToSeq(ids)
               d == [i \in 1..Len(q) |-> Op(on, q[i], Dead)]
    <1>1. /\ IsSeq(q) /\ \A i \in 1..Len(q) : q[i] \in ids
          /\ \A x \in ids : \E i \in 1..Len(q) : q[i] = x
        BY SetToSeqIs
    <1> HIDE DEF q
    <1>2. Len(q) \in Nat
        BY <1>1, SeqIs
    <1>3. d \in Seq({Op(on, x, Dead) : x \in ids}) /\ Len(d) = Len(q)
        BY <1>1, <1>2
    <1>4. IsSeq(d)
        BY <1>3 DEF IsSeq
    <1>5. d = DeleteOps(on, ids)
        BY DEF DeleteOps, q
    <1>6. \A i \in 1..Len(d) : \E x \in ids : d[i] = Op(on, x, Dead)
        BY <1>1, <1>3
    <1>7. \A x \in ids : \E i \in 1..Len(d) : d[i] = Op(on, x, Dead)
        BY <1>1, <1>3
    <1>8. QED
        BY <1>4, <1>5, <1>6, <1>7

-----------------------------------------------------------------------------
(* The loops of batches and patches *)

\* Nothing staged yet.
NoneStaged == [batch |-> [lk \in Labels \X Keys |-> 0], removed |-> {}, staged |-> <<>>,
               next |-> nextNode, ops |-> <<>>, failed |-> FALSE]

\* The loop of plan_node_upsert_records, and its turns.
IsNodeLoop(r, inputs, n) ==
    r = [i \in 0..n |-> IF i = 0 THEN NoneStaged ELSE StageNode(r[i - 1], inputs[i], NodeWinners(r[i - 1], inputs[i]))]

\* The loop over the nodes of a batch is well defined.
LEMMA NodeLoopExists ==
    ASSUME NEW inputs, NEW m \in Nat
    PROVE  \E r : IsNodeLoop(r, inputs, m)
    <1> DEFINE S == {n \in Nat : \E r : IsNodeLoop(r, inputs, n)}
    <1>1. 0 \in S
        <2>1. IsNodeLoop([k \in 0..0 |-> NoneStaged], inputs, 0)
            BY DEF IsNodeLoop
        <2>2. QED
            BY <2>1
    <1>2. ASSUME NEW n \in S PROVE n + 1 \in S
        <2>1. PICK r : IsNodeLoop(r, inputs, n)
            OBVIOUS
        <2> DEFINE t == [k \in 0..(n + 1) |-> IF k <= n THEN r[k]
                                              ELSE StageNode(r[n], inputs[n + 1], NodeWinners(r[n], inputs[n + 1]))]
        <2>2. IsNodeLoop(t, inputs, n + 1)
            BY <2>1 DEF IsNodeLoop
        <2>3. QED
            BY <2>2
    <1>3. S = Nat
        <2> HIDE DEF S
        <2>1. QED
            BY <1>1, <1>2, Induction DEF S
    <1>4. QED
        BY <1>3

\* Its turns.
LEMMA NodeLoopTurns ==
    ASSUME NEW inputs, Len(inputs) \in Nat
    PROVE  /\ NodeLoop(inputs)[0] = NoneStaged
           /\ \A k \in 1..Len(inputs) : LET r == NodeLoop(inputs)
                                     IN  r[k] = StageNode(r[k - 1], inputs[k], NodeWinners(r[k - 1], inputs[k]))
    <1>1. IsNodeLoop(NodeLoop(inputs), inputs, Len(inputs))
        <2>1. NodeLoop(inputs) = CHOOSE r : IsNodeLoop(r, inputs, Len(inputs))
            BY DEF NodeLoop, IsNodeLoop, NoneStaged
        <2>2. QED
            BY <2>1, NodeLoopExists
    <1>2. QED
        BY <1>1 DEF IsNodeLoop

\* The loop of a batch of edges, and its turns.
IsEdgeLoop(r, inputs, n) ==
    r = [i \in 0..n |-> IF i = 0 THEN [next |-> nextEdge, ops |-> <<>>] ELSE StageEdge(r[i - 1], inputs[i], EdgeHolder(r[i - 1], inputs[i]))]

\* The loop over the edges of a batch is well defined.
LEMMA EdgeLoopExists ==
    ASSUME NEW inputs, NEW m \in Nat
    PROVE  \E r : IsEdgeLoop(r, inputs, m)
    <1> DEFINE S == {n \in Nat : \E r : IsEdgeLoop(r, inputs, n)}
    <1>1. 0 \in S
        <2>1. IsEdgeLoop([k \in 0..0 |-> [next |-> nextEdge, ops |-> <<>>]], inputs, 0)
            BY DEF IsEdgeLoop
        <2>2. QED
            BY <2>1
    <1>2. ASSUME NEW n \in S PROVE n + 1 \in S
        <2>1. PICK r : IsEdgeLoop(r, inputs, n)
            OBVIOUS
        <2> DEFINE t == [k \in 0..(n + 1) |-> IF k <= n THEN r[k]
                                              ELSE StageEdge(r[n], inputs[n + 1], EdgeHolder(r[n], inputs[n + 1]))]
        <2>2. IsEdgeLoop(t, inputs, n + 1)
            BY <2>1 DEF IsEdgeLoop
        <2>3. QED
            BY <2>2
    <1>3. S = Nat
        <2> HIDE DEF S
        <2>1. QED
            BY <1>1, <1>2, Induction DEF S
    <1>4. QED
        BY <1>3

\* Its turns.
LEMMA EdgeLoopTurns ==
    ASSUME NEW inputs, Len(inputs) \in Nat
    PROVE  /\ EdgeLoop(inputs)[0] = [next |-> nextEdge, ops |-> <<>>]
           /\ \A k \in 1..Len(inputs) : LET r == EdgeLoop(inputs)
                                     IN  r[k] = StageEdge(r[k - 1], inputs[k], EdgeHolder(r[k - 1], inputs[k]))
    <1>1. IsEdgeLoop(EdgeLoop(inputs), inputs, Len(inputs))
        <2>1. EdgeLoop(inputs) = CHOOSE r : IsEdgeLoop(r, inputs, Len(inputs))
            BY DEF EdgeLoop, IsEdgeLoop
        <2>2. QED
            BY <2>1, EdgeLoopExists
    <1>2. QED
        BY <1>1 DEF IsEdgeLoop

\* The loop of the invalidations of a patch, and its turns.
IsInvalidateLoop(r, ops, ids, n) ==
    r = [i \in 0..n |-> IF i = 0 THEN ops ELSE StageInvalidation(r[i - 1], ids[i])]

\* The loop over the invalidations of a patch is well defined.
LEMMA InvalidateLoopExists ==
    ASSUME NEW ops, NEW ids, NEW m \in Nat
    PROVE  \E r : IsInvalidateLoop(r, ops, ids, m)
    <1> DEFINE S == {n \in Nat : \E r : IsInvalidateLoop(r, ops, ids, n)}
    <1>1. 0 \in S
        <2>1. IsInvalidateLoop([k \in 0..0 |-> ops], ops, ids, 0)
            BY DEF IsInvalidateLoop
        <2>2. QED
            BY <2>1
    <1>2. ASSUME NEW n \in S PROVE n + 1 \in S
        <2>1. PICK r : IsInvalidateLoop(r, ops, ids, n)
            OBVIOUS
        <2> DEFINE t == [k \in 0..(n + 1) |-> IF k <= n THEN r[k]
                                              ELSE StageInvalidation(r[n], ids[n + 1])]
        <2>2. IsInvalidateLoop(t, ops, ids, n + 1)
            BY <2>1 DEF IsInvalidateLoop
        <2>3. QED
            BY <2>2
    <1>3. S = Nat
        <2> HIDE DEF S
        <2>1. QED
            BY <1>1, <1>2, Induction DEF S
    <1>4. QED
        BY <1>3

\* Its turns.
LEMMA InvalidateLoopTurns ==
    ASSUME NEW ops, NEW ids, Len(ids) \in Nat
    PROVE  /\ InvalidateLoop(ops, ids)[0] = ops
           /\ \A k \in 1..Len(ids) : LET r == InvalidateLoop(ops, ids)
                                     IN  r[k] = StageInvalidation(r[k - 1], ids[k])
    <1>1. IsInvalidateLoop(InvalidateLoop(ops, ids), ops, ids, Len(ids))
        <2>1. InvalidateLoop(ops, ids) = CHOOSE r : IsInvalidateLoop(r, ops, ids, Len(ids))
            BY DEF InvalidateLoop, IsInvalidateLoop
        <2>2. QED
            BY <2>1, InvalidateLoopExists
    <1>2. QED
        BY <1>1 DEF IsInvalidateLoop

-----------------------------------------------------------------------------
(* A batch of nodes *)

SameEdges(S, T) == \A e \in EdgeIds : Opinion(T, "e", e) = Opinion(S, "e", e)
SameNodes(S, T) == \A n \in NodeIds : Opinion(T, "n", n) = Opinion(S, "n", n)

\* The nodes that have the key now.
HoldersOf(T, l, k) == {n \in NodeIds : Holds(Opinion(T, "n", n), l, k)}

\* A key has at most one holder.
LEMMA OneHolder ==
    ASSUME NEW T, NEW nodes, NEW edges, Good(T, nodes, edges), NEW l, NEW k,
           NEW n \in HoldersOf(T, l, k), NEW m \in HoldersOf(T, l, k)
    PROVE  n = m
    <1>1. KeyLookup(T, l, k) = HoldersOf(T, l, k)
        BY KeyLookupExact, GraphConstantsAssumption DEF HoldersOf
    <1>2. KeyLookup(T, l, k) = {} \/ \E c : KeyLookup(T, l, k) = {c}
        BY DEF KeyLookup
    <1>3. QED
        BY <1>1, <1>2

\* A finite set with at most one member.
LEMMA OneMember ==
    ASSUME NEW S, IsFiniteSet(S), ~(Cardinality(S) > 1), NEW x \in S, NEW y \in S
    PROVE  x = y
    <1>1. Cardinality(S) \in Nat /\ Cardinality(S) # 0
        BY FS_CardinalityType, FS_EmptySet
    <1>2. Cardinality(S) = 1
        BY <1>1
    <1>3. PICK z : S = {z}
        BY <1>2, FS_Singleton
    <1>4. QED
        BY <1>3

\* Sets of ids are finite.
LEMMA IdSetsFinite ==
    /\ \A S \in SUBSET NodeIds : IsFiniteSet(S)
    /\ \A S \in SUBSET EdgeIds : IsFiniteSet(S)
    <1>1. IsFiniteSet(NodeIds) /\ IsFiniteSet(EdgeIds)
        BY FS_Interval, GraphConstantsAssumption DEF NodeIds, EdgeIds
    <1>2. QED
        BY <1>1, FS_Subset

\* What the batch's tables say when T is what the sources S become with its operations.
HoldersKnown(acc, T) == \A l \in Labels, k \in Keys : NodeHolder(acc, l, k) = HoldersOf(T, l, k)
LabelsKnown(acc, S, T) ==
    /\ DOMAIN acc.staged \subseteq NodeIds
    /\ \A n \in DOMAIN acc.staged : /\ IsLive(Opinion(T, "n", n))
                                    /\ Opinion(T, "n", n).labels = acc.staged[n]
                                    /\ IsLive(Opinion(S, "n", n)) \/ n >= nextNode
    /\ \A n \in NodeIds : n \notin DOMAIN acc.staged => Opinion(T, "n", n) = Opinion(S, "n", n)
NodesStaged(acc, S, T) ==
    /\ acc.next \in Nat /\ nextNode <= acc.next
    /\ Good(T, acc.next, nextEdge)
    /\ SameEdges(S, T) /\ HoldersKnown(acc, T) /\ LabelsKnown(acc, S, T)

\* The operation a turn appends.
StagedId(acc, winners) == IF winners = {} THEN acc.next ELSE Max(winners)

\* What the turn of an entry finds out about the node it writes.
Found(acc, S, T, input, id) ==
    /\ id \in NodeIds
    /\ \A l \in input.labels : \A n \in NodeIds : n # id => ~Holds(Opinion(T, "n", n), l, input.key)
    /\ \/ /\ id >= acc.next /\ Opinion(T, "n", id) = Absent /\ id \notin DOMAIN acc.staged
       \/ /\ IsLive(Opinion(T, "n", id)) /\ Opinion(T, "n", id).key = input.key
          /\ id < acc.next

\* The winners of an input are the nodes that have its key once the batch so far is applied.
LEMMA WinnersFound ==
    ASSUME NEW acc, NEW S, NEW T, NodesStaged(acc, S, T), nextNode \in Nat \ {0},
           NEW input, input.labels \subseteq Labels, input.key \in Keys,
           NEW winners, winners = NodeWinners(acc, input), ~(Cardinality(winners) > 1),
           winners = {} => acc.next <= MaxNode
    PROVE  /\ Found(acc, S, T, input, StagedId(acc, winners))
           /\ winners = {} <=> Opinion(T, "n", StagedId(acc, winners)) = Absent
    <1> DEFINE id == StagedId(acc, winners)
    <1>1. acc.next \in Nat /\ nextNode <= acc.next /\ Good(T, acc.next, nextEdge) /\ HoldersKnown(acc, T)
        BY DEF NodesStaged
    <1>2. winners = UNION {HoldersOf(T, l, input.key) : l \in input.labels}
        BY <1>1 DEF NodeWinners, HoldersKnown
    <1>3. winners \subseteq NodeIds /\ \A n \in winners : \E l \in input.labels : Holds(Opinion(T, "n", n), l, input.key)
        BY <1>2 DEF HoldersOf
    <1>4. \A l \in input.labels : \A n \in NodeIds : Holds(Opinion(T, "n", n), l, input.key) => n \in winners
        BY <1>2 DEF HoldersOf
    <1>5. \A n \in NodeIds : n >= acc.next => Opinion(T, "n", n) = Absent
        <2> SUFFICES ASSUME NEW n \in NodeIds, n >= acc.next PROVE Opinion(T, "n", n) = Absent
            OBVIOUS
        <2>1. \A i \in DOMAIN T : T[i].n[n] = Absent
            BY <1>1 DEF Good, IdsFresh
        <2>2. QED
            BY <2>1 DEF Opinion
    <1>6. ~IsLive(Absent)
        BY DEF IsLive, Absent
    <1>7. CASE winners = {}
        <2>1. id = acc.next /\ id \in NodeIds /\ id >= acc.next
            BY <1>1, <1>7, GraphConstantsAssumption DEF StagedId, NodeIds
        <2>2. Opinion(T, "n", id) = Absent
            BY <1>5, <2>1
        <2>3. id \notin DOMAIN acc.staged
            BY <1>6, <2>2 DEF NodesStaged, LabelsKnown
        <2> HIDE DEF id
        <2>4. \A l \in input.labels : \A n \in NodeIds : n # id => ~Holds(Opinion(T, "n", n), l, input.key)
            BY <1>4, <1>7
        <2>5. Found(acc, S, T, input, id)
            BY <2>1, <2>2, <2>3, <2>4 DEF Found
        <2>6. QED
            BY <1>7, <2>2, <2>5 DEF id
    <1>8. CASE winners # {}
        <2>1. id \in winners
            <3>1. MaxNode \in Nat /\ winners \in SUBSET (1..MaxNode)
                BY <1>3, GraphConstantsAssumption DEF NodeIds
            <3>2. Max(winners) \in winners
                BY <1>8, <3>1, MaxIs
            <3>3. QED
                BY <1>8, <3>2 DEF StagedId
        <2> HIDE DEF id
        <2>2. id \in NodeIds /\ \E l \in input.labels : Holds(Opinion(T, "n", id), l, input.key)
            BY <1>3, <2>1
        <2>3. IsLive(Opinion(T, "n", id)) /\ Opinion(T, "n", id).key = input.key
            BY <2>2 DEF Holds
        <2>4. \A n \in winners : n = id
            <3>1. IsFiniteSet(winners)
                BY <1>3, IdSetsFinite
            <3>2. QED
                BY <2>1, <3>1, OneMember
        <2>5. ~(id >= acc.next)
            BY <1>5, <1>6, <2>2, <2>3
        <2>6. id < acc.next
            BY <1>1, <2>2, <2>5, GraphConstantsAssumption DEF NodeIds
        <2>7. Found(acc, S, T, input, id)
            BY <1>4, <2>2, <2>3, <2>4, <2>6 DEF Found
        <2>8. QED
            BY <1>6, <1>8, <2>3, <2>7 DEF id
    <1>9. QED
        BY <1>7, <1>8

\* A turn that does not fail writes the node it found.
LEMMA NodeTurn ==
    ASSUME NEW acc, NEW S, NEW T, NodesStaged(acc, S, T), nextNode \in Nat \ {0}, nextEdge \in Nat,
           SameNodes(Sources, S),
           NEW input, input.labels \subseteq Labels, input.key \in Keys,
           NEW winners, winners = NodeWinners(acc, input),
           "failed" \in DOMAIN acc,
           NEW new, new = StageNode(acc, input, winners), ~new.failed, new.next <= MaxNode + 1,
           NEW s, NEW U, Applies(T, U, UpsertNodeOp(StagedId(acc, winners), input), s)
    PROVE  NodesStaged(new, S, U)
    <1> DEFINE id == StagedId(acc, winners)
               old == IF id \in DOMAIN acc.staged THEN acc.staged[id]
                      ELSE IF winners = {} THEN {}
                      ELSE Opinion(Sources, "n", id).labels
               lost == (old \ input.labels) \X {input.key}
               held == input.labels \X {input.key}
               rec == NodeRecord(input.labels, input.key, input.low)
               slot == Stamped(rec, s)
    <1>1. ~acc.failed /\ ~(Cardinality(winners) > 1)
        BY DEF StageNode
    <1>2. /\ new.batch = [lk \in Labels \X Keys |-> IF lk \in held THEN id
                                                    ELSE IF lk \in lost THEN 0 ELSE acc.batch[lk]]
          /\ new.removed = (acc.removed \union lost) \ held
          /\ new.staged = [n \in {id} \union DOMAIN acc.staged |-> IF n = id THEN input.labels ELSE acc.staged[n]]
          /\ new.next = IF winners = {} THEN acc.next + 1 ELSE acc.next
        BY <1>1 DEF StageNode, StagedId
    <1>3. acc.next \in Nat /\ nextNode <= acc.next /\ Good(T, acc.next, nextEdge) /\ SameEdges(S, T)
        BY DEF NodesStaged
    <1>4. /\ Found(acc, S, T, input, id)
          /\ winners = {} <=> Opinion(T, "n", id) = Absent
        <2>1. winners = {} => acc.next <= MaxNode
            BY <1>2, <1>3, GraphConstantsAssumption
        <2>2. QED
            BY <1>1, <2>1, WinnersFound
    <1>5. ~IsLive(Absent)
        BY DEF IsLive, Absent
    <1>6. id \in NodeIds /\ id # 0
        BY <1>4, GraphConstantsAssumption DEF Found, NodeIds
    <1>7. new.next \in Nat /\ acc.next <= new.next /\ id < new.next
        <2>1. CASE winners = {}
            BY <1>2, <1>3, <2>1 DEF StagedId
        <2>2. CASE winners # {}
            BY <1>2, <1>3, <1>4, <1>5, <2>2 DEF Found
        <2>3. QED
            BY <2>1, <2>2
    <1>8. IsLive(Opinion(T, "n", id)) \/ id >= acc.next
        BY <1>4 DEF Found
    <1>9. \A l \in input.labels : \A n \in NodeIds : n # id => ~Holds(Opinion(T, "n", n), l, input.key)
        BY <1>4 DEF Found
    <1>10. Applies(T, U, Op("n", id, rec), s)
        BY DEF UpsertNodeOp
    <1>11. IsLive(slot) /\ slot.labels = input.labels /\ slot.key = input.key
        BY StampedNode
    <1>12. slot # Absent
        BY <1>5, <1>11
    <1>13. old = IF IsLive(Opinion(T, "n", id)) THEN Opinion(T, "n", id).labels ELSE {}
        <2>1. CASE id \in DOMAIN acc.staged
            BY <2>1 DEF NodesStaged, LabelsKnown
        <2>2. CASE id \notin DOMAIN acc.staged
            <3>1. Opinion(T, "n", id) = Opinion(S, "n", id) /\ Opinion(S, "n", id) = Opinion(Sources, "n", id)
                BY <1>6, <2>2 DEF NodesStaged, LabelsKnown, SameNodes
            <3>2. QED
                BY <1>4, <1>5, <2>2, <3>1 DEF Found
        <2>3. QED
            BY <2>1, <2>2
    <1> HIDE DEF id, old, lost, held, rec, slot
    <1>14. NodeRevised(T, U, id, slot)
        <2>1. Stamped(rec, s) # Absent
            BY <1>12 DEF slot
        <2>2. QED
            BY <1>3, <1>6, <1>10, <2>1, NodeOpOpinion DEF slot
    <1>15. Good(U, new.next, nextEdge)
        <2>1. Applies(T, U, Op("n", id, NodeRecord(input.labels, input.key, input.low)), s)
            BY <1>10 DEF rec
        <2>2. QED
            BY <1>3, <1>6, <1>7, <1>8, <1>9, <2>1, UpsertNodeGood
    <1>16. SameEdges(S, U)
        BY <1>3, <1>14 DEF SameEdges, NodeRevised
    <1>17. LabelsKnown(new, S, U)
        <2>1. DOMAIN new.staged = {id} \union DOMAIN acc.staged
            BY <1>2
        <2>2. DOMAIN new.staged \subseteq NodeIds
            BY <1>6, <2>1 DEF NodesStaged, LabelsKnown
        <2>3. ASSUME NEW n \in DOMAIN new.staged
              PROVE  /\ IsLive(Opinion(U, "n", n)) /\ Opinion(U, "n", n).labels = new.staged[n]
                     /\ IsLive(Opinion(S, "n", n)) \/ n >= nextNode
            <3>1. CASE n = id
                <4>1. Opinion(U, "n", id) = slot /\ new.staged[id] = input.labels
                    BY <1>2, <1>14 DEF NodeRevised
                <4>2. IsLive(Opinion(S, "n", id)) \/ id >= nextNode
                    <5>1. CASE id \in DOMAIN acc.staged
                        BY <5>1 DEF NodesStaged, LabelsKnown
                    <5>2. CASE id \notin DOMAIN acc.staged
                        <6>1. Opinion(T, "n", id) = Opinion(S, "n", id)
                            BY <1>6, <5>2 DEF NodesStaged, LabelsKnown
                        <6>2. id \in Nat
                            BY <1>6, GraphConstantsAssumption DEF NodeIds
                        <6>3. QED
                            BY <1>3, <1>8, <6>1, <6>2
                    <5>3. QED
                        BY <5>1, <5>2
                <4>3. QED
                    BY <1>11, <3>1, <4>1, <4>2
            <3>2. CASE n # id
                <4>1. n \in DOMAIN acc.staged /\ new.staged[n] = acc.staged[n] /\ n \in NodeIds
                    BY <1>2, <2>1, <2>2, <2>3, <3>2
                <4>2. Opinion(U, "n", n) = Opinion(T, "n", n)
                    BY <1>14, <3>2, <4>1 DEF NodeRevised
                <4>3. QED
                    BY <4>1, <4>2 DEF NodesStaged, LabelsKnown
            <3>3. QED
                BY <3>1, <3>2
        <2>4. ASSUME NEW n \in NodeIds, n \notin DOMAIN new.staged
              PROVE  Opinion(U, "n", n) = Opinion(S, "n", n)
            BY <1>14, <2>1, <2>4 DEF NodeRevised, NodesStaged, LabelsKnown
        <2>5. QED
            BY <2>2, <2>3, <2>4 DEF LabelsKnown
    <1>18. ASSUME NEW l \in Labels, NEW k \in Keys PROVE NodeHolder(new, l, k) = HoldersOf(U, l, k)
        <2>1. NodeHolder(acc, l, k) = HoldersOf(T, l, k)
            BY DEF NodesStaged, HoldersKnown
        <2>2. \A n \in NodeIds : n # id => (n \in HoldersOf(U, l, k) <=> n \in HoldersOf(T, l, k))
            BY <1>14 DEF NodeRevised, HoldersOf
        <2>3. id \in HoldersOf(U, l, k) <=> l \in input.labels /\ k = input.key
            BY <1>6, <1>11, <1>14 DEF NodeRevised, HoldersOf, Holds
        <2>4. id \in HoldersOf(T, l, k) => k = input.key /\ l \in old
            BY <1>4, <1>5, <1>13 DEF Found, HoldersOf, Holds
        <2>5. k = input.key /\ l \in old => id \in HoldersOf(T, l, k)
            BY <1>4, <1>5, <1>6, <1>13 DEF Found, HoldersOf, Holds
        <2>6. <<l, k>> \in Labels \X Keys
            OBVIOUS
        <2>7. new.batch[l, k] = IF <<l, k>> \in held THEN id ELSE IF <<l, k>> \in lost THEN 0 ELSE acc.batch[l, k]
            <3> HIDE DEF held, lost, id
            <3>1. QED
                BY <1>2, <2>6
        <2>8. <<l, k>> \in new.removed <=> (<<l, k>> \in acc.removed \/ <<l, k>> \in lost) /\ <<l, k>> \notin held
            BY <1>2
        <2>9. <<l, k>> \in held <=> l \in input.labels /\ k = input.key
            BY DEF held
        <2>10. <<l, k>> \in lost <=> l \in old /\ l \notin input.labels /\ k = input.key
            BY DEF lost
        <2>11. HoldersOf(U, l, k) \subseteq NodeIds /\ HoldersOf(T, l, k) \subseteq NodeIds
            BY DEF HoldersOf
        <2>12. CASE <<l, k>> \in held
            <3>1. NodeHolder(new, l, k) = {id}
                BY <1>6, <2>7, <2>12 DEF NodeHolder
            <3>2. \A n \in NodeIds : n # id => n \notin HoldersOf(T, l, k)
                BY <1>9, <2>9, <2>12 DEF HoldersOf
            <3>3. HoldersOf(U, l, k) = {id}
                BY <2>2, <2>3, <2>9, <2>11, <2>12, <3>2
            <3>4. QED
                BY <3>1, <3>3
        <2>13. CASE <<l, k>> \in lost
            <3>1. <<l, k>> \notin held
                BY <2>9, <2>10, <2>13
            <3>2. NodeHolder(new, l, k) = {}
                BY <2>7, <2>8, <2>13, <3>1 DEF NodeHolder
            <3>3. id \in HoldersOf(T, l, k) /\ id \notin HoldersOf(U, l, k)
                BY <2>3, <2>5, <2>10, <2>13
            <3>4. \A n \in HoldersOf(T, l, k) : n = id
                BY <1>3, <3>3, OneHolder
            <3>5. HoldersOf(U, l, k) = {}
                BY <2>2, <2>11, <3>3, <3>4
            <3>6. QED
                BY <3>2, <3>5
        <2>14. CASE <<l, k>> \notin held /\ <<l, k>> \notin lost
            <3>1. new.batch[l, k] = acc.batch[l, k] /\ (<<l, k>> \in new.removed <=> <<l, k>> \in acc.removed)
                <4> HIDE DEF held, lost, id
                <4>1. QED
                    BY <2>7, <2>8, <2>14
            <3>2. NodeHolder(new, l, k) = NodeHolder(acc, l, k)
                BY <3>1 DEF NodeHolder
            <3>3. id \in HoldersOf(U, l, k) <=> id \in HoldersOf(T, l, k)
                BY <2>3, <2>4, <2>9, <2>10, <2>14
            <3>4. HoldersOf(U, l, k) = HoldersOf(T, l, k)
                BY <2>2, <2>11, <3>3
            <3>5. QED
                BY <2>1, <3>2, <3>4
        <2>15. QED
            BY <2>12, <2>13, <2>14
    <1>19. HoldersKnown(new, U)
        BY <1>18 DEF HoldersKnown
    <1>20. nextNode <= new.next
        BY <1>3, <1>7
    <1>21. QED
        BY <1>7, <1>15, <1>16, <1>17, <1>19, <1>20 DEF NodesStaged

NodeEntries(inputs) ==
    IsSeq(inputs) /\ \A i \in 1..Len(inputs) : inputs[i].labels \subseteq Labels /\ inputs[i].key \in Keys

\* A turn that does not fail follows one that did not, and takes at most one id.
LEMMA NodeTurnShape ==
    ASSUME NEW acc, "failed" \in DOMAIN acc, NEW input, NEW winners, NEW new, new = StageNode(acc, input, winners)
    PROVE  /\ "failed" \in DOMAIN new
           /\ ~new.failed => /\ ~acc.failed
                             /\ new.next = IF winners = {} THEN acc.next + 1 ELSE acc.next
                             /\ new.ops = Append(acc.ops, UpsertNodeOp(StagedId(acc, winners), input))
                             /\ StagedId(acc, winners) \in DOMAIN new.staged
    <1>1. CASE acc.failed \/ Cardinality(winners) > 1
        <2>1. new = [acc EXCEPT !.failed = TRUE]
            BY <1>1 DEF StageNode
        <2>2. QED
            BY <2>1
    <1>2. CASE ~(acc.failed \/ Cardinality(winners) > 1)
        BY <1>2 DEF StageNode, StagedId
    <1>3. QED
        BY <1>1, <1>2

\* At the start the tables say what the sources say.
LEMMA NothingStaged ==
    ASSUME Good(Sources, nextNode, nextEdge), nextNode \in Nat
    PROVE  /\ NodesStaged(NoneStaged, Sources, Sources)
           /\ \A l \in Labels, k \in Keys : NodeHolder(NoneStaged, l, k) = Owner(l, k)
    <1> DEFINE start == NoneStaged
    <1>1. /\ start.next = nextNode /\ start.removed = {} /\ start.staged = <<>>
          /\ start.batch = [lk \in Labels \X Keys |-> 0]
        BY DEF NoneStaged
    <1>2. DOMAIN start.staged = {}
        BY <1>1
    <1> HIDE DEF start
    <1>3. \A l \in Labels, k \in Keys : NodeHolder(start, l, k) = Owner(l, k)
        BY <1>1 DEF NodeHolder
    <1>4. HoldersKnown(start, Sources)
        <2> SUFFICES ASSUME NEW l \in Labels, NEW k \in Keys
                     PROVE  Owner(l, k) = HoldersOf(Sources, l, k)
            BY <1>3 DEF HoldersKnown
        <2>1. KeyLookup(Sources, l, k) = HoldersOf(Sources, l, k)
            BY KeyLookupExact, GraphConstantsAssumption DEF HoldersOf
        <2>2. QED
            BY <2>1 DEF Owner
    <1>5. LabelsKnown(start, Sources, Sources)
        BY <1>2 DEF LabelsKnown
    <1>6. QED
        BY <1>1, <1>3, <1>4, <1>5 DEF NodesStaged, SameEdges, start

\* The operations of a batch of nodes that does not fail.
LEMMA NodesBatch ==
    ASSUME NEW rest, IsSeq(rest), Sources = With(active, rest), Good(Sources, nextNode, nextEdge),
           nextNode \in Nat \ {0}, nextEdge \in Nat, NEW inputs, NodeEntries(inputs), NEW s,
           NEW acc, acc = NodeRecords(inputs), ~acc.failed, acc.next <= MaxNode + 1
    PROVE  /\ IsSeq(acc.ops) /\ OpsOk(acc.ops)
           /\ NodesStaged(acc, Sources, With(ApplyOps(active, acc.ops, s), rest))
    <1> DEFINE r == NodeLoop(inputs)
               T(k) == With(ApplyOps(active, r[k].ops, s), rest)
               Shape(k) == /\ "failed" \in DOMAIN r[k]
                           /\ ~r[k].failed => r[k].next \in Nat /\ IsSeq(r[k].ops)
               Staged(k) == ~r[k].failed /\ r[k].next <= MaxNode + 1 => NodesStaged(r[k], Sources, T(k)) /\ OpsOk(r[k].ops)
               K == {k \in Nat : k <= Len(inputs) => Shape(k) /\ Staged(k)}
    <1>1. Len(inputs) \in Nat
        BY SeqIs DEF NodeEntries
    <1>2. /\ r[0] = NoneStaged
          /\ \A k \in 1..Len(inputs) : r[k] = StageNode(r[k - 1], inputs[k], NodeWinners(r[k - 1], inputs[k]))
        BY <1>1, NodeLoopTurns
    <1> HIDE DEF r
    <1>3. 0 \in K
        <2>1. "failed" \in DOMAIN NoneStaged /\ NoneStaged.next = nextNode /\ NoneStaged.ops = <<>>
            BY DEF NoneStaged
        <2>2. T(0) = Sources
            <3>1. ApplyOps(active, <<>>, s) = active
                BY ApplyNone
            <3>2. QED
                BY <1>2, <2>1, <3>1
        <2>3. NodesStaged(NoneStaged, Sources, Sources)
            BY NothingStaged
        <2> HIDE DEF T
        <2>4. Shape(0) /\ Staged(0)
            BY <1>2, <2>1, <2>2, <2>3, EmptyIs, NoOpsOk
        <2> HIDE DEF Shape, Staged
        <2>5. QED
            BY <2>4
    <1>4. ASSUME NEW k \in K PROVE k + 1 \in K
        <2> SUFFICES ASSUME k + 1 <= Len(inputs) PROVE Shape(k + 1) /\ Staged(k + 1)
            OBVIOUS
        <2> DEFINE a == r[k]
                   b == r[k + 1]
                   input == inputs[k + 1]
                   winners == NodeWinners(a, input)
        <2>1. k + 1 \in 1..Len(inputs) /\ (k + 1) - 1 = k /\ k \in Nat
            BY <1>1
        <2>2. Shape(k) /\ Staged(k)
            BY <1>1, <2>1
        <2>3. b = StageNode(a, input, winners)
            BY <1>2, <2>1
        <2>4. input.labels \subseteq Labels /\ input.key \in Keys
            BY <2>1 DEF NodeEntries
        <2>5. "failed" \in DOMAIN a
            BY <2>2
        <2> HIDE DEF winners, input
        <2>6. /\ "failed" \in DOMAIN b
              /\ ~b.failed => /\ ~a.failed
                              /\ b.next = IF winners = {} THEN a.next + 1 ELSE a.next
                              /\ b.ops = Append(a.ops, UpsertNodeOp(StagedId(a, winners), input))
                              /\ StagedId(a, winners) \in DOMAIN b.staged
            <3> HIDE DEF a, b
            <3>1. QED
                BY <2>3, <2>5, NodeTurnShape
        <2>7. Shape(k + 1)
            <3> SUFFICES ASSUME ~b.failed PROVE b.next \in Nat /\ IsSeq(b.ops)
                BY <2>6
            <3> DEFINE op == UpsertNodeOp(StagedId(a, winners), input)
            <3>1. a.next \in Nat /\ IsSeq(a.ops)
                BY <2>2, <2>6
            <3>2. b.ops = Append(a.ops, op) /\ b.next \in {a.next, a.next + 1}
                BY <2>6
            <3>3. b.next \in Nat
                BY <3>1, <3>2
            <3> HIDE DEF op, a, b
            <3>4. IsSeq(Append(a.ops, op))
                BY <3>1, AppendIs
            <3>5. QED
                BY <3>2, <3>3, <3>4
        <2>8. Staged(k + 1)
            <3> SUFFICES ASSUME ~b.failed, b.next <= MaxNode + 1 PROVE NodesStaged(b, Sources, T(k + 1)) /\ OpsOk(b.ops)
                OBVIOUS
            <3> DEFINE op == UpsertNodeOp(StagedId(a, winners), input)
            <3>1. ~a.failed /\ a.next \in Nat /\ IsSeq(a.ops) /\ b.ops = Append(a.ops, op)
                BY <2>2, <2>6
            <3>2. a.next <= MaxNode + 1
                BY <2>6, <3>1, GraphConstantsAssumption
            <3>3. NodesStaged(a, Sources, T(k)) /\ OpsOk(a.ops)
                BY <2>2, <3>1, <3>2
            <3>4. Applies(T(k), T(k + 1), op, s)
                <4>1. ApplyOps(active, b.ops, s) = ApplyOp(ApplyOps(active, a.ops, s), op, s)
                    BY <3>1, ApplyAppend
                <4> HIDE DEF op
                <4>2. QED
                    BY <4>1, WithApplies
            <3>5. SameNodes(Sources, Sources)
                BY DEF SameNodes
            <3> HIDE DEF T, a, b
            <3>6. NodesStaged(b, Sources, T(k + 1))
                BY <2>3, <2>4, <2>5, <3>3, <3>4, <3>5, NodeTurn DEF winners
            <3>7. StagedId(a, winners) \in NodeIds
                BY <2>6, <3>6 DEF NodesStaged, LabelsKnown
            <3>8. NodeOpOk(op)
                BY <3>7 DEF NodeOpOk, UpsertNodeOp
            <3> HIDE DEF op
            <3>9. OpsOk(b.ops)
                BY <3>1, <3>3, <3>8, OpsAppendOk
            <3>10. QED
                BY <3>6, <3>9
        <2>9. QED
            BY <2>7, <2>8
    <1>5. K = Nat
        <2> HIDE DEF K
        <2>1. K \in SUBSET Nat
            BY DEF K
        <2>2. QED
            BY <1>3, <1>4, <2>1, Induction
    <1>6. Shape(Len(inputs)) /\ Staged(Len(inputs))
        BY <1>1, <1>5
    <1>7. acc = r[Len(inputs)]
        BY DEF NodeRecords, r
    <1>8. QED
        BY <1>6, <1>7

-----------------------------------------------------------------------------
(* The edge operations of a batch or a patch *)

EdgeOpOf(op, T) ==
    \E id \in EdgeIds : \E f, t, v : op = Op("e", id, EdgeRecord(f, t, v)) /\ Joins(Opinion(T, "e", id), f, t)

\* The last staged operation on an edge says what the edge is in T; the others are as in S.
LastSays(S, T, ops, s) ==
    \A id \in EdgeIds :
        IF StagedAt(ops, id) = {} THEN Opinion(T, "e", id) = Opinion(S, "e", id)
        ELSE Opinion(T, "e", id) = Stamped(ops[Max(StagedAt(ops, id))].slot, s)

EndsKept(S, T) ==
    \A e \in EdgeIds : IsLive(Opinion(S, "e", e)) =>
        Joins(Opinion(T, "e", e), Opinion(S, "e", e).from, Opinion(S, "e", e).to)

\* T is what the sources S become with the edge operations.
EdgesStaged(S, T, ops, s, nodes, edges) ==
    /\ IsSeq(ops) /\ \A i \in 1..Len(ops) : EdgeOpOf(ops[i], T)
    /\ Good(T, nodes, edges) /\ SameNodes(S, T)
    /\ LastSays(S, T, ops, s) /\ EndsKept(S, T)

\* The operations on an edge after one more.
LastAfter(ops, op, q, id) ==
    IF op.id = id THEN StagedAt(q, id) # {} /\ q[Max(StagedAt(q, id))] = op
    ELSE /\ StagedAt(q, id) = StagedAt(ops, id)
         /\ StagedAt(ops, id) # {} => q[Max(StagedAt(ops, id))] = ops[Max(StagedAt(ops, id))]

\* One more operation staged.
LEMMA StagedAtAppend ==
    ASSUME NEW ops, IsSeq(ops), NEW op, NEW id
    PROVE  LastAfter(ops, op, Append(ops, op), id)
    <1> DEFINE q == Append(ops, op)
    <1>1. Len(ops) \in Nat /\ DOMAIN ops = 1..Len(ops)
        BY SeqIs
    <1>2. /\ IsSeq(q) /\ Len(q) = Len(ops) + 1 /\ \A i \in 1..Len(ops) : q[i] = ops[i]
          /\ q[Len(ops) + 1] = op
        BY AppendIs
    <1> HIDE DEF q
    <1>3. DOMAIN q = 1..(Len(ops) + 1)
        BY <1>2, SeqIs
    <1>4. CASE op.id = id
        <2>1. Len(ops) + 1 \in StagedAt(q, id) /\ StagedAt(q, id) \in SUBSET (1..(Len(ops) + 1))
            BY <1>1, <1>2, <1>3, <1>4 DEF StagedAt
        <2>2. Len(ops) + 1 \in Nat
            BY <1>1
        <2>3. Max(StagedAt(q, id)) \in StagedAt(q, id) /\ Len(ops) + 1 <= Max(StagedAt(q, id))
            BY <2>1, <2>2, MaxIs
        <2>4. Max(StagedAt(q, id)) = Len(ops) + 1
            BY <1>1, <2>1, <2>3
        <2>5. QED
            BY <1>2, <1>4, <2>1, <2>4 DEF q, LastAfter
    <1>5. CASE op.id # id
        <2>1. StagedAt(q, id) = StagedAt(ops, id)
            <3>1. \A i \in 1..(Len(ops) + 1) : q[i].id = id <=> (i \in 1..Len(ops) /\ ops[i].id = id)
                BY <1>1, <1>2, <1>5
            <3>2. \A i \in 1..Len(ops) : i \in 1..(Len(ops) + 1)
                BY <1>1
            <3>3. QED
                BY <1>1, <1>3, <3>1, <3>2 DEF StagedAt
        <2>2. ASSUME StagedAt(ops, id) # {} PROVE Max(StagedAt(ops, id)) \in 1..Len(ops)
            <3>1. StagedAt(ops, id) \in SUBSET (1..Len(ops))
                BY <1>1 DEF StagedAt
            <3>2. QED
                BY <1>1, <2>2, <3>1, MaxIs
        <2>3. QED
            BY <1>2, <1>5, <2>1, <2>2 DEF q, LastAfter
    <1>6. QED
        BY <1>4, <1>5

\* One more edge operation.
LEMMA StageEdgeOp ==
    ASSUME NEW S, NEW T, NEW U, NEW ops, NEW s, NEW nodes \in Nat, NEW edges \in Nat,
           EdgesStaged(S, T, ops, s, nodes, edges),
           NEW id \in EdgeIds, NEW from \in 1..(nodes - 1), NEW to \in 1..(nodes - 1), NEW valid,
           NEW op, op = Op("e", id, EdgeRecord(from, to, valid)), Applies(T, U, op, s),
           NEW more \in Nat, edges <= more, id < more,
           Joins(Opinion(T, "e", id), from, to) \/ id >= edges,
           unique => \A e \in EdgeIds : e # id => ~Joins(Opinion(T, "e", e), from, to)
    PROVE  EdgesStaged(S, U, Append(ops, op), s, nodes, more)
    <1> DEFINE rec == EdgeRecord(from, to, valid)
               slot == Stamped(rec, s)
               q == Append(ops, op)
    <1>1. Good(T, nodes, edges) /\ IsSeq(ops) /\ Applies(T, U, Op("e", id, EdgeRecord(from, to, valid)), s)
        BY DEF EdgesStaged
    <1>2. Good(U, nodes, more)
        BY <1>1, UpsertEdgeGood
    <1>3. Joins(slot, from, to) /\ slot # Absent
        <2>1. IsLive(slot) /\ slot.from = from /\ slot.to = to
            BY StampedEdge
        <2> HIDE DEF slot
        <2>2. QED
            BY <2>1 DEF Joins, IsLive, Absent
    <1>4. EdgeRevised(T, U, id, slot)
        <2>1. Stamped(rec, s) # Absent /\ Applies(T, U, Op("e", id, rec), s)
            BY <1>1, <1>3
        <2> HIDE DEF rec
        <2>2. QED
            BY <1>1, <2>1, EdgeOpOpinion
    <1>5. op.id = id /\ op.slot = rec
        BY DEF Op
    <1> HIDE DEF rec, slot
    <1>6. SameNodes(S, U)
        BY <1>4 DEF EdgesStaged, SameNodes, EdgeRevised
    <1>11. \A e : LastAfter(ops, op, q, e)
        BY <1>1, StagedAtAppend
    <1>7. LastSays(S, U, q, s)
        <2> SUFFICES ASSUME NEW e \in EdgeIds
                     PROVE  IF StagedAt(q, e) = {} THEN Opinion(U, "e", e) = Opinion(S, "e", e)
                            ELSE Opinion(U, "e", e) = Stamped(q[Max(StagedAt(q, e))].slot, s)
            BY DEF LastSays
        <2>1. CASE e = id
            <3>1. StagedAt(q, e) # {} /\ q[Max(StagedAt(q, e))] = op
                BY <1>11, <1>5, <2>1 DEF LastAfter
            <3>2. Opinion(U, "e", e) = Stamped(rec, s)
                BY <1>4, <2>1 DEF EdgeRevised, slot
            <3>3. QED
                BY <1>5, <3>1, <3>2
        <2>2. CASE e # id
            <3>1. /\ StagedAt(q, e) = StagedAt(ops, e)
                  /\ StagedAt(ops, e) # {} => q[Max(StagedAt(ops, e))] = ops[Max(StagedAt(ops, e))]
                BY <1>11, <1>5, <2>2 DEF LastAfter
            <3>2. Opinion(U, "e", e) = Opinion(T, "e", e)
                BY <1>4, <2>2 DEF EdgeRevised
            <3>3. IF StagedAt(ops, e) = {} THEN Opinion(T, "e", e) = Opinion(S, "e", e)
                  ELSE Opinion(T, "e", e) = Stamped(ops[Max(StagedAt(ops, e))].slot, s)
                BY DEF EdgesStaged, LastSays
            <3> HIDE DEF q
            <3>4. QED
                BY <3>1, <3>2, <3>3
        <2>3. QED
            BY <2>1, <2>2
    <1>8. \A e \in EdgeIds : \A f, t : Joins(Opinion(T, "e", e), f, t) => Joins(Opinion(U, "e", e), f, t)
        <2> SUFFICES ASSUME NEW e \in EdgeIds, NEW f, NEW t, Joins(Opinion(T, "e", e), f, t)
                     PROVE  Joins(Opinion(U, "e", e), f, t)
            OBVIOUS
        <2>1. CASE e # id
            BY <1>4, <2>1 DEF EdgeRevised
        <2>2. CASE e = id
            <3>1. Joins(Opinion(T, "e", id), from, to)
                <4>1. CASE id >= edges
                    <5>1. \A i \in DOMAIN T : T[i].e[id] = Absent
                        BY <1>1, <4>1 DEF Good, IdsFresh
                    <5>2. Opinion(T, "e", id) = Absent
                        BY <5>1 DEF Opinion
                    <5>3. QED
                        BY <2>2, <5>2 DEF Joins, IsLive, Absent
                <4>2. QED
                    BY <4>1
            <3>2. f = from /\ t = to
                BY <2>2, <3>1 DEF Joins
            <3>3. Opinion(U, "e", id) = slot
                BY <1>4 DEF EdgeRevised
            <3>4. QED
                BY <1>3, <2>2, <3>2, <3>3
        <2>3. QED
            BY <2>1, <2>2
    <1>9. EndsKept(S, U)
        BY <1>8 DEF EndsKept, EdgesStaged
    <1>10. IsSeq(q) /\ \A i \in 1..Len(q) : EdgeOpOf(q[i], U)
        <2>1. IsSeq(q) /\ Len(q) = Len(ops) + 1 /\ (\A i \in 1..Len(ops) : q[i] = ops[i]) /\ q[Len(ops) + 1] = op
            BY <1>1, AppendIs
        <2>2. Len(ops) \in Nat
            BY <1>1, SeqIs
        <2> HIDE DEF q
        <2>3. EdgeOpOf(op, U)
            <3>1. Joins(Opinion(U, "e", id), from, to)
                BY <1>3, <1>4 DEF EdgeRevised
            <3>2. QED
                BY <3>1 DEF EdgeOpOf
        <2>4. ASSUME NEW i \in 1..Len(ops) PROVE EdgeOpOf(ops[i], U)
            <3>1. EdgeOpOf(ops[i], T)
                BY DEF EdgesStaged
            <3>2. QED
                BY <1>8, <3>1 DEF EdgeOpOf
        <2>5. QED
            BY <2>1, <2>2, <2>3, <2>4
    <1>12. QED
        BY <1>2, <1>6, <1>7, <1>9, <1>10 DEF EdgesStaged

JoinersOf(T, f, t) == {e \in EdgeIds : Joins(Opinion(T, "e", e), f, t)}

\* With edge_uniqueness a triple has at most one edge.
LEMMA OneJoiner ==
    ASSUME NEW T, NEW nodes, NEW edges, Good(T, nodes, edges), unique, NEW f, NEW t,
           NEW d \in JoinersOf(T, f, t), NEW e \in JoinersOf(T, f, t)
    PROVE  d = e
    <1>1. TripleLookup(T, f, t) = JoinersOf(T, f, t)
        BY TripleLookupExact, GraphConstantsAssumption DEF JoinersOf
    <1>2. TripleLookup(T, f, t) = {} \/ \E c : TripleLookup(T, f, t) = {c}
        BY DEF TripleLookup
    <1>3. QED
        BY <1>1, <1>2

\* The batch's own triples, before the committed ones, are the triples of T.
LEMMA EdgeHolderIs ==
    ASSUME NEW S, NEW T, NEW s, NEW nodes, NEW edges, NEW ops, EdgesStaged(S, T, ops, s, nodes, edges),
           SameEdges(Sources, S), Good(Sources, nextNode, nextEdge), unique, NEW input, NEW acc, acc.ops = ops
    PROVE  EdgeHolder(acc, input) = JoinersOf(T, input.from, input.to)
    <1> DEFINE f == input.from
               t == input.to
               staged == {op \in ToSet(acc.ops) : op.slot.from = f /\ op.slot.to = t}
    <1>1. /\ IsSeq(acc.ops) /\ (\A i \in 1..Len(acc.ops) : EdgeOpOf(acc.ops[i], T))
          /\ Good(T, nodes, edges) /\ LastSays(S, T, acc.ops, s) /\ EndsKept(S, T)
        BY DEF EdgesStaged
    <1>2. DOMAIN acc.ops = 1..Len(acc.ops)
        BY <1>1, SeqIs
    <1>3. ToSet(acc.ops) = {acc.ops[i] : i \in 1..Len(acc.ops)}
        BY <1>2 DEF ToSet
    <1>4. \A op \in ToSet(acc.ops) : op.id \in JoinersOf(T, op.slot.from, op.slot.to)
        <2> SUFFICES ASSUME NEW i \in 1..Len(acc.ops)
                     PROVE  acc.ops[i].id \in JoinersOf(T, acc.ops[i].slot.from, acc.ops[i].slot.to)
            BY <1>3
        <2>1. PICK id, a, b, v :
                  id \in EdgeIds /\ acc.ops[i] = Op("e", id, EdgeRecord(a, b, v)) /\ Joins(Opinion(T, "e", id), a, b)
            BY <1>1 DEF EdgeOpOf
        <2>2. acc.ops[i].id = id /\ acc.ops[i].slot.from = a /\ acc.ops[i].slot.to = b
            BY <2>1 DEF Op, EdgeRecord
        <2>3. QED
            BY <2>1, <2>2 DEF JoinersOf
    <1>5. EdgeHolder(acc, input) = IF staged # {} THEN {op.id : op \in staged} ELSE TripleLookup(Sources, f, t)
        BY DEF EdgeHolder
    <1>6. CASE staged # {}
        <2>1. PICK o \in staged : TRUE
            BY <1>6
        <2>2. \A op \in staged : op.id \in JoinersOf(T, f, t)
            BY <1>4
        <2> HIDE DEF staged, f, t
        <2>3. \A e \in JoinersOf(T, f, t) : e = o.id
            BY <1>1, <2>1, <2>2, OneJoiner
        <2>4. {op.id : op \in staged} = JoinersOf(T, f, t)
            BY <2>1, <2>2, <2>3
        <2>5. QED
            BY <1>5, <1>6, <2>4 DEF f, t
    <1>7. CASE staged = {}
        <2>1. TripleLookup(Sources, f, t) = JoinersOf(Sources, f, t)
            BY TripleLookupExact, GraphConstantsAssumption DEF JoinersOf
        <2>2. JoinersOf(Sources, f, t) = JoinersOf(S, f, t)
            BY DEF JoinersOf, SameEdges
        <2>3. \A e \in JoinersOf(S, f, t) : e \in JoinersOf(T, f, t)
            <3> HIDE DEF f, t
            <3>1. QED
                BY <1>1 DEF JoinersOf, Joins, EndsKept
        <2>4. ASSUME NEW e \in JoinersOf(T, f, t) PROVE e \in JoinersOf(S, f, t)
            <3>1. StagedAt(acc.ops, e) = {}
                <4> SUFFICES ASSUME NEW i \in StagedAt(acc.ops, e) PROVE FALSE
                    OBVIOUS
                <4>1. i \in 1..Len(acc.ops) /\ acc.ops[i].id = e
                    BY <1>2 DEF StagedAt
                <4>2. e \in JoinersOf(T, acc.ops[i].slot.from, acc.ops[i].slot.to) /\ acc.ops[i] \in ToSet(acc.ops)
                    BY <1>3, <1>4, <4>1
                <4>3. acc.ops[i].slot.from = f /\ acc.ops[i].slot.to = t
                    <5> HIDE DEF f, t
                    <5>1. QED
                        BY <2>4, <4>2 DEF JoinersOf, Joins
                <4>4. QED
                    BY <1>7, <4>2, <4>3
            <3>2. e \in EdgeIds /\ Opinion(T, "e", e) = Opinion(S, "e", e)
                BY <1>1, <2>4, <3>1 DEF LastSays, JoinersOf
            <3> HIDE DEF f, t
            <3>3. QED
                BY <2>4, <3>2 DEF JoinersOf
        <2> HIDE DEF f, t
        <2>5. JoinersOf(S, f, t) = JoinersOf(T, f, t)
            BY <2>3, <2>4
        <2>6. QED
            BY <1>5, <1>7, <2>1, <2>2, <2>5 DEF f, t
    <1>8. QED
        BY <1>6, <1>7

\* An edge that joins nodes has an id that was given out.
LEMMA JoinedIsOld ==
    ASSUME NEW T, NEW nodes, NEW edges \in Nat, Good(T, nodes, edges), NEW e \in EdgeIds, IsLive(Opinion(T, "e", e))
    PROVE  e < edges
    <1> SUFFICES ASSUME ~(e < edges) PROVE FALSE
        OBVIOUS
    <1>1. e >= edges
        BY GraphConstantsAssumption DEF EdgeIds
    <1>2. \A i \in DOMAIN T : T[i].e[e] = Absent
        BY <1>1 DEF Good, IdsFresh
    <1>3. Opinion(T, "e", e) = Absent
        BY <1>2 DEF Opinion
    <1>4. QED
        BY <1>3 DEF IsLive, Absent

EdgeTurnId(acc, known) == IF known = {} THEN acc.next ELSE Max(known)

\* A turn of the edge loop keeps what the batch has staged in step with the sources it leads to.
LEMMA EdgeTurn ==
    ASSUME NEW S, NEW T, NEW s, NEW nodes \in Nat, NEW acc, acc.next \in Nat \ {0},
           EdgesStaged(S, T, acc.ops, s, nodes, acc.next),
           SameEdges(Sources, S), Good(Sources, nextNode, nextEdge), unique \in BOOLEAN,
           NEW input, input.from \in 1..(nodes - 1), input.to \in 1..(nodes - 1),
           NEW known, known = EdgeHolder(acc, input), NEW new, new = StageEdge(acc, input, known),
           new.next <= MaxEdge + 1,
           NEW U, Applies(T, U, UpsertEdgeOp(EdgeTurnId(acc, known), input), s)
    PROVE  EdgesStaged(S, U, new.ops, s, nodes, new.next)
    <1> DEFINE f == input.from
               t == input.to
               id == EdgeTurnId(acc, known)
               op == UpsertEdgeOp(id, input)
    <1>1. /\ new.next = IF known = {} THEN acc.next + 1 ELSE acc.next
          /\ new.ops = Append(acc.ops, op)
        BY DEF StageEdge, EdgeTurnId
    <1>2. op = Op("e", id, EdgeRecord(f, t, input.valid))
        BY DEF UpsertEdgeOp
    <1>3. Good(T, nodes, acc.next)
        BY DEF EdgesStaged
    <1>4. ASSUME unique PROVE known = JoinersOf(T, f, t)
        <2>1. EdgeHolder(acc, input) = JoinersOf(T, input.from, input.to)
            BY <1>4, EdgeHolderIs
        <2>2. QED
            BY <2>1
    <1>5. ~unique => known = {}
        BY DEF EdgeHolder
    <1> HIDE DEF op, f, t
    <1>6. CASE known = {}
        <2>1. id = acc.next /\ new.next = acc.next + 1 /\ id \in EdgeIds /\ id >= acc.next /\ id < new.next
            BY <1>1, <1>6, GraphConstantsAssumption DEF EdgeTurnId, EdgeIds
        <2>2. unique => \A e \in EdgeIds : e # id => ~Joins(Opinion(T, "e", e), f, t)
            BY <1>4, <1>6 DEF JoinersOf
        <2>3. new.next \in Nat /\ acc.next <= new.next
            BY <2>1
        <2>4. Applies(T, U, op, s)
            BY DEF op
        <2>5. f \in 1..(nodes - 1) /\ t \in 1..(nodes - 1)
            BY DEF f, t
        <2> HIDE DEF id
        <2>6. EdgesStaged(S, U, Append(acc.ops, op), s, nodes, new.next)
            BY <1>2, <2>1, <2>2, <2>3, <2>4, <2>5, StageEdgeOp
        <2>7. QED
            BY <1>1, <2>6
    <1>7. CASE known # {}
        <2>1. unique /\ known = JoinersOf(T, f, t)
            BY <1>4, <1>5, <1>7
        <2>2. id \in known
            <3>1. known \in SUBSET (1..MaxEdge) /\ MaxEdge \in Nat
                BY <2>1, GraphConstantsAssumption DEF JoinersOf, EdgeIds
            <3>2. Max(known) \in known
                BY <1>7, <3>1, MaxIs
            <3>3. QED
                BY <1>7, <3>2 DEF EdgeTurnId
        <2> HIDE DEF id
        <2>3. id \in EdgeIds /\ Joins(Opinion(T, "e", id), f, t)
            BY <2>1, <2>2 DEF JoinersOf
        <2>4. \A e \in EdgeIds : e # id => ~Joins(Opinion(T, "e", e), f, t)
            <3>1. \A e \in JoinersOf(T, f, t) : e = id
                BY <1>3, <2>1, <2>2, OneJoiner
            <3>2. QED
                BY <3>1 DEF JoinersOf
        <2>5. id < acc.next
            BY <1>3, <2>3, JoinedIsOld DEF Joins
        <2>6. new.next = acc.next /\ acc.next <= acc.next
            BY <1>1, <1>7
        <2>7. Applies(T, U, op, s)
            BY DEF op, id
        <2>8. f \in 1..(nodes - 1) /\ t \in 1..(nodes - 1)
            BY DEF f, t
        <2>9. EdgesStaged(S, U, Append(acc.ops, op), s, nodes, acc.next)
            BY <1>2, <2>3, <2>4, <2>5, <2>6, <2>7, <2>8, StageEdgeOp
        <2>10. QED
            BY <1>1, <2>6, <2>9
    <1>8. QED
        BY <1>6, <1>7

EdgeEntries(inputs, nodes) ==
    IsSeq(inputs) /\ \A i \in 1..Len(inputs) : inputs[i].from \in 1..(nodes - 1) /\ inputs[i].to \in 1..(nodes - 1)

\* Nothing staged yet.
LEMMA NoEdgeStaged ==
    ASSUME NEW S, NEW s, NEW nodes, NEW edges, Good(S, nodes, edges)
    PROVE  EdgesStaged(S, S, <<>>, s, nodes, edges)
    <1>1. IsSeq(<<>>) /\ Len(<<>>) = 0
        BY EmptyIs
    <1>2. \A id : StagedAt(<<>>, id) = {}
        BY DEF StagedAt
    <1>3. LastSays(S, S, <<>>, s)
        BY <1>2 DEF LastSays
    <1>4. EndsKept(S, S) /\ SameNodes(S, S)
        BY DEF EndsKept, SameNodes, Joins
    <1>5. \A i \in 1..Len(<<>>) : EdgeOpOf(<<>>[i], S)
        BY <1>1
    <1>6. QED
        BY <1>1, <1>3, <1>4, <1>5 DEF EdgesStaged

\* The operations of a batch of edges.
LEMMA EdgesBatch ==
    ASSUME NEW source, NEW rest, IsSeq(rest), NEW nodes \in Nat, Good(With(source, rest), nodes, nextEdge),
           SameEdges(Sources, With(source, rest)), Good(Sources, nextNode, nextEdge),
           nextEdge \in Nat \ {0}, unique \in BOOLEAN, NEW inputs, EdgeEntries(inputs, nodes), NEW s,
           NEW acc, acc = EdgeRecords(inputs), acc.next <= MaxEdge + 1
    PROVE  /\ acc.next \in Nat \ {0} /\ nextEdge <= acc.next
           /\ EdgesStaged(With(source, rest), With(ApplyOps(source, acc.ops, s), rest), acc.ops, s, nodes, acc.next)
    <1> DEFINE r == EdgeLoop(inputs)
               S == With(source, rest)
               T(k) == With(ApplyOps(source, r[k].ops, s), rest)
               Shape(k) == r[k].next \in Nat \ {0} /\ nextEdge <= r[k].next
               Staged(k) == r[k].next <= MaxEdge + 1 => EdgesStaged(S, T(k), r[k].ops, s, nodes, r[k].next)
               K == {k \in Nat : k <= Len(inputs) => Shape(k) /\ Staged(k)}
    <1>1. Len(inputs) \in Nat
        BY SeqIs DEF EdgeEntries
    <1>2. /\ r[0] = [next |-> nextEdge, ops |-> <<>>]
          /\ \A k \in 1..Len(inputs) : r[k] = StageEdge(r[k - 1], inputs[k], EdgeHolder(r[k - 1], inputs[k]))
        BY <1>1, EdgeLoopTurns
    <1> HIDE DEF r
    <1>3. 0 \in K
        <2>1. r[0].next = nextEdge /\ r[0].ops = <<>>
            BY <1>2
        <2>2. ApplyOps(source, <<>>, s) = source
            BY ApplyNone
        <2>3. T(0) = S
            BY <2>1, <2>2
        <2> HIDE DEF T, S
        <2>4. EdgesStaged(S, S, <<>>, s, nodes, nextEdge)
            BY NoEdgeStaged DEF S
        <2>5. QED
            BY <2>1, <2>3, <2>4
    <1>4. ASSUME NEW k \in K PROVE k + 1 \in K
        <2> SUFFICES ASSUME k + 1 <= Len(inputs) PROVE Shape(k + 1) /\ Staged(k + 1)
            OBVIOUS
        <2> DEFINE a == r[k]
                   b == r[k + 1]
                   input == inputs[k + 1]
                   known == EdgeHolder(a, input)
                   op == UpsertEdgeOp(EdgeTurnId(a, known), input)
        <2>1. k + 1 \in 1..Len(inputs) /\ (k + 1) - 1 = k /\ k \in Nat
            BY <1>1
        <2>2. Shape(k) /\ Staged(k)
            BY <1>1, <2>1
        <2>3. b = StageEdge(a, input, known)
            BY <1>2, <2>1
        <2>4. input.from \in 1..(nodes - 1) /\ input.to \in 1..(nodes - 1)
            BY <2>1 DEF EdgeEntries
        <2> HIDE DEF known, input
        <2>5. b.next = (IF known = {} THEN a.next + 1 ELSE a.next) /\ b.ops = Append(a.ops, op)
            <3> HIDE DEF a, b
            <3>1. QED
                BY <2>3 DEF StageEdge, EdgeTurnId
        <2> HIDE DEF op
        <2>6. Shape(k + 1)
            BY <2>2, <2>5
        <2>7. Staged(k + 1)
            <3> SUFFICES ASSUME b.next <= MaxEdge + 1 PROVE EdgesStaged(S, T(k + 1), b.ops, s, nodes, b.next)
                OBVIOUS
            <3>1. a.next \in Nat \ {0} /\ a.next <= MaxEdge + 1
                BY <2>2, <2>5, GraphConstantsAssumption
            <3>2. EdgesStaged(S, T(k), a.ops, s, nodes, a.next)
                BY <2>2, <3>1
            <3>3. IsSeq(a.ops)
                BY <3>2 DEF EdgesStaged
            <3>4. Applies(T(k), T(k + 1), op, s)
                <4>1. ApplyOps(source, b.ops, s) = ApplyOp(ApplyOps(source, a.ops, s), op, s)
                    BY <2>5, <3>3, ApplyAppend
                <4>2. QED
                    BY <4>1, WithApplies
            <3> HIDE DEF T, S, a, b
            <3>5. SameEdges(Sources, S)
                BY DEF S
            <3>6. QED
                BY <2>3, <2>4, <3>1, <3>2, <3>4, <3>5, EdgeTurn DEF known, op
        <2>8. QED
            BY <2>6, <2>7
    <1>5. K = Nat
        <2> HIDE DEF K
        <2>1. K \in SUBSET Nat
            BY DEF K
        <2>2. QED
            BY <1>3, <1>4, <2>1, Induction
    <1>6. Shape(Len(inputs)) /\ Staged(Len(inputs))
        BY <1>1, <1>5
    <1>7. acc = r[Len(inputs)]
        BY DEF EdgeRecords, r
    <1>8. QED
        BY <1>6, <1>7

\* An invalidation keeps the ends of the edge's newest version, staged or committed.
LEMMA InvalidationTurn ==
    ASSUME NEW source, NEW rest, IsSeq(rest), NEW S, SameEdges(Sources, S), NEW ops, NEW s,
           NEW nodes \in Nat, NEW edges \in Nat,
           EdgesStaged(S, With(ApplyOps(source, ops, s), rest), ops, s, nodes, edges),
           unique \in BOOLEAN, NEW id \in EdgeIds, NEW new, new = StageInvalidation(ops, id)
    PROVE  EdgesStaged(S, With(ApplyOps(source, new, s), rest), new, s, nodes, edges)
    <1> DEFINE T == With(ApplyOps(source, ops, s), rest)
               at == StagedAt(ops, id)
               current == IF at = {} THEN Opinion(Sources, "e", id) ELSE ops[Max(at)].slot
               op == Op("e", id, Invalidated(current))
               now == Opinion(T, "e", id)
    <1>1. /\ IsSeq(ops) /\ (\A i \in 1..Len(ops) : EdgeOpOf(ops[i], T)) /\ Good(T, nodes, edges)
          /\ LastSays(S, T, ops, s)
        BY DEF EdgesStaged
    <1>2. new = IF IsLive(current) THEN Append(ops, op) ELSE ops
        BY DEF StageInvalidation
    <1> HIDE DEF T
    <1>3. IsLive(current) => Joins(now, current.from, current.to)
        <2>1. CASE at = {}
            <3>1. now = current
                BY <1>1, <2>1 DEF LastSays, SameEdges
            <3>2. QED
                BY <3>1 DEF Joins
        <2>2. CASE at # {}
            <3>1. now = Stamped(ops[Max(at)].slot, s) /\ current = ops[Max(at)].slot
                BY <1>1, <2>2 DEF LastSays
            <3>2. Max(at) \in 1..Len(ops)
                <4>1. Len(ops) \in Nat /\ at \in SUBSET (1..Len(ops))
                    BY <1>1, SeqIs DEF StagedAt
                <4>2. QED
                    BY <2>2, <4>1, MaxIs
            <3>3. PICK x, f, t, v : x \in EdgeIds /\ ops[Max(at)] = Op("e", x, EdgeRecord(f, t, v))
                BY <1>1, <3>2 DEF EdgeOpOf
            <3> HIDE DEF at, current, now
            <3>4. current = EdgeRecord(f, t, v)
                BY <3>1, <3>3 DEF Op
            <3>5. now = Stamped(EdgeRecord(f, t, v), s)
                BY <3>1, <3>4
            <3>6. IsLive(now) /\ now.from = f /\ now.to = t
                BY <3>5, StampedEdge
            <3>7. current.from = f /\ current.to = t
                BY <3>4 DEF EdgeRecord
            <3>8. QED
                BY <3>6, <3>7 DEF Joins
        <2>3. QED
            BY <2>1, <2>2
    <1> HIDE DEF at, current
    <1>4. CASE ~IsLive(current)
        BY <1>2, <1>4
    <1>5. CASE IsLive(current)
        <2> DEFINE f == current.from
                   t == current.to
                   U == With(ApplyOps(source, new, s), rest)
        <2>1. Joins(Opinion(T, "e", id), f, t)
            BY <1>3, <1>5
        <2>2. f \in 1..(nodes - 1) /\ t \in 1..(nodes - 1)
            <3>1. DOMAIN T \subseteq Nat /\ IsLive(Opinion(T, "e", id))
                BY <1>1, <2>1 DEF Good, Joins
            <3>2. PICK i \in DOMAIN T : Opinion(T, "e", id) = T[i].e[id]
                BY <3>1, LiveDecided
            <3>3. IsLive(T[i].e[id]) /\ T[i].e[id].from = f /\ T[i].e[id].to = t
                BY <2>1, <3>2 DEF Joins
            <3> HIDE DEF f, t
            <3>4. QED
                BY <1>1, <3>3 DEF Good, IdsFresh
        <2>3. op = Op("e", id, EdgeRecord(f, t, FALSE))
            BY DEF Invalidated
        <2>4. new = Append(ops, op)
            BY <1>2, <1>5
        <2> HIDE DEF op, f, t
        <2>5. Applies(T, U, op, s)
            <3>1. ApplyOps(source, new, s) = ApplyOp(ApplyOps(source, ops, s), op, s)
                BY <1>1, <2>4, ApplyAppend
            <3>2. QED
                BY <3>1, WithApplies DEF T
        <2>6. ASSUME unique PROVE \A e \in EdgeIds : e # id => ~Joins(Opinion(T, "e", e), f, t)
            <3>1. id \in JoinersOf(T, f, t)
                BY <2>1 DEF JoinersOf
            <3>2. \A e \in JoinersOf(T, f, t) : e = id
                BY <1>1, <2>6, <3>1, OneJoiner
            <3>3. QED
                BY <3>2 DEF JoinersOf
        <2>7. id < edges
            BY <1>1, <2>1, JoinedIsOld DEF Joins
        <2> HIDE DEF U
        <2>8. EdgesStaged(S, T, ops, s, nodes, edges) /\ edges <= edges
            BY DEF T
        <2>9. EdgesStaged(S, U, Append(ops, op), s, nodes, edges)
            BY <2>1, <2>2, <2>3, <2>5, <2>6, <2>7, <2>8, StageEdgeOp
        <2>10. QED
            BY <2>4, <2>9 DEF U
    <1>6. QED
        BY <1>4, <1>5

\* So do all the invalidations of a patch.
LEMMA Invalidations ==
    ASSUME NEW source, NEW rest, IsSeq(rest), NEW S, SameEdges(Sources, S), NEW ops, NEW s,
           NEW nodes \in Nat, NEW edges \in Nat,
           EdgesStaged(S, With(ApplyOps(source, ops, s), rest), ops, s, nodes, edges),
           unique \in BOOLEAN, NEW ids, IsSeq(ids), \A i \in 1..Len(ids) : ids[i] \in EdgeIds,
           NEW new, new = InvalidateLoop(ops, ids)[Len(ids)]
    PROVE  EdgesStaged(S, With(ApplyOps(source, new, s), rest), new, s, nodes, edges)
    <1> DEFINE r == InvalidateLoop(ops, ids)
               P(k) == EdgesStaged(S, With(ApplyOps(source, r[k], s), rest), r[k], s, nodes, edges)
               K == {k \in Nat : k <= Len(ids) => P(k)}
    <1>1. Len(ids) \in Nat
        BY SeqIs
    <1>2. r[0] = ops /\ \A k \in 1..Len(ids) : r[k] = StageInvalidation(r[k - 1], ids[k])
        BY <1>1, InvalidateLoopTurns
    <1> HIDE DEF r
    <1>3. 0 \in K
        BY <1>2
    <1>4. ASSUME NEW k \in K PROVE k + 1 \in K
        <2> SUFFICES ASSUME k + 1 <= Len(ids) PROVE P(k + 1)
            OBVIOUS
        <2>1. k + 1 \in 1..Len(ids) /\ (k + 1) - 1 = k /\ k \in Nat
            BY <1>1
        <2>2. P(k)
            BY <1>1, <2>1
        <2>3. r[k + 1] = StageInvalidation(r[k], ids[k + 1]) /\ ids[k + 1] \in EdgeIds
            BY <1>2, <2>1
        <2>4. QED
            BY <2>2, <2>3, InvalidationTurn
    <1>5. K = Nat
        <2> HIDE DEF K
        <2>1. K \in SUBSET Nat
            BY DEF K
        <2>2. QED
            BY <1>3, <1>4, <2>1, Induction
    <1>6. P(Len(ids))
        BY <1>1, <1>5
    <1>7. QED
        BY <1>6 DEF r

-----------------------------------------------------------------------------
(* Plans *)

Older == frozen \o segments

\* The part of the invariant that plans start from.
StoreOk ==
    /\ nextNode \in Nat \ {0} /\ nextNode <= MaxNode + 1
    /\ nextEdge \in Nat \ {0} /\ nextEdge <= MaxEdge + 1
    /\ unique \in BOOLEAN
    /\ IsSeq(frozen) /\ IsSeq(segments)
    /\ Good(Sources, nextNode, nextEdge)

\* The sources are the active memtable and the older ones.
Chained(a, f, g) == IsSeq(f \o g) /\ <<a>> \o f \o g = With(a, f \o g)

\* Concatenation is associative for the lists of the store.
LEMMA SourcesAre ==
    ASSUME NEW a, NEW f, IsSeq(f), NEW g, IsSeq(g)
    PROVE  Chained(a, f, g)
    <1> DEFINE p == <<a>> \o f
               q == p \o g
               o == f \o g
               w == With(a, o)
    <1>1. Len(f) \in Nat /\ Len(g) \in Nat
        BY SeqIs
    <1>2. IsSeq(o) /\ Len(o) = Len(f) + Len(g) /\ (\A i \in 1..Len(f) : o[i] = f[i]) /\ (\A i \in 1..Len(g) : o[Len(f) + i] = g[i])
        BY ConcatIs
    <1>3. /\ IsSeq(p) /\ Len(p) = Len(f) + 1 /\ p[1] = a /\ \A i \in 2..(Len(f) + 1) : p[i] = f[i - 1]
        BY WithIs DEF With
    <1> HIDE DEF p, o
    <1>4. IsSeq(q) /\ Len(q) = Len(p) + Len(g) /\ (\A i \in 1..Len(p) : q[i] = p[i]) /\ (\A i \in 1..Len(g) : q[Len(p) + i] = g[i])
        <2>1. IsSeq(p)
            BY <1>3
        <2>2. QED
            BY <2>1, ConcatIs
    <1>5. IsSeq(w) /\ Len(w) = Len(o) + 1 /\ w[1] = a /\ \A i \in 2..(Len(o) + 1) : w[i] = o[i - 1]
        <2>1. IsSeq(o)
            BY <1>2
        <2>2. QED
            BY <2>1, WithIs
    <1> HIDE DEF q, w
    <1>6. Len(q) = Len(w)
        BY <1>1, <1>2, <1>3, <1>4, <1>5
    <1>7. ASSUME NEW i \in 1..Len(q) PROVE q[i] = w[i]
        <2>1. CASE i = 1
            BY <1>1, <1>3, <1>4, <1>5, <2>1
        <2>2. CASE i \in 2..(Len(f) + 1)
            <3>1. q[i] = f[i - 1]
                BY <1>1, <1>3, <1>4, <2>2
            <3>2. i - 1 \in 1..Len(f) /\ i \in 2..(Len(o) + 1)
                BY <1>1, <1>2, <2>2
            <3>3. QED
                BY <1>2, <1>5, <3>1, <3>2
        <2>3. CASE i \in (Len(f) + 2)..(Len(f) + Len(g) + 1)
            <3> DEFINE k == i - (Len(f) + 1)
            <3>1. k \in 1..Len(g) /\ i = Len(p) + k /\ i - 1 = Len(f) + k /\ i \in 2..(Len(o) + 1)
                BY <1>1, <1>2, <1>3, <2>3
            <3> HIDE DEF k
            <3>2. q[i] = g[k] /\ w[i] = o[i - 1] /\ o[i - 1] = g[k]
                BY <1>2, <1>4, <1>5, <3>1
            <3>3. QED
                BY <3>2
        <2>4. QED
            BY <1>1, <1>3, <1>4, <2>1, <2>2, <2>3
    <1>8. q = w
        BY <1>4, <1>5, <1>6, <1>7, SameSeq
    <1>9. QED
        BY <1>2, <1>8 DEF q, p, w, o, Chained

\* The store's sources begin with the active memtable.
LEMMA SourcesOpen ==
    ASSUME StoreOk
    PROVE  IsSeq(Older) /\ Sources = With(active, Older) /\ 1 \in DOMAIN Sources /\ Len(frozen) \in Nat
    <1>1. IsSeq(frozen) /\ IsSeq(segments)
        BY DEF StoreOk
    <1>2. IsSeq(Older) /\ Sources = With(active, Older)
        <2>1. Chained(active, frozen, segments)
            BY <1>1, SourcesAre
        <2>2. QED
            BY <2>1 DEF Older, Sources, Chained
    <1>3. Len(frozen) \in Nat
        BY <1>1, SeqIs
    <1>4. 1 \in DOMAIN With(active, Older)
        BY <1>2, WithIs
    <1>5. QED
        BY <1>2, <1>3, <1>4

\* A node that is live in S and deleted in T has no valid edge to a live node in T.
Cascades(S, T) ==
    \A n \in NodeIds : IsLive(Opinion(S, "n", n)) /\ IsDead(Opinion(T, "n", n)) =>
        \A e \in EdgeIds : ToLive(T, e, n) => ~Opinion(T, "e", e).valid

\* A node that is live in S is not deleted in T.
NoneDies(S, T) == \A n \in NodeIds : IsLive(Opinion(S, "n", n)) => ~IsDead(Opinion(T, "n", n))

\* A plan leads to sources T that keep the invariant.
PlanOk(plan, s) ==
    LET T == With(ApplyOps(active, plan.ops, s), Older)
    IN  /\ plan.nodes \in Nat \ {0} /\ plan.edges \in Nat \ {0}
        /\ Good(T, plan.nodes, plan.edges)
        /\ Cascades(Sources, T) /\ NoneReturns(Sources, T)
        /\ nextNode <= plan.nodes /\ OpsOk(plan.ops)

\* A slot is not both a record and a tombstone.
LEMMA NotLiveAndDead ==
    ASSUME NEW slot PROVE ~(IsLive(slot) /\ IsDead(slot))
    BY DEF IsLive, IsDead

\* A plan of one node record.
LEMMA NodePlan ==
    ASSUME StoreOk, NEW s, NEW plan, NEW id \in NodeIds, NEW labels, NEW key, NEW low, NEW more \in Nat,
           plan \in Plan(<<Op("n", id, NodeRecord(labels, key, low))>>, more, nextEdge),
           nextNode <= more, id < more, IsLive(Opinion(Sources, "n", id)) \/ id >= nextNode,
           \A l \in labels : \A n \in NodeIds : n # id => ~Holds(Opinion(Sources, "n", n), l, key)
    PROVE  PlanOk(plan, s)
    <1> DEFINE rec == NodeRecord(labels, key, low)
               op == Op("n", id, rec)
               T == With(ApplyOps(active, plan.ops, s), Older)
               slot == Stamped(rec, s)
    <1>1. plan.ops = <<op>> /\ plan.nodes = more /\ plan.edges = nextEdge
        BY DEF Plan
    <1>2. /\ nextNode \in Nat \ {0} /\ nextEdge \in Nat \ {0} /\ Good(Sources, nextNode, nextEdge)
        BY DEF StoreOk
    <1>3. IsSeq(Older) /\ Sources = With(active, Older)
        BY SourcesOpen
    <1> HIDE DEF op
    <1>4. Applies(Sources, T, op, s)
        <2>1. ApplyOps(active, plan.ops, s) = ApplyOp(active, op, s)
            BY <1>1, ApplyOne
        <2>2. Applies(With(active, Older), With(ApplyOp(active, op, s), Older), op, s)
            BY <1>3, WithApplies
        <2>3. QED
            BY <1>3, <2>1, <2>2
    <1> HIDE DEF T
    <1>5. Good(T, more, nextEdge)
        <2>1. Applies(Sources, T, Op("n", id, NodeRecord(labels, key, low)), s)
            BY <1>4 DEF op
        <2>2. nextNode \in Nat
            BY <1>2
        <2>3. QED
            BY <1>2, <2>1, <2>2, UpsertNodeGood
    <1>6. IsLive(slot)
        BY StampedNode
    <1>7. NodeRevised(Sources, T, id, slot)
        <2>1. Stamped(rec, s) # Absent /\ Applies(Sources, T, Op("n", id, rec), s)
            BY <1>4, <1>6 DEF IsLive, Absent, op
        <2> HIDE DEF rec
        <2>2. QED
            BY <1>2, <2>1, NodeOpOpinion
    <1> HIDE DEF slot
    <1>8. NoneDies(Sources, T)
        BY <1>6, <1>7, NotLiveAndDead DEF NodeRevised, NoneDies
    <1>9. Cascades(Sources, T)
        BY <1>8 DEF Cascades, NoneDies
    <1>10. NoneReturns(Sources, T)
        BY <1>7 DEF NodeRevised, NoneReturns
    <1>11. OpsOk(plan.ops)
        <2>1. NodeOpOk(op)
            BY DEF NodeOpOk, op
        <2>2. QED
            BY <1>1, <2>1, OneOpOk
    <1>12. QED
        BY <1>1, <1>2, <1>5, <1>9, <1>10, <1>11 DEF PlanOk, T

\* A plan of one edge record.
LEMMA EdgePlan ==
    ASSUME StoreOk, NEW s, NEW plan, NEW id \in EdgeIds, NEW from \in 1..(nextNode - 1), NEW to \in 1..(nextNode - 1),
           NEW valid, NEW more \in Nat,
           plan \in Plan(<<Op("e", id, EdgeRecord(from, to, valid))>>, nextNode, more),
           nextEdge <= more, id < more,
           Joins(Opinion(Sources, "e", id), from, to) \/ id >= nextEdge,
           unique => \A e \in EdgeIds : e # id => ~Joins(Opinion(Sources, "e", e), from, to)
    PROVE  PlanOk(plan, s)
    <1> DEFINE rec == EdgeRecord(from, to, valid)
               op == Op("e", id, rec)
               T == With(ApplyOps(active, plan.ops, s), Older)
               slot == Stamped(rec, s)
    <1>1. plan.ops = <<op>> /\ plan.nodes = nextNode /\ plan.edges = more
        BY DEF Plan
    <1>2. /\ nextNode \in Nat \ {0} /\ nextEdge \in Nat \ {0} /\ Good(Sources, nextNode, nextEdge)
        BY DEF StoreOk
    <1>3. IsSeq(Older) /\ Sources = With(active, Older)
        BY SourcesOpen
    <1> HIDE DEF op
    <1>4. Applies(Sources, T, op, s)
        <2>1. ApplyOps(active, plan.ops, s) = ApplyOp(active, op, s)
            BY <1>1, ApplyOne
        <2>2. Applies(With(active, Older), With(ApplyOp(active, op, s), Older), op, s)
            BY <1>3, WithApplies
        <2>3. QED
            BY <1>3, <2>1, <2>2
    <1> HIDE DEF T
    <1>5. Good(T, nextNode, more)
        <2>1. Applies(Sources, T, Op("e", id, EdgeRecord(from, to, valid)), s)
            BY <1>4 DEF op
        <2>2. nextNode \in Nat /\ nextEdge \in Nat
            BY <1>2
        <2>3. QED
            BY <1>2, <2>1, <2>2, UpsertEdgeGood
    <1>6. IsLive(slot)
        BY StampedEdge
    <1>7. EdgeRevised(Sources, T, id, slot)
        <2>1. Stamped(rec, s) # Absent /\ Applies(Sources, T, Op("e", id, rec), s)
            BY <1>4, <1>6 DEF IsLive, Absent, op
        <2> HIDE DEF rec
        <2>2. QED
            BY <1>2, <2>1, EdgeOpOpinion
    <1> HIDE DEF slot
    <1>8. NoneDies(Sources, T)
        BY <1>7, NotLiveAndDead DEF EdgeRevised, NoneDies
    <1>9. Cascades(Sources, T)
        BY <1>8 DEF Cascades, NoneDies
    <1>10. NoneReturns(Sources, T)
        BY <1>7 DEF EdgeRevised, NoneReturns
    <1>11. OpsOk(plan.ops)
        <2>1. EdgeOpOk(op)
            BY DEF EdgeOpOk, op
        <2>2. QED
            BY <1>1, <2>1, OneOpOk
    <1>12. nextNode <= plan.nodes
        BY <1>1, <1>2
    <1>13. QED
        BY <1>1, <1>2, <1>5, <1>9, <1>10, <1>11, <1>12 DEF PlanOk, T

\* upsert_node
LEMMA UpsertNodePlan ==
    ASSUME StoreOk, NEW s, NEW input, input.labels \subseteq Labels, input.key \in Keys,
           NEW plan \in PlanUpsertNode(input), plan.nodes <= MaxNode + 1
    PROVE  PlanOk(plan, s)
    <1> DEFINE owners == UNION {Owner(l, input.key) : l \in input.labels}
               id == StagedId(NoneStaged, owners)
               more == IF owners = {} THEN nextNode + 1 ELSE nextNode
    <1>1. nextNode \in Nat \ {0} /\ Good(Sources, nextNode, nextEdge)
        BY DEF StoreOk
    <1>2. /\ NodesStaged(NoneStaged, Sources, Sources)
          /\ \A l \in Labels, k \in Keys : NodeHolder(NoneStaged, l, k) = Owner(l, k)
        BY <1>1, NothingStaged
    <1>3. owners = NodeWinners(NoneStaged, input)
        BY <1>2 DEF NodeWinners
    <1>4. NoneStaged.next = nextNode
        BY DEF NoneStaged
    <1>5. ~(Cardinality(owners) > 1) /\ plan \in Plan(<<UpsertNodeOp(id, input)>>, more, nextEdge)
        BY <1>4 DEF PlanUpsertNode, StagedId
    <1> HIDE DEF owners
    <1>6. plan.nodes = more
        BY <1>5 DEF Plan
    <1>7. owners = {} => NoneStaged.next <= MaxNode
        BY <1>1, <1>4, <1>6, GraphConstantsAssumption
    <1>8. /\ Found(NoneStaged, Sources, Sources, input, id)
          /\ owners = {} <=> Opinion(Sources, "n", id) = Absent
        BY <1>1, <1>2, <1>3, <1>5, <1>7, WinnersFound
    <1>9. ~IsLive(Absent)
        BY DEF IsLive, Absent
    <1>10. /\ id \in NodeIds /\ (IsLive(Opinion(Sources, "n", id)) \/ id >= nextNode)
           /\ \A l \in input.labels : \A n \in NodeIds : n # id => ~Holds(Opinion(Sources, "n", n), l, input.key)
        BY <1>4, <1>8 DEF Found
    <1>11. id \in NodeIds
        BY <1>8 DEF Found
    <1>12. more \in Nat /\ nextNode <= more /\ id < more
        <2>1. CASE owners = {}
            BY <1>1, <1>4, <2>1 DEF StagedId
        <2>2. CASE owners # {}
            BY <1>1, <1>4, <1>8, <1>9, <2>2 DEF Found
        <2>3. QED
            BY <2>1, <2>2
    <1> HIDE DEF id, more
    <1>13. plan \in Plan(<<Op("n", id, NodeRecord(input.labels, input.key, input.low))>>, more, nextEdge)
        BY <1>5 DEF UpsertNodeOp
    <1>14. IsLive(Opinion(Sources, "n", id)) \/ id >= nextNode
        BY <1>4, <1>8 DEF Found
    <1>15. QED
        BY <1>10, <1>11, <1>12, <1>13, <1>14, NodePlan

\* A live node was given its id.
LEMMA LiveIsOld ==
    ASSUME NEW T, NEW nodes \in Nat, NEW edges, Good(T, nodes, edges), NEW n \in NodeIds, IsLive(Opinion(T, "n", n))
    PROVE  n < nodes
    <1> SUFFICES ASSUME ~(n < nodes) PROVE FALSE
        OBVIOUS
    <1>1. n >= nodes
        BY GraphConstantsAssumption DEF NodeIds
    <1>2. \A i \in DOMAIN T : T[i].n[n] = Absent
        BY <1>1 DEF Good, IdsFresh
    <1>3. Opinion(T, "n", n) = Absent
        BY <1>2 DEF Opinion
    <1>4. QED
        BY <1>3 DEF IsLive, Absent

\* add_node_label
LEMMA AddLabelPlan ==
    ASSUME StoreOk, NEW s, NEW id \in NodeIds, NEW label, NEW plan \in PlanAddNodeLabel(id, label)
    PROVE  PlanOk(plan, s)
    <1> DEFINE current == Opinion(Sources, "n", id)
               ls == current.labels \union {label}
    <1>1. nextNode \in Nat \ {0} /\ Good(Sources, nextNode, nextEdge)
        BY DEF StoreOk
    <1>2. /\ IsLive(current) /\ Owner(label, current.key) \ {id} = {}
          /\ plan \in Plan(<<Op("n", id, NodeRecord(ls, current.key, current.low))>>, nextNode, nextEdge)
        BY DEF PlanAddNodeLabel
    <1>3. id < nextNode
        BY <1>1, <1>2, LiveIsOld
    <1>4. HoldersOf(Sources, label, current.key) \ {id} = {}
        <2>1. KeyLookup(Sources, label, current.key) = HoldersOf(Sources, label, current.key)
            BY <1>1, KeyLookupExact, GraphConstantsAssumption DEF HoldersOf
        <2>2. QED
            BY <1>2, <2>1 DEF Owner
    <1>5. ASSUME NEW l \in ls, NEW n \in NodeIds, n # id PROVE ~Holds(Opinion(Sources, "n", n), l, current.key)
        <2>1. CASE l = label
            BY <1>4, <1>5, <2>1 DEF HoldersOf
        <2>2. CASE l \in current.labels
            <3>1. id \in HoldersOf(Sources, l, current.key)
                BY <1>2, <2>2 DEF HoldersOf, Holds
            <3> HIDE DEF current
            <3>2. \A m \in HoldersOf(Sources, l, current.key) : m = id
                BY <1>1, <3>1, OneHolder
            <3>3. QED
                BY <1>5, <3>2 DEF HoldersOf
        <2>3. QED
            BY <1>5, <2>1, <2>2
    <1>6. IsLive(Opinion(Sources, "n", id)) /\ nextNode <= nextNode /\ nextNode \in Nat
        BY <1>1, <1>2
    <1> HIDE DEF current, ls
    <1>7. QED
        BY <1>2, <1>3, <1>5, <1>6, NodePlan

\* remove_node_label
LEMMA RemoveLabelPlan ==
    ASSUME StoreOk, NEW s, NEW id \in NodeIds, NEW label, NEW plan \in PlanRemoveNodeLabel(id, label)
    PROVE  PlanOk(plan, s)
    <1> DEFINE current == Opinion(Sources, "n", id)
               ls == current.labels \ {label}
    <1>1. nextNode \in Nat \ {0} /\ Good(Sources, nextNode, nextEdge)
        BY DEF StoreOk
    <1>2. /\ IsLive(current)
          /\ plan \in Plan(<<Op("n", id, NodeRecord(ls, current.key, current.low))>>, nextNode, nextEdge)
        BY DEF PlanRemoveNodeLabel
    <1>3. id < nextNode
        BY <1>1, <1>2, LiveIsOld
    <1>5. ASSUME NEW l \in ls, NEW n \in NodeIds, n # id PROVE ~Holds(Opinion(Sources, "n", n), l, current.key)
        <2>1. id \in HoldersOf(Sources, l, current.key)
            BY <1>2 DEF HoldersOf, Holds
        <2> HIDE DEF current
        <2>2. \A m \in HoldersOf(Sources, l, current.key) : m = id
            BY <1>1, <2>1, OneHolder
        <2>3. QED
            BY <1>5, <2>2 DEF HoldersOf
    <1>6. IsLive(Opinion(Sources, "n", id)) /\ nextNode <= nextNode /\ nextNode \in Nat
        BY <1>1, <1>2
    <1> HIDE DEF current, ls
    <1>7. QED
        BY <1>2, <1>3, <1>5, <1>6, NodePlan

\* upsert_edge
LEMMA UpsertEdgePlan ==
    ASSUME StoreOk, NEW s, NEW input, input.from \in 1..(nextNode - 1), input.to \in 1..(nextNode - 1),
           NEW plan \in PlanUpsertEdge(input), plan.edges <= MaxEdge + 1
    PROVE  PlanOk(plan, s)
    <1> DEFINE f == input.from
               t == input.to
               existing == IF unique THEN TripleLookup(Sources, f, t) ELSE {}
    <1>1. nextEdge \in Nat \ {0} /\ unique \in BOOLEAN /\ Good(Sources, nextNode, nextEdge)
        BY DEF StoreOk
    <1>2. ASSUME unique PROVE existing = JoinersOf(Sources, f, t)
        <2>1. TripleLookup(Sources, f, t) = JoinersOf(Sources, f, t)
            BY <1>1, <1>2, TripleLookupExact, GraphConstantsAssumption DEF JoinersOf
        <2>2. QED
            BY <1>2, <2>1
    <1>3. ~unique => existing = {}
        OBVIOUS
    <1>4. plan \in IF existing = {} THEN Plan(<<UpsertEdgeOp(nextEdge, input)>>, nextNode, nextEdge + 1)
                   ELSE Plan(<<UpsertEdgeOp(Max(existing), input)>>, nextNode, nextEdge)
        BY DEF PlanUpsertEdge
    <1>5. \A id : UpsertEdgeOp(id, input) = Op("e", id, EdgeRecord(f, t, input.valid))
        BY DEF UpsertEdgeOp
    <1>6. f \in 1..(nextNode - 1) /\ t \in 1..(nextNode - 1)
        OBVIOUS
    <1> HIDE DEF existing, f, t
    <1>7. CASE existing = {}
        <2>1. plan \in Plan(<<Op("e", nextEdge, EdgeRecord(f, t, input.valid))>>, nextNode, nextEdge + 1)
            BY <1>4, <1>5, <1>7
        <2>2. plan.edges = nextEdge + 1
            BY <2>1 DEF Plan
        <2>3. nextEdge \in EdgeIds
            BY <1>1, <2>2, GraphConstantsAssumption DEF EdgeIds
        <2>4. unique => \A e \in EdgeIds : e # nextEdge => ~Joins(Opinion(Sources, "e", e), f, t)
            BY <1>2, <1>7 DEF JoinersOf
        <2>5. nextEdge + 1 \in Nat /\ nextEdge <= nextEdge + 1 /\ nextEdge < nextEdge + 1 /\ nextEdge >= nextEdge
            BY <1>1
        <2>6. QED
            BY <1>6, <2>1, <2>3, <2>4, <2>5, EdgePlan
    <1>8. CASE existing # {}
        <2> DEFINE id == Max(existing)
        <2>1. unique /\ existing = JoinersOf(Sources, f, t)
            BY <1>2, <1>3, <1>8
        <2>2. id \in existing
            <3>1. existing \in SUBSET (1..MaxEdge) /\ MaxEdge \in Nat
                BY <2>1, GraphConstantsAssumption DEF JoinersOf, EdgeIds
            <3>2. QED
                BY <1>8, <3>1, MaxIs
        <2>3. plan \in Plan(<<Op("e", id, EdgeRecord(f, t, input.valid))>>, nextNode, nextEdge)
            BY <1>4, <1>5, <1>8
        <2> HIDE DEF id
        <2>4. id \in EdgeIds /\ Joins(Opinion(Sources, "e", id), f, t)
            BY <2>1, <2>2 DEF JoinersOf
        <2>5. \A e \in EdgeIds : e # id => ~Joins(Opinion(Sources, "e", e), f, t)
            <3>1. \A e \in JoinersOf(Sources, f, t) : e = id
                BY <1>1, <2>1, <2>2, OneJoiner
            <3>2. QED
                BY <3>1 DEF JoinersOf
        <2>6. id < nextEdge /\ nextEdge \in Nat /\ nextEdge <= nextEdge
            BY <1>1, <2>4, JoinedIsOld DEF Joins
        <2>7. QED
            BY <1>6, <2>3, <2>4, <2>5, <2>6, EdgePlan
    <1>9. QED
        BY <1>7, <1>8

\* The ends of a live edge are nodes that had an id.
LEMMA LiveEnds ==
    ASSUME NEW T, NEW nodes \in Nat, NEW edges, Good(T, nodes, edges), NEW e \in EdgeIds, IsLive(Opinion(T, "e", e))
    PROVE  Opinion(T, "e", e).from \in 1..(nodes - 1) /\ Opinion(T, "e", e).to \in 1..(nodes - 1)
    <1>1. DOMAIN T \subseteq Nat
        BY DEF Good
    <1>2. PICK i \in DOMAIN T : Opinion(T, "e", e) = T[i].e[e]
        BY <1>1, LiveDecided
    <1>3. QED
        BY <1>2 DEF Good, IdsFresh

\* invalidate_edge
LEMMA InvalidatePlan ==
    ASSUME StoreOk, NEW s, NEW id \in EdgeIds, NEW plan \in PlanInvalidateEdge(id)
    PROVE  PlanOk(plan, s)
    <1> DEFINE current == Opinion(Sources, "e", id)
               f == current.from
               t == current.to
    <1>1. nextNode \in Nat /\ nextEdge \in Nat /\ unique \in BOOLEAN /\ Good(Sources, nextNode, nextEdge)
        BY DEF StoreOk
    <1>2. IsLive(current) /\ plan \in Plan(<<Op("e", id, EdgeRecord(f, t, FALSE))>>, nextNode, nextEdge)
        BY DEF PlanInvalidateEdge, Invalidated
    <1>3. f \in 1..(nextNode - 1) /\ t \in 1..(nextNode - 1)
        BY <1>1, <1>2, LiveEnds
    <1>4. id < nextEdge /\ nextEdge <= nextEdge
        BY <1>1, <1>2, JoinedIsOld
    <1>5. Joins(Opinion(Sources, "e", id), f, t)
        BY <1>2 DEF Joins
    <1> HIDE DEF f, t
    <1>6. ASSUME unique PROVE \A e \in EdgeIds : e # id => ~Joins(Opinion(Sources, "e", e), f, t)
        <2>1. id \in JoinersOf(Sources, f, t)
            BY <1>5 DEF JoinersOf
        <2>2. \A e \in JoinersOf(Sources, f, t) : e = id
            BY <1>1, <1>6, <2>1, OneJoiner
        <2>3. QED
            BY <2>2 DEF JoinersOf
    <1>7. QED
        BY <1>1, <1>2, <1>3, <1>4, <1>5, <1>6, EdgePlan

-----------------------------------------------------------------------------
(* Deletions and their cascades *)

\* The edges neighbors_raw returns were given their ids, and the valid ones between live
\* nodes are among them.
LEMMA IncidentIs ==
    ASSUME StoreOk, NEW n
    PROVE  /\ IncidentNow(n) \in SUBSET EdgeIds /\ \A e \in IncidentNow(n) : e < nextEdge
           /\ n \in NodeIds /\ IsLive(Opinion(Sources, "n", n)) =>
                  \A e \in EdgeIds : ToLive(Sources, e, n) /\ Opinion(Sources, "e", e).valid => e \in IncidentNow(n)
    <1>1. /\ nextNode \in Nat /\ nextEdge \in Nat /\ Good(Sources, nextNode, nextEdge)
          /\ nextNode <= MaxNode + 1
        BY DEF StoreOk
    <1>2. 1 \in DOMAIN Sources /\ 1 + Len(frozen) \in Nat
        BY SourcesOpen
    <1> DEFINE m == 1 + Len(frozen)
    <1>3. IncidentNow(n) = NeighborsRaw(Sources, m, n)
        BY DEF IncidentNow
    <1> HIDE DEF m
    <1>4. \A e \in NeighborsRaw(Sources, m, n) : e \in EdgeIds /\ IsLive(Opinion(Sources, "e", e))
        BY <1>1, <1>2, NeighborsLive
    <1>5. \A e \in NeighborsRaw(Sources, m, n) : e < nextEdge
        BY <1>1, <1>4, JoinedIsOld
    <1>6. ASSUME n \in NodeIds, IsLive(Opinion(Sources, "n", n)), NEW e \in EdgeIds,
                 ToLive(Sources, e, n), Opinion(Sources, "e", e).valid
          PROVE  e \in NeighborsRaw(Sources, m, n)
        <2>1. MaxNode \in Nat /\ m \in Nat
            BY <1>2, GraphConstantsAssumption DEF m
        <2>2. e \in NeighborsRaw(Sources, m, n) <=> Opinion(Sources, "e", e).valid
            BY <1>1, <1>2, <1>6, <2>1, NeighborsRawExact
        <2>3. QED
            BY <1>6, <2>2
    <1>7. QED
        BY <1>3, <1>4, <1>5, <1>6

\* Deletions after records: if every valid edge of T between a deleted node and a live one is
\* deleted too, no valid edge is left there.
LEMMA DeletionsCascade ==
    ASSUME NEW S, NEW source, NEW rest, IsSeq(rest), NEW nodes \in Nat, nodes <= MaxNode + 1, NEW edges \in Nat,
           NEW T, T = With(source, rest), Good(T, nodes, edges), NoneDies(S, T),
           NEW ops, AllDelete(ops, nodes, edges), NEW s,
           \A n \in NodeIds, e \in EdgeIds :
               /\ IsLive(Opinion(S, "n", n)) /\ DeletedBy(ops, Len(ops), "n", n)
               /\ ToLive(T, e, n) /\ Opinion(T, "e", e).valid
               => DeletedBy(ops, Len(ops), "e", e),
           NEW U, U = With(ApplyOps(source, ops, s), rest)
    PROVE  /\ Good(U, nodes, edges) /\ Cascades(S, U)
           /\ \A n \in NodeIds : IsLive(Opinion(U, "n", n)) => IsLive(Opinion(T, "n", n))
    <1>1. Good(U, nodes, edges) /\ DeletedFrom(T, U, ops, Len(ops))
        BY DeletesGood
    <1>2. ASSUME NEW n \in NodeIds, IsLive(Opinion(S, "n", n)), IsDead(Opinion(U, "n", n)),
                 NEW e \in EdgeIds, ToLive(U, e, n), Opinion(U, "e", e).valid
          PROVE  FALSE
        <2> DEFINE slot == Opinion(U, "e", e)
                   m == OtherEnd(slot, n)
        <2>1. DeletedBy(ops, Len(ops), "n", n)
            BY <1>1, <1>2 DEF DeletedFrom, NoneDies
        <2>2. IsLive(slot) /\ IsLive(Opinion(U, "n", m)) /\ Touches(slot, n)
            BY <1>2 DEF ToLive, Touches
        <2>3. slot.from \in 1..(nodes - 1) /\ slot.to \in 1..(nodes - 1)
            BY <1>1, <2>2, LiveEnds
        <2>4. m \in NodeIds
            BY <2>3, GraphConstantsAssumption DEF NodeIds, OtherEnd
        <2>5. ~DeletedBy(ops, Len(ops), "e", e) /\ slot = Opinion(T, "e", e)
            BY <1>1, <2>2, NotLiveAndDead DEF DeletedFrom
        <2>6. Opinion(U, "n", m) = Opinion(T, "n", m)
            BY <1>1, <2>2, <2>4, NotLiveAndDead DEF DeletedFrom
        <2>7. ToLive(T, e, n) /\ Opinion(T, "e", e).valid
            BY <1>2, <2>2, <2>5, <2>6 DEF ToLive
        <2>8. QED
            BY <1>2, <2>1, <2>5, <2>7
    <1>3. Cascades(S, U)
        BY <1>2 DEF Cascades
    <1>4. \A n \in NodeIds : IsLive(Opinion(U, "n", n)) => IsLive(Opinion(T, "n", n))
        BY <1>1, NotLiveAndDead DEF DeletedFrom
    <1>5. QED
        BY <1>1, <1>3, <1>4

\* The operations delete the nodes of N and the edges of E.
Deletes(ops, N, E) ==
    /\ IsSeq(ops)
    /\ \A i \in 1..Len(ops) : (\E x \in N : ops[i] = Op("n", x, Dead)) \/ (\E x \in E : ops[i] = Op("e", x, Dead))
    /\ \A x \in N : DeletedBy(ops, Len(ops), "n", x)
    /\ \A x \in E : DeletedBy(ops, Len(ops), "e", x)

\* Such operations are deletions of known ids.
LEMMA DeletesAll ==
    ASSUME NEW ops, NEW N \in SUBSET NodeIds, NEW E \in SUBSET EdgeIds, Deletes(ops, N, E),
           NEW nodes, NEW edges, \A n \in N : n < nodes, \A e \in E : e < edges
    PROVE  /\ AllDelete(ops, nodes, edges) /\ \A n : DeletedBy(ops, Len(ops), "n", n) => n \in N
           /\ OpsOk(ops)
    <1>1. IsSeq(ops)
        BY DEF Deletes
    <1>2. ASSUME NEW i \in 1..Len(ops) PROVE DeleteOp(ops[i], nodes, edges)
        BY DEF Deletes, DeleteOp
    <1>3. ASSUME NEW n, DeletedBy(ops, Len(ops), "n", n) PROVE n \in N
        <2>1. PICK i \in 1..Len(ops) : ops[i] = Op("n", n, Dead)
            BY <1>3 DEF DeletedBy
        <2>2. CASE \E x \in N : ops[i] = Op("n", x, Dead)
            BY <2>1, <2>2, OpIs
        <2>3. CASE \E x \in E : ops[i] = Op("e", x, Dead)
            <3>1. PICK x \in E : ops[i] = Op("e", x, Dead)
                BY <2>3
            <3>2. "e" = "n"
                BY <2>1, <3>1, OpIs
            <3>3. QED
                BY <3>2
        <2>4. QED
            BY <2>1, <2>2, <2>3 DEF Deletes
    <1>4. OpsOk(ops)
        BY <1>1 DEF Deletes, OpsOk, NodeOpOk, EdgeOpOk
    <1>5. QED
        BY <1>1, <1>2, <1>3, <1>4 DEF AllDelete

\* Deletions in a row.
LEMMA DeletesConcat ==
    ASSUME NEW p, NEW N, NEW E, Deletes(p, N, E), NEW q, NEW M, NEW F, Deletes(q, M, F)
    PROVE  Deletes(p \o q, N \union M, E \union F)
    <1> DEFINE w == p \o q
    <1>1. IsSeq(p) /\ IsSeq(q)
        BY DEF Deletes
    <1>2. /\ IsSeq(w) /\ Len(w) = Len(p) + Len(q) /\ (\A i \in 1..Len(p) : w[i] = p[i])
          /\ (\A i \in 1..Len(q) : w[Len(p) + i] = q[i])
        BY <1>1, ConcatIs
    <1>3. Len(p) \in Nat /\ Len(q) \in Nat
        BY <1>1, SeqIs
    <1> HIDE DEF w
    <1>4. \A i \in 1..Len(p) : i \in 1..Len(w)
        BY <1>2, <1>3
    <1>5. \A i \in 1..Len(q) : Len(p) + i \in 1..Len(w)
        BY <1>2, <1>3
    <1>6. \A on, x : DeletedBy(p, Len(p), on, x) => DeletedBy(w, Len(w), on, x)
        BY <1>2, <1>4 DEF DeletedBy
    <1>7. \A on, x : DeletedBy(q, Len(q), on, x) => DeletedBy(w, Len(w), on, x)
        BY <1>2, <1>5 DEF DeletedBy
    <1>8. ASSUME NEW i \in 1..Len(w)
          PROVE  (\E x \in N \union M : w[i] = Op("n", x, Dead)) \/ (\E x \in E \union F : w[i] = Op("e", x, Dead))
        <2>1. CASE i \in 1..Len(p)
            BY <1>2, <2>1 DEF Deletes
        <2>2. CASE i \notin 1..Len(p)
            <3> DEFINE k == i - Len(p)
            <3>1. k \in 1..Len(q) /\ i = Len(p) + k
                BY <1>2, <1>3, <2>2
            <3> HIDE DEF k
            <3>2. w[i] = q[k]
                BY <1>2, <3>1
            <3>3. QED
                BY <3>1, <3>2 DEF Deletes
        <2>3. QED
            BY <2>1, <2>2
    <1>9. QED
        BY <1>2, <1>6, <1>7, <1>8 DEF Deletes, w

\* The operations for a set of ids delete it.
LEMMA DeleteOpsDelete ==
    ASSUME NEW ids, IsFiniteSet(ids)
    PROVE  Deletes(DeleteOps("n", ids), ids, {}) /\ Deletes(DeleteEdgeOps(ids), {}, ids)
    <1>1. ASSUME NEW on
          PROVE  /\ IsSeq(DeleteOps(on, ids))
                 /\ \A i \in 1..Len(DeleteOps(on, ids)) : \E x \in ids : DeleteOps(on, ids)[i] = Op(on, x, Dead)
                 /\ \A x \in ids : DeletedBy(DeleteOps(on, ids), Len(DeleteOps(on, ids)), on, x)
        BY DeleteOpsIs DEF DeletedBy
    <1>2. Deletes(DeleteOps("n", ids), ids, {})
        BY <1>1 DEF Deletes
    <1>3. Deletes(DeleteOps("e", ids), {}, ids)
        BY <1>1 DEF Deletes
    <1>4. QED
        BY <1>2, <1>3 DEF DeleteEdgeOps

\* One deletion.
LEMMA OneDeletes ==
    ASSUME NEW id
    PROVE  Deletes(<<Op("n", id, Dead)>>, {id}, {}) /\ Deletes(<<Op("e", id, Dead)>>, {}, {id})
    <1>1. ASSUME NEW on
          PROVE  /\ IsSeq(<<Op(on, id, Dead)>>) /\ Len(<<Op(on, id, Dead)>>) = 1 /\ <<Op(on, id, Dead)>>[1] = Op(on, id, Dead)
        BY TupleIs
    <1>2. ASSUME NEW on, NEW q, IsSeq(q), Len(q) = 1, q[1] = Op(on, id, Dead)
          PROVE  (\A i \in 1..Len(q) : q[i] = Op(on, id, Dead)) /\ DeletedBy(q, Len(q), on, id)
        BY <1>2 DEF DeletedBy
    <1>3. ASSUME NEW q, IsSeq(q), Len(q) = 1, q[1] = Op("n", id, Dead) PROVE Deletes(q, {id}, {})
        BY <1>2, <1>3 DEF Deletes
    <1>4. ASSUME NEW q, IsSeq(q), Len(q) = 1, q[1] = Op("e", id, Dead) PROVE Deletes(q, {}, {id})
        BY <1>2, <1>4 DEF Deletes
    <1>5. QED
        BY <1>1, <1>3, <1>4

\* Append is the concatenation of one.
LEMMA AppendConcat ==
    ASSUME NEW ops, IsSeq(ops), NEW op
    PROVE  Append(ops, op) = ops \o <<op>>
    <1>1. IsSeq(ops \o <<op>>) /\ IsSeq(Append(ops, op)) /\ Len(ops) \in Nat
        BY AppendIs, TupleIs, ConcatIs, SeqIs
    <1>2. /\ Len(ops \o <<op>>) = Len(ops) + 1 /\ Len(Append(ops, op)) = Len(ops) + 1
          /\ \A i \in 1..Len(ops) : (ops \o <<op>>)[i] = ops[i] /\ Append(ops, op)[i] = ops[i]
          /\ (ops \o <<op>>)[Len(ops) + 1] = op /\ Append(ops, op)[Len(ops) + 1] = op
        BY AppendIs, TupleIs, ConcatIs
    <1>3. \A i \in 1..(Len(ops) + 1) : Append(ops, op)[i] = (ops \o <<op>>)[i]
        BY <1>1, <1>2
    <1>4. QED
        BY <1>1, <1>2, <1>3, SameSeq

\* A plan that deletes nodes and at least their valid edges to live nodes.
LEMMA DeletePlan ==
    ASSUME StoreOk, NEW s, NEW N \in SUBSET NodeIds, NEW E \in SUBSET EdgeIds,
           \A n \in N : n < nextNode, \A e \in E : e < nextEdge,
           NEW ops, Deletes(ops, N, E), NEW plan \in Plan(ops, nextNode, nextEdge),
           \A n \in N : IsLive(Opinion(Sources, "n", n)) => IncidentNow(n) \subseteq E
    PROVE  PlanOk(plan, s)
    <1> DEFINE U == With(ApplyOps(active, plan.ops, s), Older)
    <1>1. /\ nextNode \in Nat \ {0} /\ nextEdge \in Nat \ {0} /\ Good(Sources, nextNode, nextEdge)
          /\ nextNode <= MaxNode + 1
        BY DEF StoreOk
    <1>2. IsSeq(Older) /\ Sources = With(active, Older)
        BY SourcesOpen
    <1>3. plan.ops = ops /\ plan.nodes = nextNode /\ plan.edges = nextEdge
        BY DEF Plan
    <1>4. /\ AllDelete(ops, nextNode, nextEdge) /\ \A n : DeletedBy(ops, Len(ops), "n", n) => n \in N
          /\ OpsOk(ops)
        BY DeletesAll
    <1>5. NoneDies(Sources, Sources)
        BY NotLiveAndDead DEF NoneDies
    <1>6. ASSUME NEW n \in NodeIds, NEW e \in EdgeIds,
                 IsLive(Opinion(Sources, "n", n)), DeletedBy(ops, Len(ops), "n", n),
                 ToLive(Sources, e, n), Opinion(Sources, "e", e).valid
          PROVE  DeletedBy(ops, Len(ops), "e", e)
        <2>1. e \in IncidentNow(n)
            BY <1>6, IncidentIs
        <2>2. e \in E
            BY <1>4, <1>6, <2>1
        <2>3. QED
            BY <2>2 DEF Deletes
    <1>7. U = With(ApplyOps(active, ops, s), Older) /\ nextNode \in Nat /\ nextEdge \in Nat
        BY <1>1, <1>3
    <1> HIDE DEF U
    <1>8. /\ Good(U, nextNode, nextEdge) /\ Cascades(Sources, U)
          /\ \A n \in NodeIds : IsLive(Opinion(U, "n", n)) => IsLive(Opinion(Sources, "n", n))
        BY <1>1, <1>2, <1>4, <1>5, <1>6, <1>7, DeletionsCascade
    <1>9. nextNode <= plan.nodes
        BY <1>1, <1>3
    <1>10. QED
        BY <1>1, <1>3, <1>4, <1>8, <1>9 DEF PlanOk, U, NoneReturns

\* delete_node
LEMMA DeleteNodePlan ==
    ASSUME StoreOk, NEW s, NEW id \in 1..(nextNode - 1), NEW plan \in PlanDeleteNode(id)
    PROVE  PlanOk(plan, s)
    <1> DEFINE E == IncidentNow(id)
               d == DeleteEdgeOps(E)
               ops == Append(d, Op("n", id, Dead))
    <1>1. nextNode \in Nat /\ nextNode <= MaxNode + 1
        BY DEF StoreOk
    <1>2. E \in SUBSET EdgeIds /\ \A e \in E : e < nextEdge
        BY IncidentIs
    <1>3. id \in NodeIds /\ id < nextNode
        BY <1>1, GraphConstantsAssumption DEF NodeIds
    <1>4. plan \in Plan(ops, nextNode, nextEdge)
        BY DEF PlanDeleteNode
    <1>5. Deletes(d, {}, E)
        <2>1. IsFiniteSet(E)
            BY <1>2, IdSetsFinite
        <2> HIDE DEF E
        <2>2. QED
            BY <2>1, DeleteOpsDelete
    <1>6. ops = d \o <<Op("n", id, Dead)>>
        <2>1. IsSeq(d)
            BY <1>5 DEF Deletes
        <2> HIDE DEF d
        <2>2. QED
            BY <2>1, AppendConcat
    <1> HIDE DEF ops, d, E
    <1>7. Deletes(ops, {id}, E)
        <2>1. Deletes(<<Op("n", id, Dead)>>, {id}, {})
            BY OneDeletes
        <2>2. Deletes(d \o <<Op("n", id, Dead)>>, {} \union {id}, E \union {})
            BY <1>5, <2>1, DeletesConcat
        <2>3. {} \union {id} = {id} /\ E \union {} = E
            OBVIOUS
        <2>4. QED
            BY <1>6, <2>2, <2>3
    <1>8. {id} \in SUBSET NodeIds /\ (\A n \in {id} : n < nextNode) /\ \A n \in {id} : IncidentNow(n) \subseteq E
        BY <1>3 DEF E
    <1>9. QED
        BY <1>2, <1>4, <1>7, <1>8, DeletePlan

\* delete_edge
LEMMA DeleteEdgePlan ==
    ASSUME StoreOk, NEW s, NEW id \in 1..(nextEdge - 1), NEW plan \in PlanDeleteEdge(id)
    PROVE  PlanOk(plan, s)
    <1>1. nextEdge \in Nat /\ nextEdge <= MaxEdge + 1
        BY DEF StoreOk
    <1>2. {id} \in SUBSET EdgeIds /\ \A e \in {id} : e < nextEdge
        BY <1>1, GraphConstantsAssumption DEF EdgeIds
    <1>3. Deletes(<<Op("e", id, Dead)>>, {}, {id})
        BY OneDeletes
    <1>4. plan \in Plan(<<Op("e", id, Dead)>>, nextNode, nextEdge)
        BY DEF PlanDeleteEdge
    <1>5. QED
        BY <1>2, <1>3, <1>4, DeletePlan

\* prune
LEMMA PrunePlan ==
    ASSUME StoreOk, NEW s, NEW plan \in PlanPrune
    PROVE  PlanOk(plan, s)
    <1> DEFINE N == {n \in LiveNodes(Sources) : Opinion(Sources, "n", n).low}
               E == UNION {IncidentNow(n) : n \in N}
               d == DeleteEdgeOps(E)
               c == DeleteOps("n", N)
    <1>1. nextNode \in Nat /\ Good(Sources, nextNode, nextEdge)
        BY DEF StoreOk
    <1>2. E \in SUBSET EdgeIds /\ \A e \in E : e < nextEdge
        BY IncidentIs
    <1>3. N \in SUBSET NodeIds /\ \A n \in N : n < nextNode
        BY <1>1, LiveIsOld DEF LiveNodes
    <1>4. plan \in Plan(d \o c, nextNode, nextEdge)
        BY DEF PlanPrune
    <1>5. \A n \in N : IncidentNow(n) \subseteq E
        OBVIOUS
    <1>6. IsFiniteSet(E) /\ IsFiniteSet(N)
        BY <1>2, <1>3, IdSetsFinite
    <1> HIDE DEF E, N
    <1>7. Deletes(d, {}, E) /\ Deletes(c, N, {})
        BY <1>6, DeleteOpsDelete
    <1> HIDE DEF d, c
    <1>8. Deletes(d \o c, N, E)
        <2>1. Deletes(d \o c, {} \union N, E \union {})
            BY <1>7, DeletesConcat
        <2>2. {} \union N = N /\ E \union {} = E
            OBVIOUS
        <2>3. QED
            BY <2>1, <2>2
    <1>9. QED
        BY <1>2, <1>3, <1>4, <1>5, <1>8, DeletePlan

-----------------------------------------------------------------------------
(* Batches and patches *)

\* The node records of a batch delete nothing, and give ids to new nodes only.
LEMMA NodesGrow ==
    ASSUME NEW acc, NEW S, NEW T, NodesStaged(acc, S, T)
    PROVE  NoneDies(S, T) /\ NoneReturns(S, T)
    <1>1. \A n \in NodeIds : n \in DOMAIN acc.staged =>
              IsLive(Opinion(T, "n", n)) /\ (IsLive(Opinion(S, "n", n)) \/ n >= nextNode)
        BY DEF NodesStaged, LabelsKnown
    <1>2. \A n \in NodeIds : n \notin DOMAIN acc.staged => Opinion(T, "n", n) = Opinion(S, "n", n)
        BY DEF NodesStaged, LabelsKnown
    <1>3. QED
        BY <1>1, <1>2, NotLiveAndDead DEF NoneDies, NoneReturns

\* batch_upsert_nodes
LEMMA BatchNodesPlan ==
    ASSUME StoreOk, NEW s, NEW inputs, NodeEntries(inputs), NEW plan \in PlanBatchUpsertNodes(inputs),
           plan.nodes <= MaxNode + 1
    PROVE  PlanOk(plan, s)
    <1> DEFINE acc == NodeRecords(inputs)
               T == With(ApplyOps(active, acc.ops, s), Older)
    <1>1. nextNode \in Nat \ {0} /\ nextEdge \in Nat \ {0} /\ Good(Sources, nextNode, nextEdge)
        BY DEF StoreOk
    <1>2. IsSeq(Older) /\ Sources = With(active, Older)
        BY SourcesOpen
    <1>3. ~acc.failed /\ plan.ops = acc.ops /\ plan.nodes = acc.next /\ plan.edges = nextEdge
        BY DEF PlanBatchUpsertNodes, Plan
    <1>4. acc.next <= MaxNode + 1 /\ nextEdge \in Nat
        BY <1>1, <1>3
    <1>5. NodesStaged(acc, Sources, T) /\ OpsOk(acc.ops)
        <2> DEFINE a == acc
        <2>1. a = NodeRecords(inputs) /\ ~a.failed /\ a.next <= MaxNode + 1
            BY <1>3, <1>4
        <2> HIDE DEF a
        <2>2. NodesStaged(a, Sources, With(ApplyOps(active, a.ops, s), Older)) /\ OpsOk(a.ops)
            BY <1>1, <1>2, <1>4, <2>1, NodesBatch
        <2>3. QED
            BY <2>2 DEF a
    <1> HIDE DEF acc, T
    <1>6. Good(T, acc.next, nextEdge) /\ acc.next \in Nat /\ nextNode <= acc.next
        BY <1>5 DEF NodesStaged
    <1>7. NoneDies(Sources, T) /\ NoneReturns(Sources, T)
        BY <1>5, NodesGrow
    <1>8. Cascades(Sources, T)
        BY <1>7 DEF NoneDies, Cascades
    <1>9. acc.next \in Nat \ {0}
        BY <1>1, <1>6
    <1>10. QED
        BY <1>1, <1>3, <1>5, <1>6, <1>7, <1>8, <1>9 DEF PlanOk, T

\* The edge operations of a batch.
LEMMA StagedOpsOk ==
    ASSUME NEW S, NEW T, NEW ops, NEW s, NEW nodes, NEW edges, EdgesStaged(S, T, ops, s, nodes, edges)
    PROVE  OpsOk(ops)
    BY DEF EdgesStaged, EdgeOpOf, OpsOk, EdgeOpOk

\* batch_upsert_edges
LEMMA BatchEdgesPlan ==
    ASSUME StoreOk, NEW s, NEW inputs, EdgeEntries(inputs, nextNode), NEW plan \in PlanBatchUpsertEdges(inputs),
           plan.edges <= MaxEdge + 1
    PROVE  PlanOk(plan, s)
    <1> DEFINE acc == EdgeRecords(inputs)
               T == With(ApplyOps(active, acc.ops, s), Older)
    <1>1. nextNode \in Nat \ {0} /\ nextEdge \in Nat \ {0} /\ Good(Sources, nextNode, nextEdge) /\ unique \in BOOLEAN
        BY DEF StoreOk
    <1>2. IsSeq(Older) /\ Sources = With(active, Older)
        BY SourcesOpen
    <1>3. plan.ops = acc.ops /\ plan.nodes = nextNode /\ plan.edges = acc.next
        BY DEF PlanBatchUpsertEdges, Plan
    <1>4. acc.next <= MaxEdge + 1 /\ nextNode \in Nat
        BY <1>1, <1>3
    <1>5. SameEdges(Sources, With(active, Older)) /\ Good(With(active, Older), nextNode, nextEdge)
        BY <1>1, <1>2 DEF SameEdges
    <1>6. acc.next \in Nat \ {0} /\ EdgesStaged(Sources, T, acc.ops, s, nextNode, acc.next)
        <2> DEFINE a == acc
        <2>1. a = EdgeRecords(inputs) /\ a.next <= MaxEdge + 1
            BY <1>4
        <2> HIDE DEF a
        <2>2. /\ a.next \in Nat \ {0}
              /\ EdgesStaged(With(active, Older), With(ApplyOps(active, a.ops, s), Older), a.ops, s, nextNode, a.next)
            BY <1>1, <1>2, <1>4, <1>5, <2>1, EdgesBatch
        <2>3. QED
            BY <1>2, <2>2 DEF a
    <1> HIDE DEF acc, T
    <1>7. Good(T, nextNode, acc.next) /\ SameNodes(Sources, T)
        BY <1>6 DEF EdgesStaged
    <1>8. NoneDies(Sources, T)
        BY <1>7, NotLiveAndDead DEF NoneDies, SameNodes
    <1>9. Cascades(Sources, T)
        BY <1>8 DEF NoneDies, Cascades
    <1>10. NoneReturns(Sources, T) /\ OpsOk(acc.ops)
        BY <1>6, <1>7, StagedOpsOk DEF NoneReturns, SameNodes
    <1>11. nextNode <= plan.nodes
        BY <1>1, <1>3
    <1>12. QED
        BY <1>1, <1>3, <1>6, <1>7, <1>9, <1>10, <1>11 DEF PlanOk, T

\* The deletions a patch lists, in its order.
LEMMA ListDeletes ==
    ASSUME NEW ids, IsSeq(ids)
    PROVE  Deletes([i \in DOMAIN ids |-> Op("n", ids[i], Dead)], ToSet(ids), {})
    <1> DEFINE d == [i \in DOMAIN ids |-> Op("n", ids[i], Dead)]
    <1>1. Len(ids) \in Nat /\ DOMAIN ids = 1..Len(ids)
        BY SeqIs
    <1>2. ToSet(ids) = {ids[i] : i \in 1..Len(ids)}
        BY <1>1 DEF ToSet
    <1>3. d = [i \in 1..Len(ids) |-> Op("n", ids[i], Dead)]
        BY <1>1
    <1>4. d \in Seq({Op("n", x, Dead) : x \in ToSet(ids)}) /\ Len(d) = Len(ids)
        BY <1>1, <1>2, <1>3
    <1>5. IsSeq(d)
        BY <1>4 DEF IsSeq
    <1>6. \A i \in 1..Len(d) : \E x \in ToSet(ids) : d[i] = Op("n", x, Dead)
        BY <1>2, <1>3, <1>4
    <1>7. \A x \in ToSet(ids) : \E i \in 1..Len(d) : d[i] = Op("n", x, Dead)
        BY <1>2, <1>3, <1>4
    <1> HIDE DEF d
    <1>8. QED
        BY <1>5, <1>6, <1>7 DEF Deletes, DeletedBy, d

PatchOk(patch) ==
    /\ NodeEntries(patch.nodes) /\ EdgeEntries(patch.edges, nextNode)
    /\ IsSeq(patch.invalidate) /\ \A i \in 1..Len(patch.invalidate) : patch.invalidate[i] \in EdgeIds
    /\ IsSeq(patch.deleteEdges) /\ ToSet(patch.deleteEdges) \subseteq 1..(nextEdge - 1)
    /\ IsSeq(patch.deleteNodes) /\ ToSet(patch.deleteNodes) \subseteq 1..(nextNode - 1)

\* The edges a patch adds to the cascade of a deleted node: its own.
OwnEdges(ops, n) == {op.id : op \in {o \in ToSet(ops) : Touches(o.slot, n)}}

\* The patch's own edges were given their ids.
LEMMA OwnEdgesAre ==
    ASSUME NEW S, NEW T, NEW ops, NEW s, NEW nodes, NEW edges \in Nat, EdgesStaged(S, T, ops, s, nodes, edges), NEW n
    PROVE  OwnEdges(ops, n) \subseteq EdgeIds /\ \A e \in OwnEdges(ops, n) : e < edges
    <1>1. IsSeq(ops) /\ (\A i \in 1..Len(ops) : EdgeOpOf(ops[i], T)) /\ Good(T, nodes, edges)
        BY DEF EdgesStaged
    <1>2. ToSet(ops) = {ops[i] : i \in 1..Len(ops)}
        BY <1>1, SeqIs DEF ToSet
    <1>3. ASSUME NEW op \in ToSet(ops) PROVE op.id \in EdgeIds /\ op.id < edges
        <2>1. PICK i \in 1..Len(ops) : op = ops[i]
            BY <1>2
        <2>2. PICK id, f, t, v : id \in EdgeIds /\ op = Op("e", id, EdgeRecord(f, t, v)) /\ Joins(Opinion(T, "e", id), f, t)
            BY <1>1, <2>1 DEF EdgeOpOf
        <2>3. op.id = id
            BY <2>2 DEF Op
        <2>4. id < edges
            BY <1>1, <2>2, JoinedIsOld DEF Joins
        <2>5. QED
            BY <2>2, <2>3, <2>4
    <1>4. QED
        BY <1>3 DEF OwnEdges

\* A valid edge of T between a node of the sources and a live one is a valid edge of the sources
\* or one of the patch's own.
LEMMA PatchedEdges ==
    ASSUME StoreOk, NEW acc, NEW S, NodesStaged(acc, Sources, S),
           NEW T, NEW ops, NEW s, NEW nodes, NEW edges, EdgesStaged(S, T, ops, s, nodes, edges),
           NEW n \in NodeIds, IsLive(Opinion(Sources, "n", n)), NEW e \in EdgeIds, ToLive(T, e, n),
           Opinion(T, "e", e).valid
    PROVE  e \in IncidentNow(n) \union OwnEdges(ops, n)
    <1>1. /\ IsSeq(ops) /\ (\A i \in 1..Len(ops) : EdgeOpOf(ops[i], T)) /\ LastSays(S, T, ops, s) /\ SameNodes(S, T)
        BY DEF EdgesStaged
    <1>2. Len(ops) \in Nat /\ DOMAIN ops = 1..Len(ops)
        BY <1>1, SeqIs
    <1>3. nextNode \in Nat /\ nextNode <= MaxNode + 1 /\ Good(Sources, nextNode, nextEdge)
        BY DEF StoreOk
    <1> DEFINE slot == Opinion(T, "e", e)
               m == OtherEnd(slot, n)
               at == StagedAt(ops, e)
    <1>4. CASE at = {}
        <2>1. slot = Opinion(S, "e", e) /\ Opinion(S, "e", e) = Opinion(Sources, "e", e)
            BY <1>1, <1>4 DEF LastSays, NodesStaged, SameEdges
        <2>2. Touches(slot, n) /\ IsLive(slot) /\ IsLive(Opinion(T, "n", m))
            BY DEF ToLive, Touches
        <2>3. slot.from \in 1..(nextNode - 1) /\ slot.to \in 1..(nextNode - 1)
            BY <1>3, <2>1, <2>2, LiveEnds
        <2>4. m \in NodeIds /\ ~(m >= nextNode)
            BY <1>3, <2>3, GraphConstantsAssumption DEF OtherEnd, NodeIds
        <2>5. IsLive(Opinion(S, "n", m))
            BY <1>1, <2>2, <2>4 DEF SameNodes
        <2>6. IsLive(Opinion(Sources, "n", m))
            BY <2>4, <2>5, NodesGrow DEF NoneReturns
        <2>7. ToLive(Sources, e, n) /\ Opinion(Sources, "e", e).valid
            BY <2>1, <2>2, <2>6 DEF ToLive
        <2>8. QED
            BY <2>7, IncidentIs
    <1>5. CASE at # {}
        <2>1. at \in SUBSET (1..Len(ops))
            BY <1>2 DEF StagedAt
        <2>2. Max(at) \in at
            BY <1>2, <1>5, <2>1, MaxIs
        <2> DEFINE k == Max(at)
                   op == ops[k]
        <2>3. k \in 1..Len(ops) /\ op.id = e
            BY <2>1, <2>2 DEF StagedAt
        <2>4. slot = Stamped(op.slot, s)
            BY <1>1, <1>5 DEF LastSays
        <2>5. PICK x, f, t, v : x \in EdgeIds /\ op = Op("e", x, EdgeRecord(f, t, v))
            BY <1>1, <2>3 DEF EdgeOpOf
        <2> HIDE DEF k
        <2>6. op.slot = EdgeRecord(f, t, v)
            BY <2>5 DEF Op
        <2>7. op \in ToSet(ops)
            BY <1>2, <2>3 DEF ToSet
        <2>8. Touches(slot, n)
            BY DEF ToLive
        <2> HIDE DEF op, slot
        <2>9. slot = Stamped(EdgeRecord(f, t, v), s)
            BY <2>4, <2>6
        <2>10. slot.from = f /\ slot.to = t
            BY <2>9, StampedEdge
        <2>11. n \in {f, t}
            BY <2>8, <2>10 DEF Touches
        <2>12. Touches(op.slot, n)
            BY <2>6, <2>11 DEF Touches, EdgeRecord, IsLive
        <2>13. QED
            BY <2>3, <2>7, <2>12 DEF OwnEdges
    <1>6. QED
        BY <1>4, <1>5

\* graph_patch
LEMMA PatchPlan ==
    ASSUME StoreOk, NEW s, NEW patch, PatchOk(patch), NEW plan \in PlanGraphPatch(patch),
           plan.nodes <= MaxNode + 1, plan.edges <= MaxEdge + 1
    PROVE  PlanOk(plan, s)
    <1> DEFINE acc == NodeRecords(patch.nodes)
               ecc == EdgeRecords(patch.edges)
               ops == InvalidateLoop(ecc.ops, patch.invalidate)[Len(patch.invalidate)]
               N == ToSet(patch.deleteNodes)
               E == ToSet(patch.deleteEdges) \union UNION {IncidentNow(n) \union OwnEdges(ops, n) : n \in N}
               d == DeleteEdgeOps(E)
               c == [i \in DOMAIN patch.deleteNodes |-> Op("n", patch.deleteNodes[i], Dead)]
               one == ApplyOps(active, acc.ops, s)
               two == ApplyOps(one, ops, s)
               S == With(one, Older)
               T == With(two, Older)
               U == With(ApplyOps(active, plan.ops, s), Older)
    <1>1. /\ nextNode \in Nat \ {0} /\ nextEdge \in Nat \ {0} /\ Good(Sources, nextNode, nextEdge) /\ unique \in BOOLEAN
          /\ nextNode <= MaxNode + 1 /\ nextEdge <= MaxEdge + 1
        BY DEF StoreOk
    <1>2. IsSeq(Older) /\ Sources = With(active, Older)
        BY SourcesOpen
    <1>3. ~acc.failed /\ plan \in Plan(acc.ops \o ops \o d \o c, acc.next, ecc.next)
        BY DEF PlanGraphPatch, OwnEdges
    <1>4. plan.ops = acc.ops \o ops \o d \o c /\ plan.nodes = acc.next /\ plan.edges = ecc.next
        <2> DEFINE all == acc.ops \o ops \o d \o c
        <2>1. plan \in Plan(all, acc.next, ecc.next)
            BY <1>3
        <2> HIDE DEF all, acc, ecc
        <2>2. plan.ops = all /\ plan.nodes = acc.next /\ plan.edges = ecc.next
            BY <2>1 DEF Plan
        <2>3. QED
            BY <2>2 DEF all
    <1>5. acc = NodeRecords(patch.nodes) /\ ecc = EdgeRecords(patch.edges)
        OBVIOUS
    <1> HIDE DEF acc, ecc
    <1>6. IsSeq(acc.ops) /\ OpsOk(acc.ops) /\ NodesStaged(acc, Sources, S)
        <2>1. acc.next <= MaxNode + 1 /\ nextEdge \in Nat /\ NodeEntries(patch.nodes)
            BY <1>1, <1>4 DEF PatchOk
        <2>2. QED
            BY <1>1, <1>2, <1>3, <1>5, <2>1, NodesBatch
    <1>7. acc.next \in Nat /\ nextNode <= acc.next /\ Good(S, acc.next, nextEdge) /\ SameEdges(Sources, S)
        BY <1>6 DEF NodesStaged
    <1>8. ecc.next \in Nat \ {0} /\ nextEdge <= ecc.next /\ EdgesStaged(S, With(ApplyOps(one, ecc.ops, s), Older), ecc.ops, s, acc.next, ecc.next)
        <2>1. ecc.next <= MaxEdge + 1
            BY <1>4
        <2>2. EdgeEntries(patch.edges, acc.next)
            <3>1. EdgeEntries(patch.edges, nextNode)
                BY DEF PatchOk
            <3>2. \A x \in 1..(nextNode - 1) : x \in 1..(acc.next - 1)
                BY <1>1, <1>7
            <3>3. QED
                BY <3>1, <3>2 DEF EdgeEntries
        <2> HIDE DEF one
        <2>3. QED
            BY <1>1, <1>2, <1>5, <1>7, <2>1, <2>2, EdgesBatch
    <1>9. EdgesStaged(S, T, ops, s, acc.next, ecc.next)
        <2>1. ecc.next \in Nat /\ IsSeq(patch.invalidate) /\ \A i \in 1..Len(patch.invalidate) : patch.invalidate[i] \in EdgeIds
            BY <1>8 DEF PatchOk
        <2>2. ops = InvalidateLoop(ecc.ops, patch.invalidate)[Len(patch.invalidate)]
            OBVIOUS
        <2> HIDE DEF one, S, ops
        <2>3. QED
            BY <1>1, <1>2, <1>7, <1>8, <2>1, <2>2, Invalidations
    <1> HIDE DEF ops
    <1>10. IsSeq(ops) /\ Good(T, acc.next, ecc.next) /\ SameNodes(S, T)
        BY <1>9 DEF EdgesStaged
    <1>11. NoneDies(Sources, T)
        <2>1. NoneDies(Sources, S)
            BY <1>6, NodesGrow
        <2> HIDE DEF S, T
        <2>2. QED
            BY <1>10, <2>1 DEF NoneDies, SameNodes
    <1>12. E \in SUBSET EdgeIds /\ \A e \in E : e < ecc.next
        <2>1. ASSUME NEW e \in ToSet(patch.deleteEdges) PROVE e \in EdgeIds /\ e < ecc.next
            BY <1>1, <1>8, <2>1, GraphConstantsAssumption DEF PatchOk, EdgeIds
        <2>2. ASSUME NEW n, NEW e \in IncidentNow(n) PROVE e \in EdgeIds /\ e < ecc.next
            <3>1. e \in EdgeIds /\ e < nextEdge
                BY IncidentIs
            <3>2. QED
                BY <1>1, <1>8, <3>1, GraphConstantsAssumption DEF EdgeIds
        <2>3. ASSUME NEW n, NEW e \in OwnEdges(ops, n) PROVE e \in EdgeIds /\ e < ecc.next
            BY <1>8, <1>9, <2>3, OwnEdgesAre
        <2>4. QED
            BY <2>1, <2>2, <2>3
    <1>13. N \in SUBSET NodeIds /\ \A n \in N : n < acc.next
        BY <1>1, <1>7, GraphConstantsAssumption DEF PatchOk, NodeIds
    <1>14. \A n \in N : IncidentNow(n) \union OwnEdges(ops, n) \subseteq E
        OBVIOUS
    <1>15. Deletes(c, N, {})
        BY ListDeletes DEF PatchOk
    <1>16. Deletes(d, {}, E)
        <2>1. IsFiniteSet(E)
            BY <1>12, IdSetsFinite
        <2> HIDE DEF E
        <2>2. QED
            BY <2>1, DeleteOpsDelete
    <1> HIDE DEF N, E, c, d
    <1>17. Deletes(d \o c, N, E)
        <2>1. Deletes(d \o c, {} \union N, E \union {})
            BY <1>15, <1>16, DeletesConcat
        <2>2. {} \union N = N /\ E \union {} = E
            OBVIOUS
        <2>3. QED
            BY <2>1, <2>2
    <1>18. /\ AllDelete(d \o c, acc.next, ecc.next) /\ \A n : DeletedBy(d \o c, Len(d \o c), "n", n) => n \in N
           /\ OpsOk(d \o c)
        BY <1>12, <1>13, <1>17, DeletesAll
    <1>19. ApplyOps(active, plan.ops, s) = ApplyOps(two, d \o c, s)
        <2> DEFINE x == acc.ops \o ops
                   y == x \o d
        <2>1. IsSeq(acc.ops) /\ IsSeq(ops) /\ IsSeq(d) /\ IsSeq(c)
            BY <1>6, <1>10, <1>15, <1>16 DEF Deletes
        <2>2. IsSeq(x)
            BY <2>1, ConcatIs
        <2>3. ApplyOps(active, x, s) = two
            BY <2>1, ApplyConcat
        <2> HIDE DEF x, two
        <2>4. IsSeq(y)
            BY <2>1, <2>2, ConcatIs
        <2>5. ApplyOps(active, y, s) = ApplyOps(two, d, s)
            BY <2>1, <2>2, <2>3, ApplyConcat
        <2> HIDE DEF y
        <2>6. ApplyOps(active, y \o c, s) = ApplyOps(ApplyOps(active, y, s), c, s)
            BY <2>1, <2>4, ApplyConcat
        <2>7. ApplyOps(two, d \o c, s) = ApplyOps(ApplyOps(two, d, s), c, s)
            BY <2>1, ApplyConcat
        <2>8. plan.ops = y \o c
            BY <1>4 DEF x, y
        <2>9. QED
            BY <2>5, <2>6, <2>7, <2>8
    <1>20. ASSUME NEW n \in NodeIds, NEW e \in EdgeIds,
                  IsLive(Opinion(Sources, "n", n)), DeletedBy(d \o c, Len(d \o c), "n", n),
                  ToLive(T, e, n), Opinion(T, "e", e).valid
           PROVE  DeletedBy(d \o c, Len(d \o c), "e", e)
        <2> HIDE DEF S, T
        <2>1. e \in IncidentNow(n) \union OwnEdges(ops, n)
            BY <1>6, <1>9, <1>20, PatchedEdges
        <2>2. e \in E
            BY <1>14, <1>18, <1>20, <2>1
        <2>3. QED
            BY <1>17, <2>2 DEF Deletes
    <1>21. U = With(ApplyOps(two, d \o c, s), Older) /\ T = With(two, Older)
        BY <1>19
    <1>22. acc.next <= MaxNode + 1 /\ ecc.next \in Nat
        BY <1>4, <1>8
    <1> DEFINE w == d \o c
    <1>23. /\ AllDelete(w, acc.next, ecc.next) /\ U = With(ApplyOps(two, w, s), Older)
           /\ \A n \in NodeIds, e \in EdgeIds :
                  /\ IsLive(Opinion(Sources, "n", n)) /\ DeletedBy(w, Len(w), "n", n)
                  /\ ToLive(T, e, n) /\ Opinion(T, "e", e).valid
                  => DeletedBy(w, Len(w), "e", e)
        BY <1>18, <1>20, <1>21
    <1> HIDE DEF S, T, U, w, two, one
    <1>24. /\ Good(U, acc.next, ecc.next) /\ Cascades(Sources, U)
           /\ \A n \in NodeIds : IsLive(Opinion(U, "n", n)) => IsLive(Opinion(T, "n", n))
        BY <1>2, <1>7, <1>10, <1>11, <1>21, <1>22, <1>23, DeletionsCascade
    <1>25. acc.next \in Nat \ {0}
        BY <1>1, <1>7
    <1>26. NoneReturns(Sources, U)
        <2>1. NoneReturns(Sources, S)
            BY <1>6, NodesGrow
        <2>2. QED
            BY <1>10, <1>24, <2>1 DEF NoneReturns, SameNodes
    <1>27. OpsOk(plan.ops)
        <2>1. OpsOk(acc.ops) /\ OpsOk(ops)
            BY <1>6, <1>9, StagedOpsOk
        <2>2. OpsOk(acc.ops \o ops)
            BY <2>1, OpsConcatOk
        <2>3. OpsOk(d) /\ OpsOk(c)
            BY <1>12, <1>13, <1>15, <1>16 DEF Deletes, OpsOk, NodeOpOk, EdgeOpOk
        <2>4. OpsOk(acc.ops \o ops \o d)
            BY <2>2, <2>3, OpsConcatOk
        <2>5. OpsOk(acc.ops \o ops \o d \o c)
            BY <2>3, <2>4, OpsConcatOk
        <2>6. QED
            BY <1>4, <2>5
    <1>28. QED
        BY <1>4, <1>7, <1>8, <1>24, <1>25, <1>26, <1>27 DEF PlanOk, U

-----------------------------------------------------------------------------
(* Commits *)

\* T has the slots of S.
SameSlots(S, T) ==
    /\ DOMAIN T = DOMAIN S /\ Len(T) = Len(S)
    /\ \A i \in DOMAIN S : DOMAIN T[i] = {"n", "e", "d"} /\ T[i].n = S[i].n /\ T[i].e = S[i].e

SameGraph(S, T) == \A x : Opinion(T, "n", x) = Opinion(S, "n", x) /\ Opinion(T, "e", x) = Opinion(S, "e", x)

\* The invariant and the newest versions depend on the slots only.
LEMMA SameSlotsGood ==
    ASSUME NEW S, NEW T, SameSlots(S, T), NEW nodes, NEW edges, Good(S, nodes, edges)
    PROVE  Good(T, nodes, edges) /\ SameGraph(S, T)
    <1>1. DOMAIN S \subseteq Nat /\ DOMAIN T = DOMAIN S /\ Len(T) = Len(S)
        BY DEF Good, SameSlots
    <1>2. \A i \in DOMAIN S : DOMAIN T[i] = {"n", "e", "d"} /\ T[i].n = S[i].n /\ T[i].e = S[i].e
        BY DEF SameSlots
    <1>3. \A i \in DOMAIN T : SourceOk(T[i])
        BY <1>1, <1>2 DEF Good, SourceOk
    <1>4. DeadFinal(T)
        BY <1>1, <1>2 DEF Good, DeadFinal
    <1>5. EndsFixed(T)
        BY <1>1, <1>2 DEF Good, EndsFixed
    <1>6. IdsFresh(T, nodes, edges)
        BY <1>1, <1>2 DEF Good, IdsFresh
    <1>7. KeysPassedOn(T)
        <2>1. KeysPassedOn(S)
            BY DEF Good
        <2> SUFFICES ASSUME NEW i \in DOMAIN T, NEW j \in DOMAIN T, j <= i, NEW n \in NodeIds, NEW m \in NodeIds, n # m,
                            NEW l, NEW k, Holds(T[j].n[n], l, k), Holds(T[i].n[m], l, k)
                     PROVE  \E h \in j..(i - 1) : T[h].n[m] # Absent
            BY DEF KeysPassedOn
        <2>2. Holds(S[j].n[n], l, k) /\ Holds(S[i].n[m], l, k) /\ i \in DOMAIN S /\ j \in DOMAIN S
            BY <1>1, <1>2
        <2>3. PICK h \in j..(i - 1) : S[h].n[m] # Absent
            BY <2>1, <2>2, KeyPassed
        <2>4. h \in DOMAIN S
            BY <1>1, <2>3 DEF Good
        <2>5. QED
            BY <1>2, <2>3, <2>4
    <1>8. unique => TriplesPassedOn(T)
        <2> SUFFICES ASSUME unique, NEW i \in DOMAIN T, NEW j \in DOMAIN T, j <= i, NEW d \in EdgeIds, NEW e \in EdgeIds, d # e,
                            NEW f, NEW t, Joins(T[j].e[d], f, t), Joins(T[i].e[e], f, t)
                     PROVE  \E h \in j..(i - 1) : T[h].e[e] # Absent
            BY DEF TriplesPassedOn
        <2>1. TriplesPassedOn(S)
            BY DEF Good
        <2>2. Joins(S[j].e[d], f, t) /\ Joins(S[i].e[e], f, t) /\ i \in DOMAIN S /\ j \in DOMAIN S
            BY <1>1, <1>2
        <2>3. PICK h \in j..(i - 1) : S[h].e[e] # Absent
            BY <2>1, <2>2, TriplePassed
        <2>4. h \in DOMAIN S
            BY <1>1, <2>3 DEF Good
        <2>5. QED
            BY <1>2, <2>3, <2>4
    <1>9. Good(T, nodes, edges)
        BY <1>1, <1>3, <1>4, <1>5, <1>6, <1>7, <1>8 DEF Good
    <1>10. ASSUME NEW x PROVE Opinion(T, "n", x) = Opinion(S, "n", x) /\ Opinion(T, "e", x) = Opinion(S, "e", x)
        <2>1. \A i \in DOMAIN S : T[i]["n"][x] = S[i]["n"][x]
            BY <1>2
        <2>2. \A i \in DOMAIN S : T[i]["e"][x] = S[i]["e"][x]
            BY <1>2
        <2>3. Opinion(T, "n", x) = Opinion(S, "n", x)
            BY <1>1, <2>1, SameOpinion
        <2>4. Opinion(T, "e", x) = Opinion(S, "e", x)
            BY <1>1, <2>2, SameOpinion
        <2>5. QED
            BY <2>3, <2>4
    <1>11. QED
        BY <1>9, <1>10 DEF SameGraph

\* Applying a commit touches the degree overlay besides the slots.
LEMMA OverlayOnly ==
    ASSUME NEW source, NEW ops, NEW s, NEW edges, NEW rest, IsSeq(rest), NEW a, NEW b,
           Good(With(ApplyOps(source, ops, s), rest), a, b)
    PROVE  SameSlots(With(ApplyOps(source, ops, s), rest), With(AppendAndApply(source, ops, s, edges), rest))
    <1> DEFINE x == ApplyOps(source, ops, s)
               y == AppendAndApply(source, ops, s, edges)
               S == With(x, rest)
               T == With(y, rest)
    <1>1. /\ Len(S) = Len(rest) + 1 /\ DOMAIN S = 1..(Len(rest) + 1) /\ 1 \in DOMAIN S
          /\ S[1] = x /\ \A i \in 2..(Len(rest) + 1) : S[i] = rest[i - 1]
        BY WithIs
    <1>2. /\ Len(T) = Len(rest) + 1 /\ DOMAIN T = 1..(Len(rest) + 1)
          /\ T[1] = y /\ \A i \in 2..(Len(rest) + 1) : T[i] = rest[i - 1]
        BY WithIs
    <1>3. \A i \in DOMAIN S : DOMAIN S[i] = {"n", "e", "d"}
        BY DEF Good, SourceOk
    <1>4. Len(rest) \in Nat
        BY SeqIs
    <1>5. DOMAIN x = {"n", "e", "d"}
        BY <1>1, <1>3
    <1>6. DOMAIN y = DOMAIN x /\ y.n = x.n /\ y.e = x.e
        <2> DEFINE D == {SumOverlays(<<d, DegreeDeltas(ops, edges)>>) : d \in x.d}
        <2>1. y = [x EXCEPT !.d = D]
            BY DEF AppendAndApply
        <2> HIDE DEF x, y, D
        <2>2. QED
            BY <1>5, <2>1
    <1> HIDE DEF x, y, S, T
    <1>7. ASSUME NEW i \in DOMAIN S PROVE DOMAIN T[i] = {"n", "e", "d"} /\ T[i].n = S[i].n /\ T[i].e = S[i].e
        <2>1. CASE i = 1
            BY <1>1, <1>2, <1>5, <1>6, <2>1
        <2>2. CASE i # 1
            <3>1. i \in 2..(Len(rest) + 1)
                BY <1>1, <1>4, <2>2
            <3>2. T[i] = S[i]
                BY <1>1, <1>2, <3>1
            <3>3. QED
                BY <1>3, <3>2
        <2>3. QED
            BY <2>1, <2>2
    <1>8. QED
        BY <1>1, <1>2, <1>7 DEF SameSlots, S, T, x, y

\* A commit keeps the invariant of the store.
LEMMA CommitStep ==
    ASSUME StoreOk, NEW plan, PlanOk(plan, seq + 1), plan.nodes <= MaxNode + 1, plan.edges <= MaxEdge + 1,
           active' = AppendAndApply(active, plan.ops, seq + 1, Newest(Sources, "e")),
           nextNode' = plan.nodes, nextEdge' = plan.edges, frozen' = frozen, segments' = segments, unique' = unique
    PROVE  StoreOk' /\ Cascades(Sources, Sources')
    <1> DEFINE T == With(ApplyOps(active, plan.ops, seq + 1), Older)
               U == With(AppendAndApply(active, plan.ops, seq + 1, Newest(Sources, "e")), Older)
    <1>1. /\ plan.nodes \in Nat \ {0} /\ plan.edges \in Nat \ {0} /\ Good(T, plan.nodes, plan.edges)
          /\ Cascades(Sources, T)
        BY DEF PlanOk
    <1>2. IsSeq(frozen) /\ IsSeq(segments) /\ unique \in BOOLEAN
        BY DEF StoreOk
    <1>3. IsSeq(Older)
        BY SourcesOpen
    <1>4. SameSlots(T, U)
        BY <1>1, <1>3, OverlayOnly
    <1>5. U = Sources'
        <2>1. Chained(active', frozen, segments)
            BY <1>2, SourcesAre
        <2>2. Sources' = <<active'>> \o frozen \o segments
            BY DEF Sources
        <2>3. QED
            BY <2>1, <2>2 DEF Chained, Older
    <1> HIDE DEF T, U
    <1>6. Good(U, plan.nodes, plan.edges) /\ SameGraph(T, U)
        BY <1>1, <1>4, SameSlotsGood
    <1>7. Cascades(Sources, U)
        BY <1>1, <1>6 DEF SameGraph, Cascades, ToLive
    <1>8. Good(Sources, nextNode, nextEdge)'
        BY <1>5, <1>6 DEF Good
    <1>9. QED
        BY <1>1, <1>2, <1>5, <1>7, <1>8 DEF StoreOk

-----------------------------------------------------------------------------
(* Freezing, flushing and compacting *)

\* An empty source before the others changes nothing.
LEMMA EmptyFront ==
    ASSUME NEW S, IsSeq(S), NEW nodes, NEW edges, Good(S, nodes, edges), NEW T, T = With(EmptySource, S)
    PROVE  Good(T, nodes, edges) /\ SameNodes(S, T)
    <1>1. Len(S) \in Nat /\ DOMAIN S = 1..Len(S)
        BY SeqIs
    <1>2. /\ Len(T) = Len(S) + 1 /\ DOMAIN T = 1..(Len(S) + 1) /\ T[1] = EmptySource
          /\ \A i \in 2..(Len(S) + 1) : T[i] = S[i - 1]
        BY WithIs
    <1>3. /\ DOMAIN T[1] = {"n", "e", "d"} /\ DOMAIN T[1].n = NodeIds /\ DOMAIN T[1].e = EdgeIds
          /\ (\A n \in NodeIds : T[1].n[n] = Absent) /\ (\A e \in EdgeIds : T[1].e[e] = Absent)
        <2> DEFINE x == T[1]
        <2>1. x = EmptySource
            BY <1>2
        <2> HIDE DEF x
        <2>2. /\ DOMAIN x = {"n", "e", "d"} /\ x.n = [i \in NodeIds |-> Absent] /\ x.e = [i \in EdgeIds |-> Absent]
            BY <2>1 DEF EmptySource
        <2>3. QED
            BY <2>2 DEF x
    <1>4. \A i \in DOMAIN T : i # 1 => i - 1 \in DOMAIN S /\ T[i] = S[i - 1]
        BY <1>1, <1>2
    <1>5. ~IsLive(Absent) /\ ~IsDead(Absent) /\ SlotOk(Absent)
        BY DEF IsLive, IsDead, Absent, SlotOk
    <1>6. \A i \in DOMAIN T : SourceOk(T[i])
        <2>1. SourceOk(T[1])
            BY <1>3, <1>5 DEF SourceOk
        <2>2. \A i \in DOMAIN S : SourceOk(S[i])
            BY DEF Good
        <2>3. QED
            BY <1>4, <2>1, <2>2
    <1>7. DeadFinal(T)
        <2> SUFFICES ASSUME NEW i \in DOMAIN T, NEW j \in DOMAIN T, j < i
                     PROVE  /\ \A n \in NodeIds : IsDead(T[i].n[n]) => ~IsLive(T[j].n[n])
                            /\ \A e \in EdgeIds : IsDead(T[i].e[e]) => ~IsLive(T[j].e[e])
            BY DEF DeadFinal
        <2>1. CASE j = 1
            BY <1>3, <1>5, <2>1
        <2>2. CASE j # 1
            <3>1. i # 1 /\ j - 1 < i - 1
                BY <1>2, <2>2
            <3>2. i - 1 \in DOMAIN S /\ j - 1 \in DOMAIN S /\ T[i] = S[i - 1] /\ T[j] = S[j - 1]
                BY <1>4, <2>2, <3>1
            <3>3. QED
                BY <3>1, <3>2 DEF Good, DeadFinal
        <2>3. QED
            BY <2>1, <2>2
    <1>8. EndsFixed(T)
        <2> SUFFICES ASSUME NEW i \in DOMAIN T, NEW j \in DOMAIN T, NEW e \in EdgeIds, IsLive(T[i].e[e]), IsLive(T[j].e[e])
                     PROVE  T[i].e[e].from = T[j].e[e].from /\ T[i].e[e].to = T[j].e[e].to
            BY DEF EndsFixed
        <2>1. i # 1 /\ j # 1
            BY <1>3, <1>5
        <2>2. QED
            BY <1>4, <2>1 DEF Good, EndsFixed
    <1>9. IdsFresh(T, nodes, edges)
        BY <1>3, <1>4, <1>5 DEF Good, IdsFresh
    <1>10. KeysPassedOn(T)
        <2> SUFFICES ASSUME NEW i \in DOMAIN T, NEW j \in DOMAIN T, j <= i, NEW n \in NodeIds, NEW m \in NodeIds, n # m,
                            NEW l, NEW k, Holds(T[j].n[n], l, k), Holds(T[i].n[m], l, k)
                     PROVE  \E h \in j..(i - 1) : T[h].n[m] # Absent
            BY DEF KeysPassedOn
        <2>1. i # 1 /\ j # 1
            BY <1>3, <1>5 DEF Holds
        <2>2. i - 1 \in DOMAIN S /\ j - 1 \in DOMAIN S /\ T[i] = S[i - 1] /\ T[j] = S[j - 1] /\ j - 1 <= i - 1
            BY <1>2, <1>4, <2>1
        <2>3. PICK h \in (j - 1)..((i - 1) - 1) : S[h].n[m] # Absent
            BY <2>2 DEF Good, KeysPassedOn
        <2>4. h + 1 \in j..(i - 1) /\ h + 1 \in DOMAIN T /\ h + 1 # 1 /\ (h + 1) - 1 = h
            BY <1>1, <1>2, <2>2, <2>3
        <2>5. T[h + 1].n[m] # Absent
            BY <1>4, <2>3, <2>4
        <2>6. QED
            BY <2>4, <2>5
    <1>11. unique => TriplesPassedOn(T)
        <2> SUFFICES ASSUME unique, NEW i \in DOMAIN T, NEW j \in DOMAIN T, j <= i, NEW d \in EdgeIds, NEW e \in EdgeIds, d # e,
                            NEW f, NEW t, Joins(T[j].e[d], f, t), Joins(T[i].e[e], f, t)
                     PROVE  \E h \in j..(i - 1) : T[h].e[e] # Absent
            BY DEF TriplesPassedOn
        <2>1. i # 1 /\ j # 1
            BY <1>3, <1>5 DEF Joins
        <2>2. i - 1 \in DOMAIN S /\ j - 1 \in DOMAIN S /\ T[i] = S[i - 1] /\ T[j] = S[j - 1] /\ j - 1 <= i - 1
            BY <1>2, <1>4, <2>1
        <2>3. PICK h \in (j - 1)..((i - 1) - 1) : S[h].e[e] # Absent
            BY <2>2 DEF Good, TriplesPassedOn
        <2>4. h + 1 \in j..(i - 1) /\ h + 1 \in DOMAIN T /\ h + 1 # 1 /\ (h + 1) - 1 = h
            BY <1>1, <1>2, <2>2, <2>3
        <2>5. T[h + 1].e[e] # Absent
            BY <1>4, <2>3, <2>4
        <2>6. QED
            BY <2>4, <2>5
    <1>12. Good(T, nodes, edges)
        BY <1>1, <1>2, <1>6, <1>7, <1>8, <1>9, <1>10, <1>11 DEF Good
    <1>13. ASSUME NEW n \in NodeIds PROVE Opinion(T, "n", n) = Opinion(S, "n", n)
        <2>1. DOMAIN S \subseteq Nat /\ DOMAIN T \subseteq Nat
            BY <1>1, <1>2
        <2>2. CASE \E i \in DOMAIN S : Decides(S, "n", n, i)
            <3>1. PICK i \in DOMAIN S : Decides(S, "n", n, i)
                BY <2>2
            <3>2. i + 1 \in DOMAIN T /\ i + 1 # 1 /\ (i + 1) - 1 = i
                BY <1>1, <1>2
            <3>3. T[i + 1].n[n] = S[i].n[n] /\ T[i + 1].n[n] # Absent
                BY <1>4, <3>1, <3>2 DEF Decides
            <3>4. ASSUME NEW j \in DOMAIN T, j < i + 1 PROVE T[j].n[n] = Absent
                <4>1. CASE j = 1
                    BY <1>3, <4>1
                <4>2. CASE j # 1
                    <5>1. j - 1 \in DOMAIN S /\ T[j] = S[j - 1] /\ j - 1 < i
                        BY <1>1, <1>2, <1>4, <3>4, <4>2
                    <5>2. QED
                        BY <3>1, <5>1 DEF Decides
                <4>3. QED
                    BY <4>1, <4>2
            <3>5. Decides(T, "n", n, i + 1)
                BY <3>2, <3>3, <3>4 DEF Decides
            <3>6. Opinion(T, "n", n) = T[i + 1].n[n] /\ Opinion(S, "n", n) = S[i].n[n]
                BY <2>1, <3>1, <3>5, OpinionOf
            <3>7. QED
                BY <3>3, <3>6
        <2>3. CASE (\A i \in DOMAIN S : S[i].n[n] = Absent) /\ Opinion(S, "n", n) = Absent
            <3>1. \A i \in DOMAIN T : T[i].n[n] = Absent
                BY <1>3, <1>4, <2>3
            <3>2. Opinion(T, "n", n) = Absent
                BY <3>1 DEF Opinion
            <3>3. QED
                BY <2>3, <3>2
        <2>4. QED
            BY <2>1, <2>2, <2>3, SomeoneDecides
    <1>14. QED
        BY <1>12, <1>13 DEF SameNodes

\* The output of a compaction: of each id nothing, or its newest version behind the first base
\* sources, if that is live.
PicksFrom(srcs, base, on, x, slot) ==
    \/ slot = Absent
    \/ /\ IsLive(slot)
       /\ \E i \in (base + 1)..Len(srcs) :
             srcs[i][on][x] = slot /\ \A h \in (base + 1)..(i - 1) : srcs[h][on][x] = Absent

Picks(srcs, base, out) ==
    /\ \A n \in NodeIds : PicksFrom(srcs, base, "n", n, out.n[n])
    /\ \A e \in EdgeIds : PicksFrom(srcs, base, "e", e, out.e[e])

\* More sources before them.
LEMMA PicksShift ==
    ASSUME NEW p, NEW q, Len(p) \in Nat, NEW off \in Nat, Len(q) = off + Len(p),
           \A i \in 1..Len(p) : q[off + i] = p[i], NEW base \in 0..Len(p), NEW out, Picks(p, base, out)
    PROVE  Picks(q, off + base, out)
    <1>1. ASSUME NEW on, NEW x, NEW slot, PicksFrom(p, base, on, x, slot) PROVE PicksFrom(q, off + base, on, x, slot)
        <2>1. CASE slot = Absent
            BY <2>1 DEF PicksFrom
        <2>2. CASE slot # Absent
            <3>1. IsLive(slot)
                BY <1>1, <2>2 DEF PicksFrom
            <3>2. PICK i \in (base + 1)..Len(p) :
                      p[i][on][x] = slot /\ \A h \in (base + 1)..(i - 1) : p[h][on][x] = Absent
                BY <1>1, <2>2 DEF PicksFrom
            <3>3. off + i \in (off + base + 1)..Len(q) /\ i \in 1..Len(p)
                OBVIOUS
            <3>4. q[off + i][on][x] = slot
                BY <3>2, <3>3
            <3>5. ASSUME NEW h \in (off + base + 1)..(off + i - 1) PROVE q[h][on][x] = Absent
                <4> DEFINE g == h - off
                <4>1. g \in (base + 1)..(i - 1) /\ g \in 1..Len(p) /\ h = off + g
                    BY <3>3
                <4> HIDE DEF g
                <4>2. q[h] = p[g]
                    BY <4>1
                <4>3. QED
                    BY <3>2, <4>1, <4>2
            <3>6. off + i \in ((off + base) + 1)..Len(q)
                BY <3>3
            <3>7. \A h \in ((off + base) + 1)..((off + i) - 1) : q[h][on][x] = Absent
                BY <3>5
            <3> DEFINE at == off + i
                       low == off + base
            <3>8. at \in (low + 1)..Len(q) /\ q[at][on][x] = slot /\ \A h \in (low + 1)..(at - 1) : q[h][on][x] = Absent
                BY <3>4, <3>6, <3>7
            <3> HIDE DEF at, low
            <3>9. PicksFrom(q, low, on, x, slot)
                BY <3>1, <3>8 DEF PicksFrom
            <3>10. QED
                BY <3>9 DEF low
        <2>3. QED
            BY <2>1, <2>2
    <1>2. QED
        BY <1>1 DEF Picks

\* T is S with the sources behind the first p replaced by the output.
Compacted(S, T, p, out) ==
    /\ p \in Nat /\ p <= Len(S) /\ DOMAIN T = 1..(p + 1) /\ Len(T) = p + 1
    /\ (\A i \in 1..p : T[i] = S[i]) /\ T[p + 1] = out
    /\ SourceOk(out) /\ Picks(S, p, out)

\* The slots of the output that are not absent, in the sources.
LEMMA PickedSlot ==
    ASSUME NEW S, NEW p \in Nat, NEW on, NEW x, NEW slot, PicksFrom(S, p, on, x, slot), slot # Absent, Len(S) \in Nat,
           DOMAIN S = 1..Len(S)
    PROVE  IsLive(slot) /\ \E i \in DOMAIN S : i > p /\ S[i][on][x] = slot /\ \A h \in DOMAIN S : p < h /\ h < i => S[h][on][x] = Absent
    <1>1. IsLive(slot)
        BY DEF PicksFrom
    <1>2. PICK i \in (p + 1)..Len(S) : S[i][on][x] = slot /\ \A h \in (p + 1)..(i - 1) : S[h][on][x] = Absent
        BY DEF PicksFrom
    <1>3. i \in DOMAIN S /\ i > p
        BY <1>2
    <1>4. \A h \in DOMAIN S : p < h /\ h < i => S[h][on][x] = Absent
        BY <1>2, <1>3
    <1>5. QED
        BY <1>1, <1>2, <1>3, <1>4

\* Where a slot of T comes from: a source of S, the newest of the inputs that has the id.
NodeFrom(S, T, p, i, n, h) ==
    /\ h \in DOMAIN S /\ T[i].n[n] = S[h].n[n]
    /\ i <= p => h = i
    /\ i = p + 1 => h > p /\ (\A g \in DOMAIN S : p < g /\ g < h => S[g].n[n] = Absent) /\ IsLive(S[h].n[n])
EdgeFrom(S, T, p, i, n, h) ==
    /\ h \in DOMAIN S /\ T[i].e[n] = S[h].e[n]
    /\ i <= p => h = i
    /\ i = p + 1 => h > p /\ (\A g \in DOMAIN S : p < g /\ g < h => S[g].e[n] = Absent) /\ IsLive(S[h].e[n])

\* Each slot of T that is not absent comes from S.
LEMMA SlotsFrom ==
    ASSUME NEW S, NEW nodes, NEW edges, Good(S, nodes, edges), NEW T, NEW p, NEW out, Compacted(S, T, p, out),
           NEW i \in DOMAIN T
    PROVE  /\ \A n \in NodeIds : T[i].n[n] # Absent => \E h \in DOMAIN S : NodeFrom(S, T, p, i, n, h)
           /\ \A n \in EdgeIds : T[i].e[n] # Absent => \E h \in DOMAIN S : EdgeFrom(S, T, p, i, n, h)
    <1>1. Len(S) \in Nat /\ DOMAIN S = 1..Len(S) /\ p \in Nat /\ p <= Len(S) /\ i \in 1..(p + 1)
        BY DEF Good, Compacted
    <1>2. CASE i <= p
        <2>1. i \in DOMAIN S /\ T[i] = S[i] /\ i # p + 1
            BY <1>1, <1>2 DEF Compacted
        <2>2. QED
            BY <2>1 DEF NodeFrom, EdgeFrom
    <1>3. CASE i = p + 1
        <2>1. T[i] = out /\ Picks(S, p, out) /\ ~(i <= p)
            BY <1>1, <1>3 DEF Compacted
        <2>2. ASSUME NEW n \in NodeIds, T[i].n[n] # Absent PROVE \E h \in DOMAIN S : NodeFrom(S, T, p, i, n, h)
            <3>1. PicksFrom(S, p, "n", n, T[i].n[n])
                BY <2>1 DEF Picks
            <3>2. PICK h \in DOMAIN S : h > p /\ S[h].n[n] = T[i].n[n] /\ \A g \in DOMAIN S : p < g /\ g < h => S[g].n[n] = Absent
                BY <1>1, <2>2, <3>1, PickedSlot
            <3>3. IsLive(T[i].n[n])
                BY <1>1, <2>2, <3>1, PickedSlot
            <3>4. QED
                BY <2>1, <3>2, <3>3 DEF NodeFrom
        <2>3. ASSUME NEW n \in EdgeIds, T[i].e[n] # Absent PROVE \E h \in DOMAIN S : EdgeFrom(S, T, p, i, n, h)
            <3>1. PicksFrom(S, p, "e", n, T[i].e[n])
                BY <2>1 DEF Picks
            <3>2. PICK h \in DOMAIN S : h > p /\ S[h].e[n] = T[i].e[n] /\ \A g \in DOMAIN S : p < g /\ g < h => S[g].e[n] = Absent
                BY <1>1, <2>3, <3>1, PickedSlot
            <3>3. IsLive(T[i].e[n])
                BY <1>1, <2>3, <3>1, PickedSlot
            <3>4. QED
                BY <2>1, <3>2, <3>3 DEF EdgeFrom
        <2>4. QED
            BY <2>2, <2>3
    <1>4. QED
        BY <1>1, <1>2, <1>3

\* A compaction keeps the invariant and deletes no node.
LEMMA CompactedGood ==
    ASSUME NEW S, NEW nodes, NEW edges, Good(S, nodes, edges), NEW T, NEW p, NEW out, Compacted(S, T, p, out)
    PROVE  Good(T, nodes, edges) /\ NoneDies(S, T)
    <1>1. /\ Len(S) \in Nat /\ DOMAIN S = 1..Len(S) /\ p \in Nat /\ p <= Len(S)
          /\ DOMAIN T = 1..(p + 1) /\ Len(T) = p + 1
        BY DEF Good, Compacted
    <1>2. ~IsLive(Absent) /\ ~IsDead(Absent)
        BY DEF IsLive, IsDead, Absent
    <1>3. \A i \in DOMAIN T, n \in NodeIds : T[i].n[n] # Absent => \E h \in DOMAIN S : NodeFrom(S, T, p, i, n, h)
        BY SlotsFrom
    <1>4. \A i \in DOMAIN T, e \in EdgeIds : T[i].e[e] # Absent => \E h \in DOMAIN S : EdgeFrom(S, T, p, i, e, h)
        BY SlotsFrom
    <1>5. \A i \in DOMAIN T : SourceOk(T[i])
        <2> SUFFICES ASSUME NEW i \in DOMAIN T PROVE SourceOk(T[i])
            OBVIOUS
        <2>1. CASE i <= p
            BY <1>1, <2>1 DEF Good, Compacted
        <2>2. CASE i = p + 1
            BY <2>2 DEF Compacted
        <2>3. QED
            BY <1>1, <2>1, <2>2
    <1>6. DeadFinal(T)
        <2> SUFFICES ASSUME NEW i \in DOMAIN T, NEW j \in DOMAIN T, j < i
                     PROVE  /\ \A n \in NodeIds : IsDead(T[i].n[n]) => ~IsLive(T[j].n[n])
                            /\ \A e \in EdgeIds : IsDead(T[i].e[e]) => ~IsLive(T[j].e[e])
            BY DEF DeadFinal
        <2>1. CASE i <= p
            <3>1. i \in DOMAIN S /\ j \in DOMAIN S /\ T[i] = S[i] /\ T[j] = S[j]
                BY <1>1, <2>1 DEF Compacted
            <3>2. QED
                BY <3>1 DEF Good, DeadFinal
        <2>2. CASE i = p + 1
            <3>1. ASSUME NEW n \in NodeIds, IsDead(T[i].n[n]) PROVE FALSE
                <4>1. T[i].n[n] # Absent
                    BY <1>2, <3>1
                <4>2. PICK h \in DOMAIN S : NodeFrom(S, T, p, i, n, h)
                    BY <1>3, <4>1
                <4>3. IsLive(T[i].n[n])
                    BY <2>2, <4>2 DEF NodeFrom
                <4>4. QED
                    BY <3>1, <4>3, NotLiveAndDead
            <3>2. ASSUME NEW e \in EdgeIds, IsDead(T[i].e[e]) PROVE FALSE
                <4>1. T[i].e[e] # Absent
                    BY <1>2, <3>2
                <4>2. PICK h \in DOMAIN S : EdgeFrom(S, T, p, i, e, h)
                    BY <1>4, <4>1
                <4>3. IsLive(T[i].e[e])
                    BY <2>2, <4>2 DEF EdgeFrom
                <4>4. QED
                    BY <3>2, <4>3, NotLiveAndDead
            <3>3. QED
                BY <3>1, <3>2
        <2>3. QED
            BY <1>1, <2>1, <2>2
    <1>7. EndsFixed(T)
        <2> SUFFICES ASSUME NEW i \in DOMAIN T, NEW j \in DOMAIN T, NEW e \in EdgeIds, IsLive(T[i].e[e]), IsLive(T[j].e[e])
                     PROVE  T[i].e[e].from = T[j].e[e].from /\ T[i].e[e].to = T[j].e[e].to
            BY DEF EndsFixed
        <2>1. T[i].e[e] # Absent /\ T[j].e[e] # Absent
            BY <1>2
        <2>2. PICK g \in DOMAIN S : T[i].e[e] = S[g].e[e]
            BY <1>4, <2>1 DEF EdgeFrom
        <2>3. PICK h \in DOMAIN S : T[j].e[e] = S[h].e[e]
            BY <1>4, <2>1 DEF EdgeFrom
        <2>4. QED
            BY <2>2, <2>3 DEF Good, EndsFixed
    <1>8. IdsFresh(T, nodes, edges)
        <2> SUFFICES ASSUME NEW i \in DOMAIN T
                     PROVE  /\ \A n \in NodeIds : n >= nodes => T[i].n[n] = Absent
                            /\ \A e \in EdgeIds : e >= edges => T[i].e[e] = Absent
                            /\ \A e \in EdgeIds : IsLive(T[i].e[e]) =>
                                   T[i].e[e].from \in 1..(nodes - 1) /\ T[i].e[e].to \in 1..(nodes - 1)
            BY DEF IdsFresh
        <2>1. ASSUME NEW n \in NodeIds, n >= nodes PROVE T[i].n[n] = Absent
            BY <1>3, <2>1 DEF NodeFrom, Good, IdsFresh
        <2>2. ASSUME NEW e \in EdgeIds, e >= edges PROVE T[i].e[e] = Absent
            BY <1>4, <2>2 DEF EdgeFrom, Good, IdsFresh
        <2>3. ASSUME NEW e \in EdgeIds, IsLive(T[i].e[e])
              PROVE  T[i].e[e].from \in 1..(nodes - 1) /\ T[i].e[e].to \in 1..(nodes - 1)
            <3>1. T[i].e[e] # Absent
                BY <1>2, <2>3
            <3>2. PICK h \in DOMAIN S : T[i].e[e] = S[h].e[e]
                BY <1>4, <3>1 DEF EdgeFrom
            <3>3. QED
                BY <2>3, <3>2 DEF Good, IdsFresh
        <2>4. QED
            BY <2>1, <2>2, <2>3
    <1>9. KeysPassedOn(T)
        <2>1. KeysPassedOn(S)
            BY DEF Good
        <2> SUFFICES ASSUME NEW i \in DOMAIN T, NEW j \in DOMAIN T, j <= i, NEW n \in NodeIds, NEW m \in NodeIds, n # m,
                            NEW l, NEW k, Holds(T[j].n[n], l, k), Holds(T[i].n[m], l, k)
                     PROVE  \E h \in j..(i - 1) : T[h].n[m] # Absent
            BY DEF KeysPassedOn
        <2>2. T[j].n[n] # Absent /\ T[i].n[m] # Absent
            BY <1>2 DEF Holds
        <2>3. PICK a \in DOMAIN S : NodeFrom(S, T, p, j, n, a)
            BY <1>3, <2>2
        <2>4. PICK b \in DOMAIN S : NodeFrom(S, T, p, i, m, b)
            BY <1>3, <2>2
        <2>5. Holds(S[a].n[n], l, k) /\ Holds(S[b].n[m], l, k)
            BY <2>3, <2>4 DEF NodeFrom
        <2>6. CASE j <= p
            <3>1. a = j /\ a <= b /\ a \in Nat /\ b \in Nat
                BY <1>1, <2>3, <2>4, <2>6 DEF NodeFrom
            <3>2. PICK h \in a..(b - 1) : S[h].n[m] # Absent
                BY <2>1, <2>5, <3>1 DEF KeysPassedOn
            <3>3. h \in DOMAIN S /\ h < b
                BY <1>1, <3>1, <3>2
            <3>4. h <= p /\ h \in j..(i - 1)
                BY <1>1, <2>4, <3>1, <3>2, <3>3 DEF NodeFrom
            <3>5. T[h] = S[h]
                BY <1>1, <3>3, <3>4 DEF Compacted
            <3>6. QED
                BY <3>2, <3>4, <3>5
        <2>7. CASE j = p + 1
            <3>1. i = p + 1 /\ a > p /\ b > p /\ a \in Nat /\ b \in Nat
                BY <1>1, <2>3, <2>4, <2>7 DEF NodeFrom
            <3>2. CASE a <= b
                <4>1. PICK h \in a..(b - 1) : S[h].n[m] # Absent
                    BY <2>1, <2>5, <3>2 DEF KeysPassedOn
                <4>2. h \in DOMAIN S /\ p < h /\ h < b
                    BY <1>1, <3>1, <4>1
                <4>3. QED
                    BY <2>4, <3>1, <4>1, <4>2 DEF NodeFrom
            <3>3. CASE b <= a
                <4>1. PICK h \in b..(a - 1) : S[h].n[n] # Absent
                    BY <2>1, <2>5, <3>3 DEF KeysPassedOn
                <4>2. h \in DOMAIN S /\ p < h /\ h < a
                    BY <1>1, <3>1, <4>1
                <4>3. QED
                    BY <2>3, <2>7, <4>1, <4>2 DEF NodeFrom
            <3>4. QED
                BY <3>1, <3>2, <3>3
        <2>8. QED
            BY <1>1, <2>6, <2>7
    <1>10. unique => TriplesPassedOn(T)
        <2> SUFFICES ASSUME unique, NEW i \in DOMAIN T, NEW j \in DOMAIN T, j <= i, NEW n \in EdgeIds, NEW m \in EdgeIds, n # m,
                            NEW l, NEW k, Joins(T[j].e[n], l, k), Joins(T[i].e[m], l, k)
                     PROVE  \E h \in j..(i - 1) : T[h].e[m] # Absent
            BY DEF TriplesPassedOn
        <2>1. TriplesPassedOn(S)
            BY DEF Good
        <2>2. T[j].e[n] # Absent /\ T[i].e[m] # Absent
            BY <1>2 DEF Joins
        <2>3. PICK a \in DOMAIN S : EdgeFrom(S, T, p, j, n, a)
            BY <1>4, <2>2
        <2>4. PICK b \in DOMAIN S : EdgeFrom(S, T, p, i, m, b)
            BY <1>4, <2>2
        <2>5. Joins(S[a].e[n], l, k) /\ Joins(S[b].e[m], l, k)
            BY <2>3, <2>4 DEF EdgeFrom
        <2>6. CASE j <= p
            <3>1. a = j /\ a <= b /\ a \in Nat /\ b \in Nat
                BY <1>1, <2>3, <2>4, <2>6 DEF EdgeFrom
            <3>2. PICK h \in a..(b - 1) : S[h].e[m] # Absent
                BY <2>1, <2>5, <3>1 DEF TriplesPassedOn
            <3>3. h \in DOMAIN S /\ h < b
                BY <1>1, <3>1, <3>2
            <3>4. h <= p /\ h \in j..(i - 1)
                BY <1>1, <2>4, <3>1, <3>2, <3>3 DEF EdgeFrom
            <3>5. T[h] = S[h]
                BY <1>1, <3>3, <3>4 DEF Compacted
            <3>6. QED
                BY <3>2, <3>4, <3>5
        <2>7. CASE j = p + 1
            <3>1. i = p + 1 /\ a > p /\ b > p /\ a \in Nat /\ b \in Nat
                BY <1>1, <2>3, <2>4, <2>7 DEF EdgeFrom
            <3>2. CASE a <= b
                <4>1. PICK h \in a..(b - 1) : S[h].e[m] # Absent
                    BY <2>1, <2>5, <3>2 DEF TriplesPassedOn
                <4>2. h \in DOMAIN S /\ p < h /\ h < b
                    BY <1>1, <3>1, <4>1
                <4>3. QED
                    BY <2>4, <3>1, <4>1, <4>2 DEF EdgeFrom
            <3>3. CASE b <= a
                <4>1. PICK h \in b..(a - 1) : S[h].e[n] # Absent
                    BY <2>1, <2>5, <3>3 DEF TriplesPassedOn
                <4>2. h \in DOMAIN S /\ p < h /\ h < a
                    BY <1>1, <3>1, <4>1
                <4>3. QED
                    BY <2>3, <2>7, <4>1, <4>2 DEF EdgeFrom
            <3>4. QED
                BY <3>1, <3>2, <3>3
        <2>8. QED
            BY <1>1, <2>6, <2>7
    <1>11. Good(T, nodes, edges)
        BY <1>1, <1>5, <1>6, <1>7, <1>8, <1>9, <1>10 DEF Good
    <1>12. ASSUME NEW n \in NodeIds, IsLive(Opinion(S, "n", n)), IsDead(Opinion(T, "n", n)) PROVE FALSE
        <2>1. DOMAIN S \subseteq Nat /\ DOMAIN T \subseteq Nat
            BY <1>1
        <2>2. PICK i \in DOMAIN S : Decides(S, "n", n, i) /\ Opinion(S, "n", n) = S[i].n[n]
            BY <1>12, <2>1, LiveDecided
        <2>3. Opinion(T, "n", n) # Absent
            BY <1>2, <1>12
        <2>4. PICK j \in DOMAIN T : Decides(T, "n", n, j)
            BY <2>1, <2>3, SomeoneDecides
        <2>5. Opinion(T, "n", n) = T[j].n[n] /\ T[j].n[n] # Absent
            BY <2>1, <2>3, <2>4, OpinionOf
        <2>6. PICK h \in DOMAIN S : NodeFrom(S, T, p, j, n, h)
            BY <1>3, <2>5
        <2>7. CASE j = p + 1
            BY <1>12, <2>5, <2>6, <2>7, NotLiveAndDead DEF NodeFrom
        <2>8. CASE j <= p
            <3>1. j \in DOMAIN S /\ T[j].n[n] = S[j].n[n] /\ S[j].n[n] # Absent
                BY <2>5, <2>6, <2>8 DEF NodeFrom
            <3>2. ~(j < i)
                BY <2>2, <3>1 DEF Decides
            <3>3. CASE i = j
                BY <1>12, <2>2, <2>5, <3>1, <3>3, NotLiveAndDead
            <3>4. CASE i < j
                <4>1. i \in DOMAIN T /\ T[i] = S[i]
                    BY <1>1, <2>8, <3>4 DEF Compacted
                <4>2. T[i].n[n] # Absent
                    BY <2>2, <4>1 DEF Decides
                <4>3. QED
                    BY <2>4, <3>4, <4>1, <4>2 DEF Decides
            <3>5. QED
                BY <1>1, <3>1, <3>2, <3>3, <3>4
        <2>9. QED
            BY <1>1, <2>7, <2>8
    <1>13. QED
        BY <1>11, <1>12 DEF NoneDies

\* A prefix of a sequence.
LEMMA PrefixIs ==
    ASSUME NEW q, IsSeq(q), NEW n \in 0..Len(q)
    PROVE  /\ IsSeq(SubSeq(q, 1, n)) /\ Len(SubSeq(q, 1, n)) = n
           /\ \A i \in 1..n : SubSeq(q, 1, n)[i] = q[i]
    <1>1. PICK X : q \in Seq(X)
        BY DEF IsSeq
    <1>2. Len(q) \in Nat /\ n \in Int /\ 1 \in Int /\ \A i \in 1..n : q[i] \in X
        BY <1>1
    <1>3. /\ SubSeq(q, 1, n) \in Seq(X)
          /\ Len(SubSeq(q, 1, n)) = IF 1 <= n THEN n - 1 + 1 ELSE 0
          /\ \A i \in 1..(n - 1 + 1) : SubSeq(q, 1, n)[i] = q[1 + i - 1]
        BY <1>2, SubSeqProperties
    <1>4. Len(SubSeq(q, 1, n)) = n
        BY <1>2, <1>3
    <1>5. ASSUME NEW i \in 1..n PROVE SubSeq(q, 1, n)[i] = q[i]
        <2>1. i \in 1..(n - 1 + 1) /\ 1 + i - 1 = i
            BY <1>2
        <2>2. QED
            BY <1>3, <2>1
    <1>6. QED
        BY <1>3, <1>4, <1>5 DEF IsSeq

\* Without a tombstone, the first live record is the newest version.
LEMMA PicksNewest ==
    ASSUME NEW q, Len(q) \in Nat, NEW on, NEW x,
           \A i \in 1..Len(q) : SlotOk(q[i][on][x]) /\ ~IsDead(q[i][on][x]),
           NEW m \in 1..Len(q), IsLive(q[m][on][x]), \A h \in 1..Len(q) : IsLive(q[h][on][x]) => m <= h,
           NEW slot, slot = q[m][on][x]
    PROVE  PicksFrom(q, 0, on, x, slot)
    <1>1. \A h \in (0 + 1)..(m - 1) : q[h][on][x] = Absent
        BY DEF SlotOk
    <1>2. m \in (0 + 1)..Len(q)
        OBVIOUS
    <1>3. QED
        BY <1>1, <1>2 DEF PicksFrom

\* v3_plan_winners' record of an id, and the newest version of the fast path.
RecordOf(q, on, x) ==
    LET held == {i \in DOMAIN q : IsLive(q[i][on][x])}
    IN  IF held = {} \/ x \in Tombstones(q, on) THEN Absent ELSE q[Min(held)][on][x]

\* It is the newest version, if that is live.
LEMMA RecordPicks ==
    ASSUME NEW q, IsSeq(q), NEW on, NEW x, x \in DOMAIN q[1][on], \A i \in 1..Len(q) : SlotOk(q[i][on][x])
    PROVE  PicksFrom(q, 0, on, x, RecordOf(q, on, x))
    <1> DEFINE held == {i \in DOMAIN q : IsLive(q[i][on][x])}
    <1>1. Len(q) \in Nat /\ DOMAIN q = 1..Len(q)
        BY SeqIs
    <1>2. CASE held = {} \/ x \in Tombstones(q, on)
        <2>1. RecordOf(q, on, x) = Absent
            BY <1>2 DEF RecordOf
        <2>2. QED
            BY <2>1 DEF PicksFrom
    <1>3. CASE held # {} /\ x \notin Tombstones(q, on)
        <2>1. RecordOf(q, on, x) = q[Min(held)][on][x]
            BY <1>3 DEF RecordOf
        <2>2. Min(held) \in held /\ \A h \in held : Min(held) <= h
            <3>1. held \in SUBSET Nat
                BY <1>1
            <3>2. QED
                BY <1>3, <3>1, MinIs
        <2>3. \A i \in 1..Len(q) : ~IsDead(q[i][on][x])
            BY <1>1, <1>3 DEF Tombstones
        <2> DEFINE m == Min(held)
        <2>4. m \in 1..Len(q) /\ IsLive(q[m][on][x]) /\ \A h \in 1..Len(q) : IsLive(q[h][on][x]) => m <= h
            BY <1>1, <2>2
        <2> HIDE DEF held, m
        <2>5. PicksFrom(q, 0, on, x, q[m][on][x])
            BY <1>1, <2>3, <2>4, PicksNewest
        <2>6. QED
            BY <2>1, <2>5 DEF m
    <1>4. QED
        BY <1>2, <1>3

\* Without tombstones the newest version is live.
LEMMA NewestPicks ==
    ASSUME NEW q, IsSeq(q), NEW on, NEW x, \A i \in 1..Len(q) : SlotOk(q[i][on][x]) /\ ~IsDead(q[i][on][x])
    PROVE  PicksFrom(q, 0, on, x, Opinion(q, on, x))
    <1>1. Len(q) \in Nat /\ DOMAIN q = 1..Len(q) /\ DOMAIN q \subseteq Nat
        BY SeqIs
    <1>2. CASE \E i \in DOMAIN q : Decides(q, on, x, i)
        <2>1. PICK m \in DOMAIN q : Decides(q, on, x, m)
            BY <1>2
        <2>2. Opinion(q, on, x) = q[m][on][x]
            BY <1>1, <2>1, OpinionOf
        <2>3. m \in 1..Len(q) /\ IsLive(q[m][on][x])
            BY <1>1, <2>1 DEF Decides, SlotOk
        <2>4. \A h \in 1..Len(q) : IsLive(q[h][on][x]) => m <= h
            BY <1>1, <2>1 DEF Decides, IsLive, Absent
        <2>5. QED
            BY <1>1, <2>2, <2>3, <2>4, PicksNewest
    <1>3. CASE Opinion(q, on, x) = Absent
        BY <1>3 DEF PicksFrom
    <1>4. QED
        BY <1>1, <1>2, <1>3, SomeoneDecides

\* What is picked, or nothing, is a slot.
LEMMA PickedOk ==
    ASSUME NEW q, NEW base, NEW on, NEW x, NEW slot, PicksFrom(q, base, on, x, slot)
    PROVE  SlotOk(slot)
    BY DEF PicksFrom, SlotOk

\* The output of a compaction.
Merged(q, out) == SourceOk(out) /\ Picks(q, 0, out)

\* The parts of an output.
LEMMA MergedParts ==
    ASSUME NEW q, NEW ns, NEW es, NEW side, NEW out, out = [n |-> ns, e |-> es, d |-> side],
           DOMAIN ns = NodeIds, DOMAIN es = EdgeIds,
           \A n \in NodeIds : PicksFrom(q, 0, "n", n, ns[n]),
           \A e \in EdgeIds : PicksFrom(q, 0, "e", e, es[e])
    PROVE  Merged(q, out)
    <1>1. DOMAIN out = {"n", "e", "d"} /\ out.n = ns /\ out.e = es
        OBVIOUS
    <1>2. \A n \in NodeIds : SlotOk(ns[n])
        BY PickedOk
    <1>3. \A e \in EdgeIds : SlotOk(es[e])
        BY PickedOk
    <1>4. SourceOk(out)
        BY <1>1, <1>2, <1>3 DEF SourceOk
    <1>5. QED
        BY <1>1, <1>4 DEF Merged, Picks

\* Both paths of a compaction pick, of each id, its newest version or nothing.
LEMMA MergeIs ==
    ASSUME NEW q, IsSeq(q), Len(q) >= 1, \A i \in 1..Len(q) : SourceOk(q[i]), NEW pruning
    PROVE  Merged(q, Merge(q, pruning))
    <1> DEFINE side == FoldedSidecar(q, pruning)
               fast == /\ Tombstones(q, "n") = {} /\ Tombstones(q, "e") = {} /\ ~pruning
                       /\ NonOverlapping(q, "n") /\ NonOverlapping(q, "e")
    <1>1. Len(q) \in Nat /\ DOMAIN q = 1..Len(q) /\ 1 \in 1..Len(q)
        BY SeqIs
    <1>2. DOMAIN q[1].n = NodeIds /\ DOMAIN q[1].e = EdgeIds
        BY <1>1 DEF SourceOk
    <1>3. \A n \in NodeIds : \A i \in 1..Len(q) : SlotOk(q[i].n[n])
        BY DEF SourceOk
    <1>4. \A e \in EdgeIds : \A i \in 1..Len(q) : SlotOk(q[i].e[e])
        BY DEF SourceOk
    <1>5. CASE fast
        <2> DEFINE ns == Newest(q, "n")
                   es == Newest(q, "e")
        <2>1. Merge(q, pruning) = [n |-> ns, e |-> es, d |-> side]
            BY <1>5 DEF Merge
        <2>2. DOMAIN ns = NodeIds /\ \A n \in NodeIds : ns[n] = Opinion(q, "n", n)
            BY <1>2 DEF Newest
        <2>3. DOMAIN es = EdgeIds /\ \A e \in EdgeIds : es[e] = Opinion(q, "e", e)
            BY <1>2 DEF Newest
        <2>4. \A n \in NodeIds : \A i \in 1..Len(q) : ~IsDead(q[i].n[n])
            BY <1>1, <1>2, <1>5 DEF Tombstones
        <2>5. \A e \in EdgeIds : \A i \in 1..Len(q) : ~IsDead(q[i].e[e])
            BY <1>1, <1>2, <1>5 DEF Tombstones
        <2> HIDE DEF ns, es
        <2>6. ASSUME NEW n \in NodeIds PROVE PicksFrom(q, 0, "n", n, ns[n])
            BY <1>3, <2>2, <2>4, NewestPicks
        <2>7. ASSUME NEW e \in EdgeIds PROVE PicksFrom(q, 0, "e", e, es[e])
            BY <1>4, <2>3, <2>5, NewestPicks
        <2>8. QED
            BY <2>1, <2>2, <2>3, <2>6, <2>7, MergedParts
    <1>6. CASE ~fast
        <2> DEFINE rec(on, x) == RecordOf(q, on, x)
                   ns == [n \in NodeIds |-> IF IsLive(rec("n", n)) /\ pruning /\ rec("n", n).low
                                            THEN Absent ELSE rec("n", n)]
                   es == [e \in EdgeIds |-> IF /\ IsLive(rec("e", e)) /\ IsLive(ns[rec("e", e).from])
                                               /\ IsLive(ns[rec("e", e).to])
                                            THEN rec("e", e) ELSE Absent]
        <2>1. Winners(q, pruning) = [n |-> ns, e |-> es]
            BY DEF Winners, RecordOf
        <2>2. Merge(q, pruning) = [n |-> Winners(q, pruning).n, e |-> Winners(q, pruning).e, d |-> side]
            BY <1>6 DEF Merge
        <2>3. DOMAIN ns = NodeIds /\ \A n \in NodeIds : ns[n] = Absent \/ ns[n] = RecordOf(q, "n", n)
            OBVIOUS
        <2>4. DOMAIN es = EdgeIds /\ \A e \in EdgeIds : es[e] = Absent \/ es[e] = RecordOf(q, "e", e)
            OBVIOUS
        <2> HIDE DEF ns, es
        <2>5. Merge(q, pruning) = [n |-> ns, e |-> es, d |-> side]
            BY <2>1, <2>2
        <2>6. ASSUME NEW n \in NodeIds PROVE PicksFrom(q, 0, "n", n, ns[n])
            <3>1. PicksFrom(q, 0, "n", n, RecordOf(q, "n", n))
                BY <1>2, <1>3, RecordPicks
            <3>2. PicksFrom(q, 0, "n", n, Absent)
                BY DEF PicksFrom
            <3>3. QED
                BY <2>3, <3>1, <3>2
        <2>7. ASSUME NEW e \in EdgeIds PROVE PicksFrom(q, 0, "e", e, es[e])
            <3>1. PicksFrom(q, 0, "e", e, RecordOf(q, "e", e))
                BY <1>2, <1>4, RecordPicks
            <3>2. PicksFrom(q, 0, "e", e, Absent)
                BY DEF PicksFrom
            <3>3. QED
                BY <2>4, <3>1, <3>2
        <2>8. QED
            BY <2>3, <2>4, <2>5, <2>6, <2>7, MergedParts
    <1>7. QED
        BY <1>5, <1>6

-----------------------------------------------------------------------------
(* The inductive invariant *)

\* A running compaction's inputs are the oldest segments still, and its output is made of them.
JobOk(j) ==
    /\ j.n \in 1..Len(segments) /\ SourceOk(j.out)
    /\ Picks(segments, Len(segments) - j.n, j.out)
JobsOk == \A j \in job : JobOk(j)

GraphInv == StoreOk /\ JobsOk

\* What a step does: it keeps the invariant, and its deletions cascade.
StepOk == GraphInv' /\ Cascades(Sources, Sources')

\* What a commit does, besides.
Committed ==
    /\ \E plan :
          /\ PlanOk(plan, seq + 1)
          /\ active' = AppendAndApply(active, plan.ops, seq + 1, Newest(Sources, "e"))
          /\ dangled' = dangled \union Dangling(<<active'>> \o frozen \o segments)
          /\ nextNode' = plan.nodes
    /\ frozen' = frozen /\ segments' = segments /\ job' = job

\* What a freeze, a flush and the end of a compaction do to the list of sources.
Frozen == IsSeq(Sources) /\ Sources' = With(EmptySource, Sources)
Flushed == Sources' = Sources /\ \E x : segments' = With(x, segments)
Replaced == \E j \in job : Compacted(Sources, Sources', (Len(frozen) + 1) + (Len(segments) - j.n), j.out)

\* The sources, one by one.
Layered(a, f, g, T) ==
    /\ IsSeq(T) /\ Len(T) = (Len(f) + 1) + Len(g) /\ T[1] = a
    /\ \A i \in 1..Len(f) : T[i + 1] = f[i]
    /\ \A i \in 1..Len(g) : T[(Len(f) + 1) + i] = g[i]

\* The store's sources are.
LEMMA SourcesLayered ==
    ASSUME NEW a, NEW f, IsSeq(f), NEW g, IsSeq(g)
    PROVE  Layered(a, f, g, <<a>> \o f \o g)
    <1> DEFINE p == <<a>> \o f
               q == p \o g
    <1>1. Len(f) \in Nat /\ Len(g) \in Nat
        BY SeqIs
    <1>2. IsSeq(p) /\ Len(p) = Len(f) + 1 /\ p[1] = a /\ \A i \in 2..(Len(f) + 1) : p[i] = f[i - 1]
        BY WithIs DEF With
    <1> HIDE DEF p
    <1>3. IsSeq(q) /\ Len(q) = Len(p) + Len(g) /\ (\A i \in 1..Len(p) : q[i] = p[i]) /\ (\A i \in 1..Len(g) : q[Len(p) + i] = g[i])
        <2>1. IsSeq(p)
            BY <1>2
        <2>2. QED
            BY <2>1, ConcatIs
    <1> HIDE DEF q
    <1>4. ASSUME NEW i \in 1..Len(f) PROVE q[i + 1] = f[i]
        <2>1. i + 1 \in 2..(Len(f) + 1) /\ i + 1 \in 1..Len(p) /\ (i + 1) - 1 = i
            BY <1>1, <1>2
        <2>2. QED
            BY <1>2, <1>3, <2>1
    <1>5. q[1] = a
        BY <1>1, <1>2, <1>3
    <1>6. QED
        BY <1>2, <1>3, <1>4, <1>5 DEF Layered, p, q

\* The segments are sources.
LEMMA SegmentsOk ==
    ASSUME StoreOk
    PROVE  /\ Layered(active, frozen, segments, Sources)
           /\ Len(frozen) \in Nat /\ Len(segments) \in Nat
           /\ \A i \in 1..Len(segments) : SourceOk(segments[i])
    <1>1. IsSeq(frozen) /\ IsSeq(segments) /\ Good(Sources, nextNode, nextEdge)
        BY DEF StoreOk
    <1>2. Layered(active, frozen, segments, Sources)
        BY <1>1, SourcesLayered DEF Sources
    <1>3. Len(frozen) \in Nat
        BY <1>1, SeqIs
    <1>4. Len(segments) \in Nat
        BY <1>1, SeqIs
    <1>5. ASSUME NEW i \in 1..Len(segments) PROVE SourceOk(segments[i])
        <2>1. (Len(frozen) + 1) + i \in DOMAIN Sources
            BY <1>1, <1>2, <1>3, <1>4 DEF Layered, Good
        <2>2. Sources[(Len(frozen) + 1) + i] = segments[i]
            BY <1>2 DEF Layered
        <2>3. QED
            BY <1>1, <2>1, <2>2 DEF Good
    <1>6. QED
        BY <1>2, <1>3, <1>4, <1>5

\* Steps that delete no node cascade.
LEMMA NoneDiesCascades ==
    ASSUME NEW S, NEW T, NoneDies(S, T) PROVE Cascades(S, T)
    BY DEF NoneDies, Cascades

\* Nor do steps that change no node's newest version.
LEMMA SameNodesCascades ==
    ASSUME NEW S, NEW T, SameNodes(S, T) PROVE Cascades(S, T)
    BY DEF SameNodes, Cascades, IsLive, IsDead

\* A commit.
LEMMA CommitOk ==
    ASSUME GraphInv, NEW plans, Commit(plans),
           \A plan \in plans : plan.nodes <= MaxNode + 1 /\ plan.edges <= MaxEdge + 1 => PlanOk(plan, seq + 1)
    PROVE  StepOk /\ Committed
    <1>1. PICK plan \in plans :
              /\ plan.nodes <= MaxNode + 1 /\ plan.edges <= MaxEdge + 1
              /\ active' = AppendAndApply(active, plan.ops, seq + 1, Newest(Sources, "e"))
              /\ dangled' = dangled \union Dangling(<<active'>> \o frozen \o segments)
              /\ nextNode' = plan.nodes /\ nextEdge' = plan.edges
        BY DEF Commit
    <1>2. frozen' = frozen /\ segments' = segments /\ unique' = unique /\ job' = job
        BY DEF Commit
    <1>3. StoreOk /\ PlanOk(plan, seq + 1)
        BY <1>1 DEF GraphInv
    <1>4. StoreOk' /\ Cascades(Sources, Sources')
        BY <1>1, <1>2, <1>3, CommitStep
    <1>5. JobsOk'
        BY <1>2 DEF GraphInv, JobsOk, JobOk
    <1>6. Committed
        BY <1>1, <1>2, <1>3 DEF Committed
    <1>7. QED
        BY <1>4, <1>5, <1>6 DEF StepOk, GraphInv

-----------------------------------------------------------------------------
(* Maintenance keeps the invariant *)

\* A freeze puts an empty source before the others.
LEMMA FreezeOk ==
    ASSUME GraphInv, Freeze
    PROVE  StepOk /\ Frozen
    <1>1. StoreOk /\ JobsOk /\ IsSeq(frozen) /\ IsSeq(segments) /\ Good(Sources, nextNode, nextEdge)
        BY DEF GraphInv, StoreOk
    <1>2. /\ frozen' = <<active>> \o frozen /\ active' = EmptySource
          /\ segments' = segments /\ job' = job /\ nextNode' = nextNode /\ nextEdge' = nextEdge /\ unique' = unique
        BY DEF Freeze, MaintenanceFrame
    <1> DEFINE f == <<active>> \o frozen
               T == <<EmptySource>> \o f \o segments
    <1>3. IsSeq(f)
        BY <1>1, WithIs DEF With
    <1>4. IsSeq(f \o segments) /\ T = With(EmptySource, f \o segments)
        <2> HIDE DEF f
        <2>1. Chained(EmptySource, f, segments)
            BY <1>1, <1>3, SourcesAre
        <2>2. QED
            BY <2>1 DEF Chained
    <1>5. IsSeq(Sources) /\ T = With(EmptySource, Sources)
        BY <1>4 DEF Sources
    <1>6. Sources' = T
        BY <1>2 DEF Sources
    <1> HIDE DEF T, f
    <1>7. Good(T, nextNode, nextEdge) /\ SameNodes(Sources, T)
        BY <1>1, <1>5, EmptyFront
    <1>8. Cascades(Sources, Sources')
        BY <1>6, <1>7, SameNodesCascades
    <1>9. Good(Sources, nextNode, nextEdge)'
        BY <1>2, <1>6, <1>7 DEF Good
    <1>10. IsSeq(frozen)'
        BY <1>2, <1>3 DEF f
    <1>11. StoreOk'
        BY <1>1, <1>2, <1>9, <1>10 DEF StoreOk
    <1>12. JobsOk'
        BY <1>1, <1>2 DEF JobsOk, JobOk
    <1>13. QED
        BY <1>5, <1>6, <1>8, <1>11, <1>12 DEF StepOk, GraphInv, Frozen

\* A flush moves a source without changing the list.
LEMMA FlushOk ==
    ASSUME GraphInv, Flush
    PROVE  StepOk /\ Flushed
    <1>1. StoreOk /\ JobsOk /\ IsSeq(frozen) /\ IsSeq(segments) /\ Good(Sources, nextNode, nextEdge)
        BY DEF GraphInv, StoreOk
    <1> DEFINE f == SubSeq(frozen, 1, Len(frozen) - 1)
               x == frozen[Len(frozen)]
               g == With(x, segments)
    <1>2. /\ frozen' = f /\ segments' = g /\ active' = active
          /\ job' = job /\ nextNode' = nextNode /\ nextEdge' = nextEdge /\ unique' = unique /\ frozen # <<>>
        BY DEF Flush, MaintenanceFrame, Last, Front, With
    <1>3. /\ Layered(active, frozen, segments, Sources) /\ Len(frozen) \in Nat /\ Len(segments) \in Nat
        BY <1>1, SegmentsOk
    <1>4. Len(frozen) # 0
        <2>1. PICK X : frozen \in Seq(X)
            BY <1>1 DEF IsSeq
        <2>2. QED
            BY <1>2, <2>1, EmptySeq
    <1>5. IsSeq(f) /\ Len(f) = Len(frozen) - 1 /\ \A i \in 1..(Len(frozen) - 1) : f[i] = frozen[i]
        <2>1. Len(frozen) - 1 \in 0..Len(frozen)
            BY <1>3, <1>4
        <2>2. QED
            BY <1>1, <2>1, PrefixIs
    <1>6. IsSeq(g) /\ Len(g) = Len(segments) + 1 /\ g[1] = x /\ \A i \in 2..(Len(segments) + 1) : g[i] = segments[i - 1]
        BY <1>1, WithIs
    <1> HIDE DEF f, g
    <1>7. Layered(active, f, g, Sources')
        BY <1>2, <1>5, <1>6, SourcesLayered DEF Sources
    <1>8. Len(Sources') = Len(Sources) /\ IsSeq(Sources) /\ IsSeq(Sources')
        BY <1>3, <1>5, <1>6, <1>7 DEF Layered
    <1>9. ASSUME NEW i \in 1..Len(Sources) PROVE Sources'[i] = Sources[i]
        <2>1. CASE i = 1
            BY <1>3, <1>7, <2>1 DEF Layered
        <2>2. CASE i \in 2..Len(frozen)
            <3> DEFINE k == i - 1
            <3>1. k \in 1..(Len(frozen) - 1) /\ k \in 1..Len(frozen) /\ k \in 1..Len(f) /\ i = k + 1
                BY <1>3, <1>5, <2>2
            <3> HIDE DEF k
            <3>2. QED
                BY <1>3, <1>5, <1>7, <3>1 DEF Layered
        <2>3. CASE i = Len(frozen) + 1
            <3>1. Sources[i] = x
                BY <1>3, <1>4, <2>3 DEF Layered
            <3>2. i = (Len(f) + 1) + 1 /\ 1 \in 1..Len(g)
                BY <1>3, <1>5, <1>6, <2>3
            <3>3. Sources'[i] = g[1]
                BY <1>7, <3>2 DEF Layered
            <3>4. QED
                BY <1>6, <3>1, <3>3
        <2>4. CASE i \in (Len(frozen) + 2)..Len(Sources)
            <3> DEFINE k == i - (Len(frozen) + 1)
            <3>0. Len(Sources) = (Len(frozen) + 1) + Len(segments)
                BY <1>3 DEF Layered
            <3>1. /\ k \in 1..Len(segments) /\ i = (Len(frozen) + 1) + k
                  /\ k + 1 \in 1..Len(g) /\ k + 1 \in 2..(Len(segments) + 1) /\ (k + 1) - 1 = k /\ i = (Len(f) + 1) + (k + 1)
                BY <1>3, <1>5, <1>6, <2>4, <3>0
            <3> HIDE DEF k
            <3>2. Sources[i] = segments[k]
                BY <1>3, <3>1 DEF Layered
            <3>3. Sources'[i] = g[k + 1]
                BY <1>7, <3>1 DEF Layered
            <3>4. g[k + 1] = segments[k]
                BY <1>6, <3>1
            <3>5. QED
                BY <3>2, <3>3, <3>4
        <2>5. Len(Sources) \in Nat
            BY <1>3 DEF Layered
        <2>6. QED
            BY <1>3, <1>4, <2>1, <2>2, <2>3, <2>4, <2>5
    <1>10. Sources' = Sources
        BY <1>8, <1>9, SameSeq
    <1>11. Good(Sources, nextNode, nextEdge)'
        BY <1>1, <1>2, <1>10 DEF Good
    <1>12. IsSeq(frozen)' /\ IsSeq(segments)'
        BY <1>2, <1>5, <1>6
    <1>13. StoreOk'
        BY <1>1, <1>2, <1>11, <1>12 DEF StoreOk
    <1>14. Cascades(Sources, Sources')
        <2>1. SameNodes(Sources, Sources')
            BY <1>10 DEF SameNodes
        <2>2. QED
            BY <2>1, SameNodesCascades
    <1>15. ASSUME NEW j \in job PROVE JobOk(j)'
        <2>1. j.n \in 1..Len(segments) /\ SourceOk(j.out) /\ Picks(segments, Len(segments) - j.n, j.out)
            BY <1>1 DEF JobsOk, JobOk
        <2> DEFINE base == Len(segments) - j.n
        <2>2. base \in 0..Len(segments) /\ Len(g) = 1 + Len(segments) /\ Len(g) - j.n = 1 + base /\ j.n \in 1..Len(g)
            BY <1>3, <1>6, <2>1
        <2>3. \A i \in 1..Len(segments) : g[1 + i] = segments[i]
            BY <1>3, <1>6
        <2> HIDE DEF base
        <2>4. Picks(segments, base, j.out)
            BY <2>1 DEF base
        <2>5. Picks(g, 1 + base, j.out)
            BY <1>3, <2>2, <2>3, <2>4, PicksShift
        <2>6. Picks(segments', Len(segments') - j.n, j.out)
            BY <1>2, <2>2, <2>5
        <2>7. QED
            BY <1>2, <2>1, <2>2, <2>6 DEF JobOk
    <1>16. JobsOk'
        BY <1>2, <1>15 DEF JobsOk
    <1>17. Flushed
        BY <1>2, <1>10 DEF Flushed, g
    <1>18. QED
        BY <1>13, <1>14, <1>16, <1>17 DEF StepOk, GraphInv

\* The store does not change.
LEMMA StoreKept ==
    ASSUME StoreOk, active' = active, frozen' = frozen, segments' = segments, nextNode' = nextNode,
           nextEdge' = nextEdge, unique' = unique
    PROVE  StoreOk' /\ Cascades(Sources, Sources')
    <1>1. Sources' = Sources
        BY DEF Sources
    <1>2. Good(Sources, nextNode, nextEdge)'
        BY <1>1 DEF StoreOk, Good
    <1>3. SameNodes(Sources, Sources')
        BY <1>1 DEF SameNodes
    <1>4. QED
        BY <1>2, <1>3, SameNodesCascades DEF StoreOk

\* A compaction starts with the segments there are.
LEMMA StartCompactOk ==
    ASSUME GraphInv, StartCompact
    PROVE  StepOk
    <1>1. StoreOk /\ IsSeq(segments)
        BY DEF GraphInv, StoreOk
    <1> DEFINE j == [n |-> Len(segments), out |-> Merge(segments, policy), policy |-> policy]
    <1>2. /\ active' = active /\ frozen' = frozen /\ segments' = segments /\ nextNode' = nextNode
          /\ nextEdge' = nextEdge /\ unique' = unique /\ job' = {j} /\ Len(segments) >= 2
        BY DEF StartCompact, storeVars, MaintenanceFrame
    <1>3. Len(segments) \in Nat /\ \A i \in 1..Len(segments) : SourceOk(segments[i])
        BY <1>1, SegmentsOk
    <1>4. Merged(segments, Merge(segments, policy))
        BY <1>1, <1>2, <1>3, MergeIs
    <1>5. JobOk(j)
        <2>1. j.n = Len(segments) /\ j.out = Merge(segments, policy)
            OBVIOUS
        <2>2. j.n \in 1..Len(segments) /\ Len(segments) - j.n = 0
            BY <1>2, <1>3, <2>1
        <2> HIDE DEF j
        <2>3. QED
            BY <1>4, <2>1, <2>2 DEF JobOk, Merged
    <1> HIDE DEF j
    <1>6. JobsOk'
        BY <1>2, <1>5 DEF JobsOk, JobOk
    <1>7. StoreOk' /\ Cascades(Sources, Sources')
        BY <1>1, <1>2, StoreKept
    <1>8. QED
        BY <1>6, <1>7 DEF StepOk, GraphInv

\* It ends with its output in their place, behind what was flushed meanwhile.
LEMMA FinishCompactOk ==
    ASSUME GraphInv, FinishCompact
    PROVE  StepOk /\ Replaced
    <1>1. StoreOk /\ JobsOk /\ IsSeq(frozen) /\ IsSeq(segments) /\ Good(Sources, nextNode, nextEdge)
        BY DEF GraphInv, StoreOk
    <1>2. PICK j \in job : segments' = Append(SubSeq(segments, 1, Len(segments) - j.n), j.out)
        BY DEF FinishCompact
    <1>3. /\ active' = active /\ frozen' = frozen /\ nextNode' = nextNode
          /\ nextEdge' = nextEdge /\ unique' = unique /\ job' = {}
        BY DEF FinishCompact, MaintenanceFrame
    <1>4. /\ Layered(active, frozen, segments, Sources) /\ Len(frozen) \in Nat /\ Len(segments) \in Nat
        BY <1>1, SegmentsOk
    <1>5. j.n \in 1..Len(segments) /\ SourceOk(j.out) /\ Picks(segments, Len(segments) - j.n, j.out)
        BY <1>1 DEF JobsOk, JobOk
    <1> DEFINE base == Len(segments) - j.n
               kept == SubSeq(segments, 1, base)
               g == Append(kept, j.out)
               off == Len(frozen) + 1
               p == off + base
    <1>6. base \in 0..Len(segments) /\ base \in Nat /\ off \in Nat /\ p \in Nat
        BY <1>4, <1>5
    <1>7. segments' = g /\ Picks(segments, base, j.out)
        BY <1>2, <1>5
    <1> HIDE DEF base
    <1>8. IsSeq(kept) /\ Len(kept) = base /\ \A i \in 1..base : kept[i] = segments[i]
        BY <1>1, <1>6, PrefixIs
    <1> HIDE DEF kept
    <1>9. IsSeq(g) /\ Len(g) = base + 1 /\ (\A i \in 1..base : g[i] = kept[i]) /\ g[base + 1] = j.out
        <2>1. IsSeq(kept)
            BY <1>8
        <2>2. /\ IsSeq(g) /\ Len(g) = Len(kept) + 1 /\ (\A i \in 1..Len(kept) : g[i] = kept[i]) /\ g[Len(kept) + 1] = j.out
            BY <2>1, AppendIs
        <2> HIDE DEF g
        <2>3. QED
            BY <1>8, <2>2
    <1> HIDE DEF g
    <1>10. Layered(active, frozen, g, Sources')
        BY <1>1, <1>3, <1>7, <1>9, SourcesLayered DEF Sources
    <1>11. /\ IsSeq(Sources') /\ Len(Sources') = p + 1 /\ Len(Sources) = off + Len(segments)
           /\ (\A i \in 1..Len(segments) : Sources[off + i] = segments[i])
        BY <1>4, <1>6, <1>9, <1>10 DEF Layered
    <1>12. Picks(Sources, p, j.out)
        <2> HIDE DEF off
        <2>1. QED
            BY <1>4, <1>6, <1>7, <1>11, PicksShift
    <1>13. ASSUME NEW i \in 1..p PROVE Sources'[i] = Sources[i]
        <2>1. CASE i = 1
            BY <1>4, <1>10, <2>1 DEF Layered
        <2>2. CASE i \in 2..(Len(frozen) + 1)
            <3> DEFINE k == i - 1
            <3>1. k \in 1..Len(frozen) /\ i = k + 1
                BY <1>4, <2>2
            <3> HIDE DEF k
            <3>2. QED
                BY <1>4, <1>10, <3>1 DEF Layered
        <2>3. CASE i \in (Len(frozen) + 2)..p
            <3> DEFINE k == i - (Len(frozen) + 1)
            <3>1. k \in 1..base /\ i = (Len(frozen) + 1) + k /\ k \in 1..Len(segments) /\ k \in 1..Len(g)
                BY <1>4, <1>6, <1>9, <2>3
            <3> HIDE DEF k, p, off
            <3>2. Sources'[i] = g[k] /\ Sources[i] = segments[k]
                BY <1>4, <1>10, <3>1 DEF Layered
            <3>3. g[k] = segments[k]
                BY <1>8, <1>9, <3>1
            <3>4. QED
                BY <3>2, <3>3
        <2>4. QED
            BY <1>4, <1>6, <2>1, <2>2, <2>3
    <1>14. Sources'[p + 1] = j.out
        <2>1. base + 1 \in 1..Len(g) /\ p + 1 = (Len(frozen) + 1) + (base + 1)
            BY <1>4, <1>6, <1>9
        <2>2. Sources'[(Len(frozen) + 1) + (base + 1)] = g[base + 1]
            BY <1>10, <2>1 DEF Layered
        <2> HIDE DEF p
        <2>3. QED
            BY <1>9, <2>1, <2>2
    <1>15. p <= Len(Sources) /\ DOMAIN Sources' = 1..(p + 1)
        <2>1. p <= Len(Sources)
            BY <1>4, <1>6, <1>11
        <2>2. DOMAIN Sources' = 1..Len(Sources')
            BY <1>11, SeqIs
        <2>3. QED
            BY <1>11, <2>1, <2>2
    <1>16. Compacted(Sources, Sources', p, j.out)
        <2> HIDE DEF p, off
        <2>1. QED
            BY <1>5, <1>6, <1>11, <1>12, <1>13, <1>14, <1>15 DEF Compacted
    <1> HIDE DEF p, off
    <1>17. Good(Sources', nextNode, nextEdge) /\ NoneDies(Sources, Sources')
        BY <1>1, <1>16, CompactedGood
    <1>18. Good(Sources, nextNode, nextEdge)'
        BY <1>3, <1>17 DEF Good
    <1>19. StoreOk'
        BY <1>1, <1>3, <1>7, <1>9, <1>18 DEF StoreOk
    <1>20. JobsOk'
        BY <1>3 DEF JobsOk
    <1>21. Replaced
        BY <1>16 DEF Replaced, p, off, base
    <1>22. QED
        BY <1>17, <1>19, <1>20, <1>21, NoneDiesCascades DEF StepOk, GraphInv

\* Steps that change neither the sources nor the segments under compaction.
LEMMA OthersOk ==
    ASSUME GraphInv, CancelCompact \/ SetPrunePolicy \/ UNCHANGED vars
    PROVE  StepOk
    <1>1. /\ active' = active /\ frozen' = frozen /\ segments' = segments /\ nextNode' = nextNode
          /\ nextEdge' = nextEdge /\ unique' = unique /\ (job' = {} \/ job' = job)
        BY DEF CancelCompact, SetPrunePolicy, MaintenanceFrame, storeVars, vars
    <1>2. StoreOk' /\ Cascades(Sources, Sources')
        BY <1>1, StoreKept DEF GraphInv
    <1>3. JobsOk'
        BY <1>1 DEF GraphInv, JobsOk, JobOk
    <1>4. QED
        BY <1>2, <1>3 DEF StepOk, GraphInv

-----------------------------------------------------------------------------
(* Writes keep the invariant *)

\* Ids given out are within the bounds.
LEMMA KnownAre ==
    ASSUME StoreOk
    PROVE  KnownNodes \subseteq NodeIds /\ KnownEdges \subseteq EdgeIds
    BY GraphConstantsAssumption DEF StoreOk, KnownNodes, KnownEdges, NodeIds, EdgeIds

\* One lemma per write: its plan is sound, so its commit is.
LEMMA UpsertNodeOk ==
    ASSUME GraphInv, UpsertNode
    PROVE  StepOk /\ Committed
    <1>1. PICK ls \in LabelSets, k \in Keys, low \in Weights : Commit(PlanUpsertNode(NodeInput(ls, k, low)))
        BY DEF UpsertNode, Single
    <1> DEFINE input == NodeInput(ls, k, low)
    <1>2. input.labels \subseteq Labels /\ input.key \in Keys
        BY DEF NodeInput, LabelSets
    <1> HIDE DEF input
    <1>3. ASSUME NEW plan \in PlanUpsertNode(input), plan.nodes <= MaxNode + 1 PROVE PlanOk(plan, seq + 1)
        BY <1>2, <1>3, UpsertNodePlan DEF GraphInv
    <1>4. Commit(PlanUpsertNode(input))
        BY <1>1 DEF input
    <1>5. QED
        BY <1>3, <1>4, CommitOk

LEMMA AddNodeLabelOk ==
    ASSUME GraphInv, AddNodeLabel
    PROVE  StepOk /\ Committed
    <1>1. PICK n \in KnownNodes, l \in Labels : Commit(PlanAddNodeLabel(n, l))
        BY DEF AddNodeLabel, Single
    <1>2. StoreOk /\ n \in NodeIds
        BY KnownAre DEF GraphInv
    <1>3. ASSUME NEW plan \in PlanAddNodeLabel(n, l) PROVE PlanOk(plan, seq + 1)
        BY <1>2, AddLabelPlan
    <1>4. QED
        BY <1>1, <1>3, CommitOk

LEMMA RemoveNodeLabelOk ==
    ASSUME GraphInv, RemoveNodeLabel
    PROVE  StepOk /\ Committed
    <1>1. PICK n \in KnownNodes, l \in Labels : Commit(PlanRemoveNodeLabel(n, l))
        BY DEF RemoveNodeLabel, Single
    <1>2. StoreOk /\ n \in NodeIds
        BY KnownAre DEF GraphInv
    <1>3. ASSUME NEW plan \in PlanRemoveNodeLabel(n, l) PROVE PlanOk(plan, seq + 1)
        BY <1>2, RemoveLabelPlan
    <1>4. QED
        BY <1>1, <1>3, CommitOk

LEMMA UpsertEdgeOk ==
    ASSUME GraphInv, UpsertEdge
    PROVE  StepOk /\ Committed
    <1>1. PICK p \in KnownEnds, v \in BOOLEAN : Commit(PlanUpsertEdge(EdgeInput(p[1], p[2], v)))
        BY DEF UpsertEdge, Single
    <1> DEFINE input == EdgeInput(p[1], p[2], v)
    <1>2. input.from \in 1..(nextNode - 1) /\ input.to \in 1..(nextNode - 1)
        BY DEF EdgeInput, KnownEnds, KnownNodes
    <1> HIDE DEF input
    <1>3. ASSUME NEW plan \in PlanUpsertEdge(input), plan.edges <= MaxEdge + 1 PROVE PlanOk(plan, seq + 1)
        BY <1>2, <1>3, UpsertEdgePlan DEF GraphInv
    <1>4. Commit(PlanUpsertEdge(input))
        BY <1>1 DEF input
    <1>5. QED
        BY <1>3, <1>4, CommitOk

LEMMA DeleteNodeOk ==
    ASSUME GraphInv, DeleteNode
    PROVE  StepOk /\ Committed
    <1>1. PICK n \in 1..(nextNode - 1) : Commit(PlanDeleteNode(n))
        BY DEF DeleteNode, Single, KnownNodes
    <1>2. ASSUME NEW plan \in PlanDeleteNode(n) PROVE PlanOk(plan, seq + 1)
        BY DeleteNodePlan DEF GraphInv
    <1>3. QED
        BY <1>1, <1>2, CommitOk

LEMMA DeleteEdgeOk ==
    ASSUME GraphInv, DeleteEdge
    PROVE  StepOk /\ Committed
    <1>1. PICK e \in 1..(nextEdge - 1) : Commit(PlanDeleteEdge(e))
        BY DEF DeleteEdge, Single, KnownEdges
    <1>2. ASSUME NEW plan \in PlanDeleteEdge(e) PROVE PlanOk(plan, seq + 1)
        BY DeleteEdgePlan DEF GraphInv
    <1>3. QED
        BY <1>1, <1>2, CommitOk

LEMMA InvalidateEdgeOk ==
    ASSUME GraphInv, InvalidateEdge
    PROVE  StepOk /\ Committed
    <1>1. PICK e \in KnownEdges : Commit(PlanInvalidateEdge(e))
        BY DEF InvalidateEdge, Single
    <1>2. StoreOk /\ e \in EdgeIds
        BY KnownAre DEF GraphInv
    <1>3. ASSUME NEW plan \in PlanInvalidateEdge(e) PROVE PlanOk(plan, seq + 1)
        BY <1>2, InvalidatePlan
    <1>4. QED
        BY <1>1, <1>3, CommitOk

LEMMA PruneOk ==
    ASSUME GraphInv, Prune
    PROVE  StepOk /\ Committed
    <1>1. Commit(PlanPrune)
        BY DEF Prune, Single
    <1>2. ASSUME NEW plan \in PlanPrune PROVE PlanOk(plan, seq + 1)
        BY PrunePlan DEF GraphInv
    <1>3. QED
        BY <1>1, <1>2, CommitOk

\* A function on 1..m is a sequence.
LEMMA TuplesAre ==
    ASSUME NEW S, NEW m \in Nat, NEW q \in [1..m -> S]
    PROVE  IsSeq(q) /\ Len(q) = m /\ \A i \in 1..Len(q) : q[i] \in S
    <1>1. q \in Seq(S) /\ Len(q) = m
        OBVIOUS
    <1>2. QED
        BY <1>1 DEF IsSeq

\* The parts of a patch are sequences.
LEMMA BoundedAre ==
    ASSUME NEW S, NEW q \in BoundedSeq(S, 1)
    PROVE  IsSeq(q) /\ \A i \in 1..Len(q) : q[i] \in S
    <1>1. PICK m \in 0..1 : q \in [1..m -> S]
        BY DEF BoundedSeq, SeqOf
    <1>2. m \in Nat
        OBVIOUS
    <1>3. QED
        BY <1>1, <1>2, TuplesAre

\* The entries of batches and patches.
LEMMA NodeInputsAre ==
    ASSUME NEW q, IsSeq(q), \A i \in 1..Len(q) : q[i] \in NodeInputs
    PROVE  NodeEntries(q)
    BY DEF NodeEntries, NodeInputs, NodeInput, LabelSets

\* The same for edges, whose ends are known nodes.
LEMMA EdgeInputsAre ==
    ASSUME NEW q, IsSeq(q), \A i \in 1..Len(q) : q[i] \in EdgeInputs
    PROVE  EdgeEntries(q, nextNode)
    BY DEF EdgeEntries, EdgeInputs, EdgeInput, KnownEnds, KnownNodes

LEMMA BatchUpsertNodesOk ==
    ASSUME GraphInv, BatchUpsertNodes
    PROVE  StepOk /\ Committed
    <1>1. PICK q \in TupleOf(NodeInputs, MaxPatchParts) : Commit(PlanBatchUpsertNodes(q))
        BY DEF BatchUpsertNodes, Several
    <1>2. NodeEntries(q)
        <2>1. IsSeq(q) /\ \A i \in 1..Len(q) : q[i] \in NodeInputs
            BY TuplesAre, GraphConstantsAssumption DEF TupleOf
        <2>2. QED
            BY <2>1, NodeInputsAre
    <1>3. ASSUME NEW plan \in PlanBatchUpsertNodes(q), plan.nodes <= MaxNode + 1 PROVE PlanOk(plan, seq + 1)
        BY <1>2, <1>3, BatchNodesPlan DEF GraphInv
    <1>4. QED
        BY <1>1, <1>3, CommitOk

LEMMA BatchUpsertEdgesOk ==
    ASSUME GraphInv, BatchUpsertEdges
    PROVE  StepOk /\ Committed
    <1>1. PICK q \in TupleOf(EdgeInputs, MaxPatchParts) : Commit(PlanBatchUpsertEdges(q))
        BY DEF BatchUpsertEdges, Several
    <1>2. EdgeEntries(q, nextNode)
        <2>1. IsSeq(q) /\ \A i \in 1..Len(q) : q[i] \in EdgeInputs
            BY TuplesAre, GraphConstantsAssumption DEF TupleOf
        <2>2. QED
            BY <2>1, EdgeInputsAre
    <1>3. ASSUME NEW plan \in PlanBatchUpsertEdges(q), plan.edges <= MaxEdge + 1 PROVE PlanOk(plan, seq + 1)
        BY <1>2, <1>3, BatchEdgesPlan DEF GraphInv
    <1>4. QED
        BY <1>1, <1>3, CommitOk

LEMMA GraphPatchOk ==
    ASSUME GraphInv, GraphPatch
    PROVE  StepOk /\ Committed
    <1>1. PICK ns \in BoundedSeq(NodeInputs, 1), es \in BoundedSeq(EdgeInputs, 1),
               inv \in BoundedSeq((KnownEdges \union {nextEdge}) \cap EdgeIds, 1),
               de \in BoundedSeq(KnownEdges, 1), dn \in BoundedSeq(KnownNodes, 1) :
               Commit(PlanGraphPatch([nodes |-> ns, edges |-> es, invalidate |-> inv,
                                      deleteEdges |-> de, deleteNodes |-> dn]))
        BY DEF GraphPatch, Several
    <1> DEFINE patch == [nodes |-> ns, edges |-> es, invalidate |-> inv, deleteEdges |-> de, deleteNodes |-> dn]
    <1>2. /\ patch.nodes = ns /\ patch.edges = es /\ patch.invalidate = inv
          /\ patch.deleteEdges = de /\ patch.deleteNodes = dn
        OBVIOUS
    <1> HIDE DEF patch
    <1>3. NodeEntries(ns)
        <2>1. IsSeq(ns) /\ \A i \in 1..Len(ns) : ns[i] \in NodeInputs
            BY BoundedAre
        <2>2. QED
            BY <2>1, NodeInputsAre
    <1>4. EdgeEntries(es, nextNode)
        <2>1. IsSeq(es) /\ \A i \in 1..Len(es) : es[i] \in EdgeInputs
            BY BoundedAre
        <2>2. QED
            BY <2>1, EdgeInputsAre
    <1>5. IsSeq(inv) /\ \A i \in 1..Len(inv) : inv[i] \in EdgeIds
        <2>1. IsSeq(inv) /\ \A i \in 1..Len(inv) : inv[i] \in (KnownEdges \union {nextEdge}) \cap EdgeIds
            BY BoundedAre
        <2>2. QED
            BY <2>1
    <1>6. IsSeq(de) /\ ToSet(de) \subseteq 1..(nextEdge - 1)
        <2>1. IsSeq(de) /\ \A i \in 1..Len(de) : de[i] \in KnownEdges
            BY BoundedAre
        <2>2. DOMAIN de = 1..Len(de)
            BY <2>1, SeqIs
        <2>3. QED
            BY <2>1, <2>2 DEF ToSet, KnownEdges
    <1>7. IsSeq(dn) /\ ToSet(dn) \subseteq 1..(nextNode - 1)
        <2>1. IsSeq(dn) /\ \A i \in 1..Len(dn) : dn[i] \in KnownNodes
            BY BoundedAre
        <2>2. DOMAIN dn = 1..Len(dn)
            BY <2>1, SeqIs
        <2>3. QED
            BY <2>1, <2>2 DEF ToSet, KnownNodes
    <1>8. PatchOk(patch)
        BY <1>2, <1>3, <1>4, <1>5, <1>6, <1>7 DEF PatchOk
    <1>9. ASSUME NEW plan \in PlanGraphPatch(patch), plan.nodes <= MaxNode + 1, plan.edges <= MaxEdge + 1
          PROVE  PlanOk(plan, seq + 1)
        BY <1>8, <1>9, PatchPlan DEF GraphInv
    <1>10. Commit(PlanGraphPatch(patch))
        BY <1>1 DEF patch
    <1>11. QED
        BY <1>9, <1>10, CommitOk

\* Every step keeps the invariant, and its deletions cascade.
LEMMA NextOk ==
    ASSUME GraphInv, [Next]_vars
    PROVE  StepOk
    <1>1. CASE Write
        BY <1>1, UpsertNodeOk, AddNodeLabelOk, RemoveNodeLabelOk, UpsertEdgeOk, DeleteNodeOk, DeleteEdgeOk,
           InvalidateEdgeOk, PruneOk, BatchUpsertNodesOk, BatchUpsertEdgesOk, GraphPatchOk DEF Write
    <1>2. CASE Maintain
        BY <1>2, FreezeOk, FlushOk, StartCompactOk, FinishCompactOk, OthersOk DEF Maintain
    <1>3. CASE SetPrunePolicy \/ UNCHANGED vars
        BY <1>3, OthersOk
    <1>4. QED
        BY <1>1, <1>2, <1>3 DEF Next

-----------------------------------------------------------------------------
(* The databases to start with *)

OneLabel == CHOOSE l \in Labels : TRUE

\* The operations of the larger one.
StarOpsList(ops, key) ==
    /\ IsSeq(ops) /\ Len(ops) = 5
    /\ ops[1] = Op("n", 1, NodeRecord({OneLabel}, FirstKey, FALSE))
    /\ ops[2] = Op("n", 2, NodeRecord(Labels \ {OneLabel}, FirstKey, FALSE))
    /\ ops[3] = Op("e", 1, EdgeRecord(1, 2, TRUE))
    /\ ops[4] = Op("n", 3, NodeRecord(Labels, key, TRUE))
    /\ ops[5] = Op("e", 2, EdgeRecord(1, 3, TRUE))

\* They are the operations of StarOps.
LEMMA StarOpsAre ==
    ASSUME NEW key
    PROVE  StarOpsList(StarOps(key), key)
    <1> DEFINE a == Op("n", 1, NodeRecord({OneLabel}, FirstKey, FALSE))
               b == Op("n", 2, NodeRecord(Labels \ {OneLabel}, FirstKey, FALSE))
               c == Op("e", 1, EdgeRecord(1, 2, TRUE))
               d == Op("n", 3, NodeRecord(Labels, key, TRUE))
               e == Op("e", 2, EdgeRecord(1, 3, TRUE))
    <1>1. StarOps(key) = <<a, b, c>> \o <<d, e>>
        BY DEF StarOps, PairOps, UpsertNodeOp, UpsertEdgeOp, NodeInput, EdgeInput, OneLabel
    <1> HIDE DEF a, b, c, d, e
    <1>2. <<a, b, c>> \in Seq({a, b, c, d, e}) /\ <<d, e>> \in Seq({a, b, c, d, e})
        OBVIOUS
    <1>3. IsSeq(<<a, b, c>>) /\ IsSeq(<<d, e>>)
        BY <1>2 DEF IsSeq
    <1>4. Len(<<a, b, c>>) = 3 /\ Len(<<d, e>>) = 2
        OBVIOUS
    <1> DEFINE p == <<a, b, c>>
               q == <<d, e>>
    <1>5. p[1] = a /\ p[2] = b /\ p[3] = c /\ q[1] = d /\ q[2] = e
        OBVIOUS
    <1>6. Len(p) = 3 /\ Len(q) = 2 /\ IsSeq(p) /\ IsSeq(q) /\ StarOps(key) = p \o q
        BY <1>1, <1>3, <1>4
    <1> HIDE DEF p, q
    <1> DEFINE r == p \o q
    <1>7. IsSeq(r) /\ Len(r) = Len(p) + Len(q) /\ (\A i \in 1..Len(p) : r[i] = p[i]) /\ (\A i \in 1..Len(q) : r[Len(p) + i] = q[i])
        <2>1. IsSeq(p)
            BY <1>6
        <2>2. IsSeq(q)
            BY <1>6
        <2>3. QED
            BY <2>1, <2>2, ConcatIs
    <1> HIDE DEF r
    <1>8. r[1] = a /\ r[2] = b /\ r[3] = c
        BY <1>5, <1>6, <1>7
    <1>9. r[3 + 1] = d /\ r[3 + 2] = e
        BY <1>5, <1>6, <1>7
    <1>10. IsSeq(r) /\ Len(r) = 5 /\ r[4] = d /\ r[5] = e
        BY <1>6, <1>7, <1>9
    <1>11. StarOpsList(r, key)
        BY <1>8, <1>10 DEF StarOpsList, a, b, c, d, e
    <1>12. QED
        BY <1>6, <1>11 DEF r

\* Nothing is known of any id.
Blank(S) == (\A n \in NodeIds : Opinion(S, "n", n) = Absent) /\ (\A e \in EdgeIds : Opinion(S, "e", e) = Absent)

\* An empty memtable alone is sound.
LEMMA EmptyGood ==
    ASSUME NEW nodes, NEW edges
    PROVE  Good(With(EmptySource, <<>>), nodes, edges) /\ Blank(With(EmptySource, <<>>))
    <1> DEFINE T == With(EmptySource, <<>>)
    <1>1. IsSeq(<<>>) /\ Len(<<>>) = 0
        BY EmptyIs
    <1>2. Len(T) = 1 /\ DOMAIN T = 1..1 /\ T[1] = EmptySource
        <2>1. Len(T) = Len(<<>>) + 1 /\ DOMAIN T = 1..(Len(<<>>) + 1) /\ T[1] = EmptySource
            BY <1>1, WithIs
        <2> HIDE DEF T
        <2>2. QED
            BY <1>1, <2>1
    <1> HIDE DEF T
    <1>3. /\ DOMAIN EmptySource = {"n", "e", "d"} /\ DOMAIN EmptySource.n = NodeIds /\ DOMAIN EmptySource.e = EdgeIds
          /\ (\A n \in NodeIds : EmptySource.n[n] = Absent) /\ (\A e \in EdgeIds : EmptySource.e[e] = Absent)
        BY DEF EmptySource
    <1>4. \A i \in DOMAIN T : /\ (\A n \in NodeIds : T[i].n[n] = Absent) /\ (\A e \in EdgeIds : T[i].e[e] = Absent)
                              /\ SourceOk(T[i])
        BY <1>2, <1>3 DEF SourceOk, SlotOk
    <1>5. ~IsLive(Absent) /\ ~IsDead(Absent)
        BY DEF IsLive, IsDead, Absent
    <1>6. DeadFinal(T) /\ EndsFixed(T) /\ IdsFresh(T, nodes, edges)
        BY <1>4, <1>5 DEF DeadFinal, EndsFixed, IdsFresh
    <1>7. KeysPassedOn(T)
        BY <1>4, <1>5 DEF KeysPassedOn, Holds
    <1>8. TriplesPassedOn(T)
        BY <1>4, <1>5 DEF TriplesPassedOn, Joins
    <1>9. Good(T, nodes, edges)
        BY <1>2, <1>4, <1>6, <1>7, <1>8 DEF Good
    <1>10. Blank(T)
        BY <1>4 DEF Blank, Opinion
    <1>11. QED
        BY <1>9, <1>10 DEF T

\* Records under fresh ids.
LEMMA FreshNode ==
    ASSUME NEW id \in NodeIds, NEW S, NEW T, NEW edges, Good(S, id, edges), NEW labels, NEW key, NEW low, NEW s,
           Applies(S, T, Op("n", id, NodeRecord(labels, key, low)), s), NEW more, id + 1 = more,
           \A l \in labels : \A n \in NodeIds : n # id => ~Holds(Opinion(S, "n", n), l, key)
    PROVE  Good(T, more, edges)
    <1>1. id \in Nat /\ id + 1 \in Nat /\ id <= id + 1 /\ id < id + 1 /\ id >= id
        BY GraphConstantsAssumption DEF NodeIds
    <1>2. QED
        BY <1>1, UpsertNodeGood

LEMMA FreshEdge ==
    ASSUME NEW id \in EdgeIds, NEW S, NEW T, NEW nodes \in Nat, Good(S, nodes, id), NEW from, NEW to, NEW valid, NEW s,
           from \in 1..(nodes - 1), to \in 1..(nodes - 1),
           Applies(S, T, Op("e", id, EdgeRecord(from, to, valid)), s), NEW more, id + 1 = more,
           \A e \in EdgeIds : e # id => ~Joins(Opinion(S, "e", e), from, to)
    PROVE  Good(T, nodes, more)
    <1>1. id \in Nat /\ id + 1 \in Nat /\ id <= id + 1 /\ id < id + 1 /\ id >= id
        BY GraphConstantsAssumption DEF EdgeIds
    <1>2. QED
        BY <1>1, UpsertEdgeGood

\* Live edges have live ends.
Linked(S) == \A e \in EdgeIds : LET slot == Opinion(S, "e", e)
                               IN  IsLive(slot) => slot.from \in LiveNodes(S) /\ slot.to \in LiveNodes(S)

\* A database of these operations.
LEMMA StarGood ==
    ASSUME NEW key \in Keys \ {FirstKey}, NEW ops, StarOpsList(ops, key)
    PROVE  Good(With(ApplyOps(EmptySource, ops, 0), <<>>), 4, 3) /\ Linked(With(ApplyOps(EmptySource, ops, 0), <<>>))
    <1> DEFINE L == ApplyLoop(EmptySource, ops, 0)
               U(i) == With(L[i], <<>>)
               first == Stamped(NodeRecord({OneLabel}, FirstKey, FALSE), 0)
               second == Stamped(NodeRecord(Labels \ {OneLabel}, FirstKey, FALSE), 0)
               pair == Stamped(EdgeRecord(1, 2, TRUE), 0)
               third == Stamped(NodeRecord(Labels, key, TRUE), 0)
               ray == Stamped(EdgeRecord(1, 3, TRUE), 0)
    <1>1. Len(ops) = 5
        BY DEF StarOpsList
    <1>2. L[0] = EmptySource /\ \A k \in 1..5 : L[k] = ApplyOp(L[k - 1], ops[k], 0)
        <2>1. Len(ops) \in Nat
            BY <1>1
        <2>2. L[0] = EmptySource /\ \A k \in 1..Len(ops) : L[k] = ApplyOp(L[k - 1], ops[k], 0)
            BY <2>1, ApplyLoopTurns
        <2>3. QED
            BY <1>1, <2>2
    <1>3. IsSeq(<<>>)
        BY EmptyIs
    <1> HIDE DEF L
    <1>4. ASSUME NEW k \in 1..5 PROVE Applies(U(k - 1), U(k), ops[k], 0)
        <2>1. L[k] = ApplyOp(L[k - 1], ops[k], 0)
            BY <1>2
        <2>2. Applies(With(L[k - 1], <<>>), With(ApplyOp(L[k - 1], ops[k], 0), <<>>), ops[k], 0)
            BY <1>3, WithApplies
        <2>3. QED
            BY <2>1, <2>2
    <1>5. Good(U(0), 1, 1) /\ Blank(U(0))
        BY <1>2, EmptyGood
    <1> HIDE DEF U
    <1>6. 1 \in NodeIds /\ 2 \in NodeIds /\ 3 \in NodeIds /\ 1 \in EdgeIds /\ 2 \in EdgeIds
        BY GraphConstantsAssumption DEF NodeIds, EdgeIds
    <1>7. /\ IsLive(first) /\ first.labels = {OneLabel} /\ first.key = FirstKey
          /\ IsLive(second) /\ second.labels = Labels \ {OneLabel} /\ second.key = FirstKey
          /\ IsLive(third) /\ third.labels = Labels /\ third.key = key
        <2>1. IsLive(first) /\ first.labels = {OneLabel} /\ first.key = FirstKey
            BY DEF Stamped, NodeRecord, IsLive
        <2>2. IsLive(second) /\ second.labels = Labels \ {OneLabel} /\ second.key = FirstKey
            BY DEF Stamped, NodeRecord, IsLive
        <2>3. IsLive(third) /\ third.labels = Labels /\ third.key = key
            BY DEF Stamped, NodeRecord, IsLive
        <2>4. QED
            BY <2>1, <2>2, <2>3
    <1>8. /\ IsLive(pair) /\ pair.from = 1 /\ pair.to = 2
          /\ IsLive(ray) /\ ray.from = 1 /\ ray.to = 3
        <2>1. IsLive(pair) /\ pair.from = 1 /\ pair.to = 2
            BY DEF Stamped, EdgeRecord, IsLive
        <2>2. IsLive(ray) /\ ray.from = 1 /\ ray.to = 3
            BY DEF Stamped, EdgeRecord, IsLive
        <2>3. QED
            BY <2>1, <2>2
    <1>9. ~IsLive(Absent)
        BY DEF IsLive, Absent
    <1> HIDE DEF first, second, pair, third, ray
    <1>10. first # Absent /\ second # Absent /\ pair # Absent /\ third # Absent /\ ray # Absent
        BY <1>7, <1>8, <1>9
    <1>11. Applies(U(0), U(1), Op("n", 1, NodeRecord({OneLabel}, FirstKey, FALSE)), 0)
        <2>1. 1 \in 1..5 /\ 1 - 1 = 0 /\ ops[1] = Op("n", 1, NodeRecord({OneLabel}, FirstKey, FALSE))
            BY DEF StarOpsList
        <2>2. QED
            BY <1>4, <2>1
    <1>12. \A l : \A n \in NodeIds : n # 1 => ~Holds(Opinion(U(0), "n", n), l, FirstKey)
        BY <1>7, <1>8, <1>9, <1>5 DEF Holds, Joins, Blank
    <1>13. Good(U(1), 2, 1)
        <2>1. 1 + 1 = 2
            OBVIOUS
        <2>2. Good(U(0), 1, 1)
            BY <1>5
        <2>3. QED
            BY <1>6, <2>1, <2>2, <1>5, <1>11, <1>12, FreshNode
    <1>14. NodeRevised(U(0), U(1), 1, first)
        BY <1>6, <1>10, <1>5, <1>11, NodeOpOpinion DEF first
    <1>15. /\ \A n \in NodeIds : Opinion(U(1), "n", n) = first \/ Opinion(U(1), "n", n) = Absent
          /\ \A e \in EdgeIds : Opinion(U(1), "e", e) = Absent
        BY <1>5, <1>14 DEF NodeRevised, Blank
    <1>16. Applies(U(1), U(2), Op("n", 2, NodeRecord(Labels \ {OneLabel}, FirstKey, FALSE)), 0)
        <2>1. 2 \in 1..5 /\ 2 - 1 = 1 /\ ops[2] = Op("n", 2, NodeRecord(Labels \ {OneLabel}, FirstKey, FALSE))
            BY DEF StarOpsList
        <2>2. QED
            BY <1>4, <2>1
    <1>17. \A l \in Labels \ {OneLabel} : \A n \in NodeIds : n # 2 => ~Holds(Opinion(U(1), "n", n), l, FirstKey)
        BY <1>7, <1>8, <1>9, <1>15 DEF Holds, Joins, Blank
    <1>18. Good(U(2), 3, 1)
        <2>1. 2 + 1 = 3
            OBVIOUS
        <2>2. Good(U(1), 2, 1)
            BY <1>13
        <2>3. QED
            BY <1>6, <2>1, <2>2, <1>13, <1>16, <1>17, FreshNode
    <1>19. NodeRevised(U(1), U(2), 2, second)
        BY <1>6, <1>10, <1>13, <1>16, NodeOpOpinion DEF second
    <1>20. /\ \A n \in NodeIds : Opinion(U(2), "n", n) = first \/ Opinion(U(2), "n", n) = second \/ Opinion(U(2), "n", n) = Absent
          /\ \A e \in EdgeIds : Opinion(U(2), "e", e) = Absent
        BY <1>15, <1>19 DEF NodeRevised, Blank
    <1>21. Applies(U(2), U(3), Op("e", 1, EdgeRecord(1, 2, TRUE)), 0)
        <2>1. 3 \in 1..5 /\ 3 - 1 = 2 /\ ops[3] = Op("e", 1, EdgeRecord(1, 2, TRUE))
            BY DEF StarOpsList
        <2>2. QED
            BY <1>4, <2>1
    <1>22. \A e \in EdgeIds : e # 1 => ~Joins(Opinion(U(2), "e", e), 1, 2)
        BY <1>7, <1>8, <1>9, <1>20 DEF Holds, Joins, Blank
    <1>23. Good(U(3), 3, 2)
        <2>1. 1 + 1 = 2
            OBVIOUS
        <2>2. 3 \in Nat /\ 1 \in 1..(3 - 1) /\ 2 \in 1..(3 - 1)
            BY <1>18
        <2>3. QED
            BY <1>6, <2>1, <2>2, <1>18, <1>21, <1>22, FreshEdge
    <1>24. EdgeRevised(U(2), U(3), 1, pair)
        BY <1>6, <1>10, <1>18, <1>21, EdgeOpOpinion DEF pair
    <1>25. /\ \A n \in NodeIds : Opinion(U(3), "n", n) = first \/ Opinion(U(3), "n", n) = second \/ Opinion(U(3), "n", n) = Absent
          /\ \A e \in EdgeIds : Opinion(U(3), "e", e) = pair \/ Opinion(U(3), "e", e) = Absent
        BY <1>20, <1>24 DEF EdgeRevised, Blank
    <1>26. Applies(U(3), U(4), Op("n", 3, NodeRecord(Labels, key, TRUE)), 0)
        <2>1. 4 \in 1..5 /\ 4 - 1 = 3 /\ ops[4] = Op("n", 3, NodeRecord(Labels, key, TRUE))
            BY DEF StarOpsList
        <2>2. QED
            BY <1>4, <2>1
    <1>27. \A l \in Labels : \A n \in NodeIds : n # 3 => ~Holds(Opinion(U(3), "n", n), l, key)
        BY <1>7, <1>8, <1>9, <1>25 DEF Holds, Joins, Blank
    <1>28. Good(U(4), 4, 2)
        <2>1. 3 + 1 = 4
            OBVIOUS
        <2>2. Good(U(3), 3, 2)
            BY <1>23
        <2>3. QED
            BY <1>6, <2>1, <2>2, <1>23, <1>26, <1>27, FreshNode
    <1>29. NodeRevised(U(3), U(4), 3, third)
        BY <1>6, <1>10, <1>23, <1>26, NodeOpOpinion DEF third
    <1>30. /\ \A n \in NodeIds : Opinion(U(4), "n", n) = first \/ Opinion(U(4), "n", n) = second \/ Opinion(U(4), "n", n) = third \/ Opinion(U(4), "n", n) = Absent
          /\ \A e \in EdgeIds : Opinion(U(4), "e", e) = pair \/ Opinion(U(4), "e", e) = Absent
        BY <1>25, <1>29 DEF NodeRevised, Blank
    <1>31. Applies(U(4), U(5), Op("e", 2, EdgeRecord(1, 3, TRUE)), 0)
        <2>1. 5 \in 1..5 /\ 5 - 1 = 4 /\ ops[5] = Op("e", 2, EdgeRecord(1, 3, TRUE))
            BY DEF StarOpsList
        <2>2. QED
            BY <1>4, <2>1
    <1>32. \A e \in EdgeIds : e # 2 => ~Joins(Opinion(U(4), "e", e), 1, 3)
        BY <1>7, <1>8, <1>9, <1>30 DEF Holds, Joins, Blank
    <1>33. Good(U(5), 4, 3)
        <2>1. 2 + 1 = 3
            OBVIOUS
        <2>2. 4 \in Nat /\ 1 \in 1..(4 - 1) /\ 3 \in 1..(4 - 1)
            BY <1>28
        <2>3. QED
            BY <1>6, <2>1, <2>2, <1>28, <1>31, <1>32, FreshEdge
    <1>34. EdgeRevised(U(4), U(5), 2, ray)
        BY <1>6, <1>10, <1>28, <1>31, EdgeOpOpinion DEF ray
    <1>35. /\ \A n \in NodeIds : Opinion(U(5), "n", n) = first \/ Opinion(U(5), "n", n) = second \/ Opinion(U(5), "n", n) = third \/ Opinion(U(5), "n", n) = Absent
          /\ \A e \in EdgeIds : Opinion(U(5), "e", e) = pair \/ Opinion(U(5), "e", e) = ray \/ Opinion(U(5), "e", e) = Absent
        BY <1>30, <1>34 DEF EdgeRevised, Blank
    <1>36. U(5) = With(ApplyOps(EmptySource, ops, 0), <<>>)
        BY <1>1 DEF U, L, ApplyOps
    <1>37. 1 \in LiveNodes(U(5)) /\ 2 \in LiveNodes(U(5)) /\ 3 \in LiveNodes(U(5))
        <2>1. Opinion(U(2), "n", 1) = first /\ Opinion(U(2), "n", 2) = second
            BY <1>6, <1>14, <1>19 DEF NodeRevised
        <2>2. Opinion(U(3), "n", 1) = first /\ Opinion(U(3), "n", 2) = second
            BY <1>6, <1>24, <2>1 DEF EdgeRevised
        <2>3. Opinion(U(4), "n", 1) = first /\ Opinion(U(4), "n", 2) = second /\ Opinion(U(4), "n", 3) = third
            BY <1>6, <1>29, <2>2 DEF NodeRevised
        <2>4. Opinion(U(5), "n", 1) = first /\ Opinion(U(5), "n", 2) = second /\ Opinion(U(5), "n", 3) = third
            BY <1>6, <1>34, <2>3 DEF EdgeRevised
        <2>5. QED
            BY <1>6, <1>7, <2>4 DEF LiveNodes
    <1>38. Linked(U(5))
        BY <1>8, <1>9, <1>35, <1>37 DEF Linked
    <1>39. QED
        BY <1>33, <1>36, <1>38

\* Every database to start with satisfies the invariant.
LEMMA InitOk ==
    ASSUME Init
    PROVE  GraphInv
    <1>1. IsSeq(<<>>) /\ Len(<<>>) = 0
        BY EmptyIs
    <1>2. CASE StartWith(<<>>, 1, 1, 0)
        <2>1. active = EmptySource /\ frozen = <<>> /\ segments = <<>> /\ nextNode = 1 /\ nextEdge = 1 /\ unique \in BOOLEAN /\ job = {}
            BY <1>2 DEF StartWith
        <2>2. Chained(EmptySource, <<>>, <<>>)
            BY <1>1, SourcesAre
        <2>3. <<>> \o <<>> = <<>>
            OBVIOUS
        <2>4. Sources = With(EmptySource, <<>>)
            BY <2>1, <2>2, <2>3 DEF Sources, Chained
        <2>5. Good(With(EmptySource, <<>>), 1, 1)
            BY EmptyGood
        <2>6. Good(Sources, nextNode, nextEdge)
            BY <2>1, <2>4, <2>5
        <2>7. IsSeq(frozen) /\ IsSeq(segments)
            BY <1>1, <2>1
        <2>8. nextNode \in Nat \ {0} /\ nextNode <= MaxNode + 1 /\ nextEdge \in Nat \ {0} /\ nextEdge <= MaxEdge + 1
            BY <2>1, GraphConstantsAssumption
        <2>9. QED
            BY <2>1, <2>6, <2>7, <2>8 DEF GraphInv, StoreOk, JobsOk
    <1>3. ASSUME NEW key \in Keys \ {FirstKey}, StartWith(StarOps(key), 4, 3, 1) PROVE GraphInv
        <2> DEFINE ops == StarOps(key)
                   x == AppendAndApply(EmptySource, ops, 0, EmptySource.e)
        <2>1. StarOpsList(ops, key)
            BY StarOpsAre
        <2> HIDE DEF ops
        <2>2. ops # <<>>
            BY <1>1, <2>1 DEF StarOpsList
        <2>3. /\ active = EmptySource /\ frozen = <<>> /\ segments = <<x>>
              /\ nextNode = 4 /\ nextEdge = 3 /\ unique \in BOOLEAN /\ job = {}
            BY <1>3, <2>2 DEF StartWith, ops
        <2>4. Good(With(ApplyOps(EmptySource, ops, 0), <<>>), 4, 3)
            BY <2>1, StarGood
        <2>5. SameSlots(With(ApplyOps(EmptySource, ops, 0), <<>>), With(x, <<>>))
            BY <1>1, <2>4, OverlayOnly
        <2> HIDE DEF x
        <2>6. Good(With(x, <<>>), 4, 3)
            BY <2>4, <2>5, SameSlotsGood
        <2>7. IsSeq(<<x>>)
            BY TupleIs
        <2>8. <<x>> \o <<>> = <<x>> /\ <<>> \o <<x>> = <<x>>
            <3>1. <<x>> \in Seq({x})
                OBVIOUS
            <3>2. QED
                BY <3>1, ConcatEmptySeq
        <2>9. Good(<<x>>, 4, 3)
            BY <2>6, <2>8 DEF With
        <2>10. Sources = With(EmptySource, <<x>>)
            <3>1. Chained(EmptySource, <<>>, <<x>>)
                BY <1>1, <2>7, SourcesAre
            <3>2. QED
                BY <2>3, <2>8, <3>1 DEF Sources, Chained
        <2>11. Good(Sources, 4, 3)
            BY <2>7, <2>9, <2>10, EmptyFront
        <2>12. Good(Sources, nextNode, nextEdge)
            BY <2>3, <2>11
        <2>13. IsSeq(frozen) /\ IsSeq(segments)
            BY <1>1, <2>3, <2>7
        <2>14. nextNode \in Nat \ {0} /\ nextNode <= MaxNode + 1 /\ nextEdge \in Nat \ {0} /\ nextEdge <= MaxEdge + 1
            BY <2>3, GraphConstantsAssumption
        <2>15. QED
            BY <2>3, <2>12, <2>13, <2>14 DEF GraphInv, StoreOk, JobsOk
    <1>4. QED
        BY <1>2, <1>3 DEF Init

-----------------------------------------------------------------------------
(* Degree overlays and their sums *)

Overlay(src) == CHOOSE d \in src.d : TRUE
Overlays(S) == [i \in DOMAIN S |-> Overlay(S[i])]

\* What a source adds to a node's degree.
Value(src, n) == Overlay(src)[n][1]

\* The degree that the first k sources add up to, and that all do.
Running(S, n, k) == SumLoop(Overlays(S), n)[k][1]
Total(S, n) == Running(S, n, Len(S))

\* The values are numbers.
Numeric(S) == \A i \in DOMAIN S : \A n \in NodeIds : Value(S[i], n) \in Int

\* A loop of sums.
IsSumLoop(r, zero, ds, n, m) ==
    r = [i \in 0..m |-> IF i = 0 THEN zero ELSE AddDelta(r[i - 1], ds[i][n])]

\* There is such a loop.
LEMMA SumLoopExists ==
    ASSUME NEW zero, NEW ds, NEW n, NEW m \in Nat
    PROVE  \E r : IsSumLoop(r, zero, ds, n, m)
    <1> DEFINE S == {h \in Nat : \E r : IsSumLoop(r, zero, ds, n, h)}
    <1>1. 0 \in S
        <2>1. IsSumLoop([k \in 0..0 |-> zero], zero, ds, n, 0)
            BY DEF IsSumLoop
        <2>2. QED
            BY <2>1
    <1>2. ASSUME NEW h \in S PROVE h + 1 \in S
        <2>1. PICK r : IsSumLoop(r, zero, ds, n, h)
            OBVIOUS
        <2> DEFINE t == [k \in 0..(h + 1) |-> IF k <= h THEN r[k] ELSE AddDelta(r[h], ds[h + 1][n])]
        <2>2. IsSumLoop(t, zero, ds, n, h + 1)
            BY <2>1 DEF IsSumLoop
        <2>3. QED
            BY <2>2
    <1>3. S = Nat
        <2> HIDE DEF S
        <2>1. QED
            BY <1>1, <1>2, Induction DEF S
    <1>4. QED
        BY <1>3

\* Its turns.
LEMMA SumLoopTurns ==
    ASSUME NEW ds, NEW n, Len(ds) \in Nat
    PROVE  /\ SumLoop(ds, n)[0] = <<0, 0>>
           /\ \A k \in 1..Len(ds) : SumLoop(ds, n)[k] = AddDelta(SumLoop(ds, n)[k - 1], ds[k][n])
    <1> DEFINE zero == <<0, 0>>
    <1>1. IsSumLoop(SumLoop(ds, n), zero, ds, n, Len(ds))
        <2>1. SumLoop(ds, n) = CHOOSE r : IsSumLoop(r, zero, ds, n, Len(ds))
            BY DEF SumLoop, IsSumLoop
        <2> HIDE DEF zero
        <2>2. QED
            BY <2>1, SumLoopExists
    <1> HIDE DEF zero
    <1>2. SumLoop(ds, n)[0] = zero
        BY <1>1 DEF IsSumLoop
    <1>3. \A k \in 1..Len(ds) : SumLoop(ds, n)[k] = AddDelta(SumLoop(ds, n)[k - 1], ds[k][n])
        BY <1>1 DEF IsSumLoop
    <1>4. QED
        BY <1>2, <1>3 DEF zero

\* The overlays of a list, in its order.
LEMMA OverlaysAre ==
    ASSUME NEW S, Slotted(S)
    PROVE  Len(Overlays(S)) = Len(S) /\ \A i \in DOMAIN S : Overlays(S)[i] = Overlay(S[i])
    <1>1. Len(S) \in Nat /\ DOMAIN S = 1..Len(S)
        BY DEF Slotted
    <1> DEFINE X == {Overlay(S[i]) : i \in DOMAIN S}
    <1>2. Overlays(S) \in [1..Len(S) -> X]
        BY <1>1 DEF Overlays
    <1> HIDE DEF X
    <1>3. Len(Overlays(S)) = Len(S)
        BY <1>1, <1>2, TuplesAre
    <1>4. QED
        BY <1>3 DEF Overlays

\* One source after the other.
LEMMA RunningIs ==
    ASSUME NEW S, Slotted(S), NEW n
    PROVE  /\ Running(S, n, 0) = 0
           /\ \A k \in 1..Len(S) : Running(S, n, k) = Running(S, n, k - 1) + Value(S[k], n)
    <1>1. Len(Overlays(S)) = Len(S) /\ (\A i \in DOMAIN S : Overlays(S)[i] = Overlay(S[i])) /\ Len(S) \in Nat /\ DOMAIN S = 1..Len(S)
        BY OverlaysAre DEF Slotted
    <1> DEFINE r == SumLoop(Overlays(S), n)
    <1>2. r[0] = <<0, 0>> /\ \A k \in 1..Len(S) : r[k] = AddDelta(r[k - 1], Overlays(S)[k][n])
        <2>1. Len(Overlays(S)) \in Nat
            BY <1>1
        <2>2. QED
            BY <1>1, <2>1, SumLoopTurns
    <1> HIDE DEF r
    <1>3. ASSUME NEW k \in 1..Len(S) PROVE r[k][1] = r[k - 1][1] + Value(S[k], n)
        <2>1. r[k] = AddDelta(r[k - 1], Overlay(S[k])[n])
            BY <1>1, <1>2
        <2>2. QED
            BY <2>1 DEF AddDelta, Value
    <1>4. r[0][1] = 0
        BY <1>2
    <1>5. QED
        BY <1>3, <1>4 DEF Running, r

\* The sums are numbers.
LEMMA RunningInt ==
    ASSUME NEW S, Slotted(S), Numeric(S), NEW n \in NodeIds
    PROVE  \A k \in 0..Len(S) : Running(S, n, k) \in Int
    <1> DEFINE K == {k \in Nat : k <= Len(S) => Running(S, n, k) \in Int}
    <1>1. Len(S) \in Nat /\ DOMAIN S = 1..Len(S)
        BY DEF Slotted
    <1>2. 0 \in K
        BY RunningIs
    <1>3. ASSUME NEW k \in K PROVE k + 1 \in K
        <2> SUFFICES ASSUME k + 1 <= Len(S) PROVE Running(S, n, k + 1) \in Int
            BY <1>1
        <2>1. k + 1 \in 1..Len(S) /\ (k + 1) - 1 = k /\ k + 1 \in DOMAIN S
            BY <1>1
        <2>2. Running(S, n, k + 1) = Running(S, n, k) + Value(S[k + 1], n)
            BY <2>1, RunningIs
        <2>3. Running(S, n, k) \in Int
            BY <1>1
        <2>4. QED
            BY <2>1, <2>2, <2>3 DEF Numeric
    <1>4. K = Nat
        <2> HIDE DEF K
        <2>1. QED
            BY <1>2, <1>3, Induction DEF K
    <1>5. QED
        BY <1>1, <1>4

\* The first m sources of T follow the first off sources of S.
Continues(S, T, off, m) ==
    off \in Nat /\ m \in 0..Len(T) /\ off + m <= Len(S) /\ \A k \in 1..m : S[off + k] = T[k]

\* Their sum is added.
LEMMA RunningShift ==
    ASSUME NEW S, Slotted(S), Numeric(S), NEW T, Slotted(T), NEW off, NEW m, Continues(S, T, off, m), NEW n \in NodeIds
    PROVE  Running(S, n, off + m) = Running(S, n, off) + Running(T, n, m)
    <1>0. off \in Nat /\ m \in 0..Len(T) /\ off + m <= Len(S) /\ \A k \in 1..m : S[off + k] = T[k]
        BY DEF Continues
    <1> DEFINE K == {k \in Nat : k <= m => /\ Running(T, n, k) \in Int
                                           /\ Running(S, n, off + k) = Running(S, n, off) + Running(T, n, k)}
    <1>1. /\ Len(S) \in Nat /\ DOMAIN S = 1..Len(S) /\ Len(T) \in Nat /\ DOMAIN T = 1..Len(T)
          /\ (\A k \in 0..Len(S) : Running(S, n, k) \in Int)
        BY RunningInt DEF Slotted
    <1>2. 0 \in K
        <2>1. off \in 0..Len(S) /\ off + 0 = off
            BY <1>0, <1>1
        <2>2. Running(T, n, 0) = 0 /\ Running(S, n, off) \in Int
            BY <1>1, <2>1, RunningIs
        <2>3. QED
            BY <2>1, <2>2
    <1>3. ASSUME NEW k \in K PROVE k + 1 \in K
        <2> SUFFICES ASSUME k + 1 <= m
                     PROVE  /\ Running(T, n, k + 1) \in Int
                            /\ Running(S, n, off + (k + 1)) = Running(S, n, off) + Running(T, n, k + 1)
            BY <1>0
        <2>1. /\ k + 1 \in 1..Len(T) /\ (k + 1) - 1 = k /\ k + 1 \in 1..m
              /\ off + (k + 1) \in 1..Len(S) /\ (off + (k + 1)) - 1 = off + k /\ off \in 0..Len(S)
            BY <1>0, <1>1
        <2>2. Running(T, n, k + 1) = Running(T, n, k) + Value(T[k + 1], n)
            BY <2>1, RunningIs
        <2>3. Running(S, n, off + (k + 1)) = Running(S, n, off + k) + Value(S[off + (k + 1)], n)
            BY <2>1, RunningIs
        <2>4. S[off + (k + 1)] = T[k + 1]
            BY <1>0, <2>1
        <2>5. Value(T[k + 1], n) \in Int
            BY <1>1, <2>1, <2>4 DEF Numeric
        <2>6. Running(T, n, k) \in Int /\ Running(S, n, off + k) = Running(S, n, off) + Running(T, n, k)
            BY <1>0
        <2>7. Running(S, n, off) \in Int
            BY <1>1, <2>1
        <2> DEFINE v == Value(T[k + 1], n)
                   x == Running(S, n, off)
                   y == Running(T, n, k)
        <2>8. v \in Int /\ x \in Int /\ y \in Int
            BY <2>5, <2>6, <2>7
        <2>9. Running(T, n, k + 1) = y + v
            BY <2>2
        <2>10. Running(S, n, off + (k + 1)) = (x + y) + v
            BY <2>3, <2>4, <2>6
        <2> HIDE DEF v, x, y, K
        <2>11. Running(T, n, k + 1) \in Int /\ Running(S, n, off + (k + 1)) = x + Running(T, n, k + 1)
            BY <2>8, <2>9, <2>10
        <2>12. QED
            BY <2>11 DEF x
    <1>4. K = Nat
        <2> HIDE DEF K
        <2>1. QED
            BY <1>2, <1>3, Induction DEF K
    <1>5. QED
        BY <1>0, <1>1, <1>4

-----------------------------------------------------------------------------
(* What a commit adds to the degrees *)

\* The edge counts at the node.
Counts(slot, n) == Touches(slot, n) /\ slot.valid

\* The edges that count, in their newest versions.
ValidAt(S, n) == {e \in EdgeIds : Counts(Opinion(S, "e", e), n)}

\* They can be counted.
LEMMA ValidFinite ==
    ASSUME NEW S, NEW n
    PROVE  IsFiniteSet(ValidAt(S, n)) /\ Cardinality(ValidAt(S, n)) \in Nat
    <1>1. IsFiniteSet(EdgeIds)
        BY GraphConstantsAssumption, FS_Interval DEF EdgeIds
    <1>2. ValidAt(S, n) \in SUBSET EdgeIds
        BY DEF ValidAt
    <1>3. IsFiniteSet(ValidAt(S, n))
        BY <1>1, <1>2, FS_Subset
    <1>4. QED
        BY <1>3, FS_CardinalityType

\* Sets that differ in one member.
LEMMA CardChange ==
    ASSUME NEW A, NEW B, IsFiniteSet(A), IsFiniteSet(B), NEW x, A \ {x} = B \ {x}
    PROVE  Cardinality(B) - Cardinality(A) = (IF x \in B THEN 1 ELSE 0) - (IF x \in A THEN 1 ELSE 0)
    <1>1. Cardinality(A) \in Nat /\ Cardinality(B) \in Nat
        BY FS_CardinalityType
    <1>2. Cardinality(A \ {x}) = IF x \in A THEN Cardinality(A) - 1 ELSE Cardinality(A)
        BY FS_RemoveElement
    <1>3. Cardinality(B \ {x}) = IF x \in B THEN Cardinality(B) - 1 ELSE Cardinality(B)
        BY FS_RemoveElement
    <1>4. QED
        BY <1>1, <1>2, <1>3

\* Slots that say the same of an edge.
Alike(a, b) ==
    /\ IsLive(a) <=> IsLive(b)
    /\ IsLive(a) => a.from = b.from /\ a.to = b.to /\ a.valid = b.valid

\* They count alike.
LEMMA AlikeCounts ==
    ASSUME NEW a, NEW b, Alike(a, b), NEW n
    PROVE  Counts(a, n) <=> Counts(b, n)
    BY DEF Alike, Counts, Touches

\* What a version of an edge adds to the degree of a node.
LEMMA EdgeDeltaIs ==
    ASSUME NEW slot, NEW n, NEW sign
    PROVE  EdgeDelta(slot, n, sign)[1] = IF Counts(slot, n) THEN sign ELSE 0
    BY DEF EdgeDelta, Counts

\* The overlay in the making after some operations, which lead from S to T.
Tracks(acc, S, T) ==
    /\ DOMAIN acc.edges = EdgeIds
    /\ \A e \in EdgeIds : Alike(acc.edges[e], Opinion(T, "e", e))
    /\ \A n \in NodeIds : acc.d[n][1] = Cardinality(ValidAt(T, n)) - Cardinality(ValidAt(S, n))

\* U has the overlay of T, and the versions of edges that T has.
Follows(T, U) ==
    /\ Slotted(U) /\ U[1].d = T[1].d
    /\ \A e \in EdgeIds : U[1].e[e] = Absent => T[1].e[e] = Absent

\* An operation leaves the overlay alone.
LEMMA ApplyKeepsOverlay ==
    ASSUME NEW src, SourceOk(src), NEW on \in {"n", "e"}, NEW id, NEW slot, NEW s
    PROVE  ApplyOp(src, Op(on, id, slot), s).d = src.d
    BY DEF ApplyOp, Op, SourceOk

\* The slots that operations write.
LEMMA WrittenOk ==
    ASSUME NEW s, NEW slot, slot = Dead \/ (\E l, k, w : slot = NodeRecord(l, k, w)) \/ (\E f, t, v : slot = EdgeRecord(f, t, v))
    PROVE  SlotOk(Stamped(slot, s)) /\ Stamped(slot, s) # Absent
    <1>1. IsLive(Stamped(slot, s)) \/ IsDead(Stamped(slot, s))
        BY StampedDead, StampedNode, StampedEdge
    <1>2. QED
        BY <1>1 DEF SlotOk, IsLive, IsDead, Absent

\* An operation on a node changes no degree.
LEMMA NodeTracks ==
    ASSUME NEW S, NEW T, Slotted(T), NEW U, NEW op, NEW s, Applies(T, U, op, s), NodeOpOk(op),
           NEW acc, Tracks(acc, S, T)
    PROVE  Follows(T, U) /\ Tracks(StageDelta(acc, op), S, U)
    <1>1. PICK id \in NodeIds : op = Op("n", id, Dead) \/ \E l, k, w : op = Op("n", id, NodeRecord(l, k, w))
        BY DEF NodeOpOk
    <1>2. PICK slot : op = Op("n", id, slot) /\ (slot = Dead \/ \E l, k, w : slot = NodeRecord(l, k, w))
        BY <1>1
    <1>3. SlotOk(Stamped(slot, s)) /\ Stamped(slot, s) # Absent
        BY <1>2, WrittenOk
    <1>4. NodeWritten(T, U, id, Stamped(slot, s)) /\ NodeRevised(T, U, id, Stamped(slot, s))
        BY <1>2, <1>3, NodeSlots, NodeOpinion
    <1>5. /\ Len(T) \in Nat /\ DOMAIN T = 1..Len(T) /\ 1 \in DOMAIN T /\ DOMAIN U = DOMAIN T /\ Len(U) = Len(T)
          /\ U[1] = ApplyOp(T[1], op, s) /\ \A i \in DOMAIN T : SourceOk(T[i])
        BY DEF Slotted, Applies
    <1>6. ASSUME NEW i \in DOMAIN T PROVE SourceOk(U[i])
        <2>1. SourceOk(T[i]) /\ U[i].e = T[i].e /\ DOMAIN U[i] = {"n", "e", "d"} /\ DOMAIN U[i].n = NodeIds
            BY <1>4, <1>5 DEF NodeWritten
        <2>2. ASSUME NEW n \in NodeIds PROVE SlotOk(U[i].n[n])
            BY <1>3, <1>4, <2>1 DEF NodeWritten, SourceOk
        <2>3. QED
            BY <2>1, <2>2 DEF SourceOk
    <1>7. Slotted(U)
        BY <1>5, <1>6 DEF Slotted
    <1>8. U[1].d = T[1].d
        BY <1>2, <1>5, ApplyKeepsOverlay
    <1>9. U[1].e = T[1].e
        BY <1>4, <1>5 DEF NodeWritten
    <1>10. StageDelta(acc, op) = acc
        BY <1>2 DEF StageDelta, Op
    <1>11. \A e \in EdgeIds : Opinion(U, "e", e) = Opinion(T, "e", e)
        BY <1>4 DEF NodeRevised
    <1>12. \A n : ValidAt(U, n) = ValidAt(T, n)
        BY <1>11 DEF ValidAt
    <1>13. Tracks(acc, S, U)
        BY <1>11, <1>12 DEF Tracks
    <1>14. QED
        BY <1>7, <1>8, <1>9, <1>10, <1>13 DEF Follows

\* An operation on an edge takes back what the edge counted, and counts it anew.
LEMMA EdgeTracks ==
    ASSUME NEW S, NEW T, Slotted(T), NEW U, NEW op, NEW s, Applies(T, U, op, s), EdgeOpOk(op),
           NEW acc, Tracks(acc, S, T)
    PROVE  Follows(T, U) /\ Tracks(StageDelta(acc, op), S, U)
    <1>1. PICK id \in EdgeIds : op = Op("e", id, Dead) \/ \E f, t, v : op = Op("e", id, EdgeRecord(f, t, v))
        BY DEF EdgeOpOk
    <1>2. PICK slot : op = Op("e", id, slot) /\ (slot = Dead \/ \E f, t, v : slot = EdgeRecord(f, t, v))
        BY <1>1
    <1>3. SlotOk(Stamped(slot, s)) /\ Stamped(slot, s) # Absent
        BY <1>2, WrittenOk
    <1>4. EdgeWritten(T, U, id, Stamped(slot, s)) /\ EdgeRevised(T, U, id, Stamped(slot, s))
        BY <1>2, <1>3, EdgeSlots, EdgeOpinion
    <1>5. /\ Len(T) \in Nat /\ DOMAIN T = 1..Len(T) /\ 1 \in DOMAIN T /\ DOMAIN U = DOMAIN T /\ Len(U) = Len(T)
          /\ U[1] = ApplyOp(T[1], op, s) /\ \A i \in DOMAIN T : SourceOk(T[i])
        BY DEF Slotted, Applies
    <1>6. ASSUME NEW i \in DOMAIN T PROVE SourceOk(U[i])
        <2>1. SourceOk(T[i]) /\ U[i].n = T[i].n /\ DOMAIN U[i] = {"n", "e", "d"} /\ DOMAIN U[i].e = EdgeIds
            BY <1>4, <1>5 DEF EdgeWritten
        <2>2. ASSUME NEW e \in EdgeIds PROVE SlotOk(U[i].e[e])
            BY <1>3, <1>4, <2>1 DEF EdgeWritten, SourceOk
        <2>3. QED
            BY <2>1, <2>2 DEF SourceOk
    <1>7. Slotted(U)
        BY <1>5, <1>6 DEF Slotted
    <1>8. U[1].d = T[1].d
        BY <1>2, <1>5, ApplyKeepsOverlay
    <1>9. \A e \in EdgeIds : U[1].e[e] = Absent => T[1].e[e] = Absent
        BY <1>3, <1>4, <1>5 DEF EdgeWritten
    <1> DEFINE new == StageDelta(acc, op)
    <1>10. /\ \A n \in NodeIds : new.d[n] = AddDelta(acc.d[n], AddDelta(EdgeDelta(slot, n, 1), EdgeDelta(acc.edges[id], n, -1)))
           /\ new.edges = [acc.edges EXCEPT ![id] = slot]
        BY <1>2 DEF StageDelta, Op
    <1>11. Alike(slot, Stamped(slot, s))
        <2>1. CASE slot = Dead
            BY <2>1, StampedDead DEF Alike, IsLive, IsDead, Dead
        <2>2. ASSUME NEW f, NEW t, NEW v, slot = EdgeRecord(f, t, v) PROVE Alike(slot, Stamped(slot, s))
            <3>1. IsLive(slot) /\ slot.from = f /\ slot.to = t /\ slot.valid = v
                BY <2>2 DEF EdgeRecord, IsLive
            <3>2. LET x == Stamped(slot, s) IN IsLive(x) /\ x.from = f /\ x.to = t /\ x.valid = v
                BY <2>2, StampedEdge
            <3>3. QED
                BY <3>1, <3>2 DEF Alike
        <2>3. QED
            BY <1>2, <2>1, <2>2
    <1>12. DOMAIN new.edges = EdgeIds /\ \A e \in EdgeIds : Alike(new.edges[e], Opinion(U, "e", e))
        <2> HIDE DEF new
        <2>1. QED
            BY <1>4, <1>10, <1>11 DEF Tracks, EdgeRevised
    <1>13. ASSUME NEW n \in NodeIds
           PROVE  new.d[n][1] = Cardinality(ValidAt(U, n)) - Cardinality(ValidAt(S, n))
        <2> HIDE DEF new
        <2> DEFINE A == ValidAt(T, n)
                   B == ValidAt(U, n)
                   C == ValidAt(S, n)
                   one == EdgeDelta(slot, n, 1)[1]
                   two == EdgeDelta(acc.edges[id], n, -1)[1]
        <2>1. new.d[n][1] = acc.d[n][1] + (one + two)
            BY <1>10 DEF AddDelta
        <2>2. id \in B <=> Counts(slot, n)
            BY <1>4, <1>11, AlikeCounts DEF ValidAt, EdgeRevised
        <2>3. id \in A <=> Counts(acc.edges[id], n)
            BY AlikeCounts DEF ValidAt, Tracks
        <2>4. one = IF id \in B THEN 1 ELSE 0
            BY <2>2, EdgeDeltaIs
        <2>5. two = IF id \in A THEN -1 ELSE 0
            BY <2>3, EdgeDeltaIs
        <2>6. A \ {id} = B \ {id}
            BY <1>4 DEF ValidAt, EdgeRevised
        <2>7. /\ IsFiniteSet(A) /\ Cardinality(A) \in Nat /\ IsFiniteSet(B) /\ Cardinality(B) \in Nat
              /\ Cardinality(C) \in Nat
            BY ValidFinite
        <2>8. acc.d[n][1] = Cardinality(A) - Cardinality(C)
            BY DEF Tracks
        <2> HIDE DEF A, B, C, one, two
        <2>9. Cardinality(B) - Cardinality(A) = (IF id \in B THEN 1 ELSE 0) - (IF id \in A THEN 1 ELSE 0)
            BY <2>6, <2>7, CardChange
        <2>10. new.d[n][1] = Cardinality(B) - Cardinality(C)
            BY <2>1, <2>4, <2>5, <2>7, <2>8, <2>9
        <2>11. QED
            BY <2>10 DEF B, C
    <1>14. QED
        BY <1>7, <1>8, <1>9, <1>12, <1>13 DEF Follows, Tracks

\* A loop of deltas.
IsDegreeLoop(r, start, ops, m) ==
    r = [i \in 0..m |-> IF i = 0 THEN start ELSE StageDelta(r[i - 1], ops[i])]

\* There is such a loop.
LEMMA DegreeLoopExists ==
    ASSUME NEW start, NEW ops, NEW m \in Nat
    PROVE  \E r : IsDegreeLoop(r, start, ops, m)
    <1> DEFINE S == {n \in Nat : \E r : IsDegreeLoop(r, start, ops, n)}
    <1>1. 0 \in S
        <2>1. IsDegreeLoop([k \in 0..0 |-> start], start, ops, 0)
            BY DEF IsDegreeLoop
        <2>2. QED
            BY <2>1
    <1>2. ASSUME NEW n \in S PROVE n + 1 \in S
        <2>1. PICK r : IsDegreeLoop(r, start, ops, n)
            OBVIOUS
        <2> DEFINE t == [k \in 0..(n + 1) |-> IF k <= n THEN r[k] ELSE StageDelta(r[n], ops[n + 1])]
        <2>2. IsDegreeLoop(t, start, ops, n + 1)
            BY <2>1 DEF IsDegreeLoop
        <2>3. QED
            BY <2>2
    <1>3. S = Nat
        <2> HIDE DEF S
        <2>1. QED
            BY <1>1, <1>2, Induction DEF S
    <1>4. QED
        BY <1>3

\* Its turns.
LEMMA DegreeLoopTurns ==
    ASSUME NEW ops, NEW edges, Len(ops) \in Nat
    PROVE  /\ DegreeLoop(ops, edges)[0] = [d |-> [n \in NodeIds |-> <<0, 0>>], edges |-> edges]
           /\ \A k \in 1..Len(ops) : DegreeLoop(ops, edges)[k] = StageDelta(DegreeLoop(ops, edges)[k - 1], ops[k])
    <1> DEFINE start == [d |-> [n \in NodeIds |-> <<0, 0>>], edges |-> edges]
    <1>1. IsDegreeLoop(DegreeLoop(ops, edges), start, ops, Len(ops))
        <2>1. DegreeLoop(ops, edges) = CHOOSE r : IsDegreeLoop(r, start, ops, Len(ops))
            BY DEF DegreeLoop, IsDegreeLoop
        <2> HIDE DEF start
        <2>2. QED
            BY <2>1, DegreeLoopExists
    <1> HIDE DEF start
    <1>2. DegreeLoop(ops, edges)[0] = start
        BY <1>1 DEF IsDegreeLoop
    <1>3. \A k \in 1..Len(ops) : DegreeLoop(ops, edges)[k] = StageDelta(DegreeLoop(ops, edges)[k - 1], ops[k])
        BY <1>1 DEF IsDegreeLoop
    <1>4. QED
        BY <1>2, <1>3 DEF start

\* The deltas of a commit are what it changes in the degrees.
LEMMA CommitTracks ==
    ASSUME NEW source, NEW rest, IsSeq(rest), NEW S, S = With(source, rest), Slotted(S),
           NEW ops, OpsOk(ops), NEW s, NEW edges, DOMAIN edges = EdgeIds,
           \A e \in EdgeIds : edges[e] = Opinion(S, "e", e), NEW T, T = With(ApplyOps(source, ops, s), rest)
    PROVE  /\ Follows(S, T)
           /\ \A n \in NodeIds : DegreeDeltas(ops, edges)[n][1] = Cardinality(ValidAt(T, n)) - Cardinality(ValidAt(S, n))
    <1> DEFINE r == ApplyLoop(source, ops, s)
               q == DegreeLoop(ops, edges)
               U(k) == With(r[k], rest)
               K == {k \in Nat : k <= Len(ops) => Follows(S, U(k)) /\ Tracks(q[k], S, U(k))}
    <1>1. IsSeq(ops) /\ Len(ops) \in Nat
        BY SeqIs DEF OpsOk
    <1>2. r[0] = source /\ \A k \in 1..Len(ops) : r[k] = ApplyOp(r[k - 1], ops[k], s)
        BY <1>1, ApplyLoopTurns
    <1>3. /\ q[0] = [d |-> [n \in NodeIds |-> <<0, 0>>], edges |-> edges]
          /\ \A k \in 1..Len(ops) : q[k] = StageDelta(q[k - 1], ops[k])
        BY <1>1, DegreeLoopTurns
    <1> HIDE DEF r, q
    <1>4. 0 \in K
        <2>1. U(0) = S
            BY <1>2
        <2>2. Follows(S, S)
            BY DEF Follows
        <2>3. Tracks(q[0], S, S)
            <3>1. q[0].edges = edges /\ \A n \in NodeIds : q[0].d[n] = <<0, 0>>
                BY <1>3
            <3>2. \A n \in NodeIds : q[0].d[n][1] = 0
                BY <3>1
            <3>3. \A n \in NodeIds : Cardinality(ValidAt(S, n)) - Cardinality(ValidAt(S, n)) = 0
                BY ValidFinite
            <3>4. \A e \in EdgeIds : Alike(q[0].edges[e], Opinion(S, "e", e))
                BY <3>1 DEF Alike
            <3>5. QED
                BY <3>1, <3>2, <3>3, <3>4 DEF Tracks
        <2>4. QED
            BY <2>1, <2>2, <2>3
    <1>5. ASSUME NEW k \in K PROVE k + 1 \in K
        <2> SUFFICES ASSUME k + 1 <= Len(ops) PROVE Follows(S, U(k + 1)) /\ Tracks(q[k + 1], S, U(k + 1))
            OBVIOUS
        <2>1. k \in Nat /\ k <= Len(ops) /\ k + 1 \in 1..Len(ops) /\ (k + 1) - 1 = k
            BY <1>1
        <2>2. Follows(S, U(k)) /\ Tracks(q[k], S, U(k))
            BY <2>1
        <2> DEFINE op == ops[k + 1]
        <2>3. r[k + 1] = ApplyOp(r[k], op, s) /\ q[k + 1] = StageDelta(q[k], op) /\ (NodeOpOk(op) \/ EdgeOpOk(op))
            BY <1>2, <1>3, <2>1 DEF OpsOk
        <2>4. Applies(U(k), U(k + 1), op, s)
            BY <2>3, WithApplies
        <2> HIDE DEF U, op, K
        <2>5. Slotted(U(k))
            BY <2>2 DEF Follows
        <2>6. Follows(U(k), U(k + 1)) /\ Tracks(q[k + 1], S, U(k + 1))
            <3>1. CASE NodeOpOk(op)
                BY <2>2, <2>3, <2>4, <2>5, <3>1, NodeTracks
            <3>2. CASE EdgeOpOk(op)
                BY <2>2, <2>3, <2>4, <2>5, <3>2, EdgeTracks
            <3>3. QED
                BY <2>3, <3>1, <3>2
        <2>7. Follows(S, U(k + 1))
            BY <2>2, <2>6 DEF Follows
        <2>8. QED
            BY <2>6, <2>7
    <1>6. K = Nat
        <2> HIDE DEF K
        <2>1. QED
            BY <1>4, <1>5, Induction DEF K
    <1>7. Follows(S, U(Len(ops))) /\ Tracks(q[Len(ops)], S, U(Len(ops)))
        BY <1>1, <1>6
    <1>8. U(Len(ops)) = T /\ q[Len(ops)].d = DegreeDeltas(ops, edges)
        BY DEF ApplyOps, DegreeDeltas, r, q
    <1> HIDE DEF U
    <1>9. QED
        BY <1>7, <1>8 DEF Tracks

-----------------------------------------------------------------------------
(* The overlay of a commit *)

\* A source has at most one overlay, of numbers.
OverlayOk(src) == \A d \in src.d : src.d = {d} /\ \A n \in NodeIds : d[n][1] \in Int

\* Every source has one.
Complete(S) == \A i \in DOMAIN S : S[i].d # {}

\* What a source with an overlay has.
LEMMA OverlayIs ==
    ASSUME NEW src, OverlayOk(src), src.d # {}
    PROVE  src.d = {Overlay(src)} /\ \A n \in NodeIds : Value(src, n) \in Int
    <1>1. Overlay(src) \in src.d
        BY DEF Overlay
    <1>2. QED
        BY <1>1 DEF OverlayOk, Value

\* The only overlay.
LEMMA OverlayOf ==
    ASSUME NEW src, NEW d, src.d = {d} PROVE Overlay(src) = d
    BY DEF Overlay

\* Two deltas.
LEMMA TwoOverlays ==
    ASSUME NEW a, NEW b, NEW n \in NodeIds, a[n][1] \in Int, b[n][1] \in Int
    PROVE  SumOverlays(<<a, b>>)[n][1] = a[n][1] + b[n][1]
    <1> DEFINE q == <<a, b>>
               r == SumLoop(q, n)
    <1>1. Len(q) = 2 /\ q[1] = a /\ q[2] = b
        OBVIOUS
    <1>2. SumOverlays(q)[n] = r[Len(q)]
        BY DEF SumOverlays
    <1> HIDE DEF q
    <1>3. r[0] = <<0, 0>> /\ \A k \in 1..2 : r[k] = AddDelta(r[k - 1], q[k][n])
        <2>1. Len(q) \in Nat
            BY <1>1
        <2>2. QED
            BY <1>1, <2>1, SumLoopTurns
    <1> HIDE DEF r
    <1>4. r[1] = AddDelta(r[0], a[n]) /\ r[2] = AddDelta(r[1], b[n])
        <2>1. 1 \in 1..2 /\ 2 \in 1..2 /\ 1 - 1 = 0 /\ 2 - 1 = 1
            OBVIOUS
        <2>2. QED
            BY <1>1, <1>3, <2>1
    <1>5. r[1][1] = 0 + a[n][1]
        BY <1>3, <1>4 DEF AddDelta
    <1>6. r[2][1] = r[1][1] + b[n][1]
        BY <1>4 DEF AddDelta
    <1>7. QED
        BY <1>1, <1>2, <1>5, <1>6 DEF q

\* The overlay after a commit.
LEMMA CommitOverlay ==
    ASSUME NEW source, NEW ops, NEW s, NEW edges, NEW x, x = AppendAndApply(source, ops, s, edges),
           "d" \in DOMAIN ApplyOps(source, ops, s), ApplyOps(source, ops, s).d = source.d, OverlayOk(source),
           NEW change, \A n \in NodeIds : change[n] \in Int /\ DegreeDeltas(ops, edges)[n][1] = change[n]
    PROVE  /\ OverlayOk(x) /\ (x.d = {} <=> source.d = {})
           /\ source.d # {} => \A n \in NodeIds : Value(x, n) = Value(source, n) + change[n]
    <1> DEFINE D == DegreeDeltas(ops, edges)
    <1>1. x.d = {SumOverlays(<<d, D>>) : d \in source.d}
        <2> DEFINE y == ApplyOps(source, ops, s)
                   X == {SumOverlays(<<d, D>>) : d \in y.d}
        <2>1. x = [y EXCEPT !.d = X]
            BY DEF AppendAndApply
        <2> HIDE DEF y, X
        <2>2. x.d = X
            BY <2>1 DEF y
        <2>3. QED
            BY <2>2 DEF X, y
    <1> HIDE DEF D
    <1>2. CASE source.d = {}
        BY <1>1, <1>2 DEF OverlayOk
    <1>3. CASE source.d # {}
        <2> DEFINE a == Overlay(source)
                   b == SumOverlays(<<a, D>>)
        <2>1. source.d = {a} /\ \A n \in NodeIds : a[n][1] \in Int
            BY <1>3, OverlayIs DEF Value
        <2> HIDE DEF a
        <2>2. x.d = {b}
            BY <1>1, <2>1
        <2>3. ASSUME NEW n \in NodeIds PROVE b[n][1] = a[n][1] + change[n] /\ b[n][1] \in Int
            <3>1. D[n][1] = change[n] /\ change[n] \in Int /\ a[n][1] \in Int
                BY <2>1 DEF D
            <3>2. b[n][1] = a[n][1] + D[n][1]
                BY <3>1, TwoOverlays
            <3>3. QED
                BY <3>1, <3>2
        <2> HIDE DEF b
        <2>4. OverlayOk(x)
            BY <2>2, <2>3 DEF OverlayOk
        <2>5. Overlay(x) = b
            BY <2>2, OverlayOf
        <2>6. QED
            BY <1>3, <2>2, <2>3, <2>4, <2>5 DEF Value, a
    <1>4. QED
        BY <1>2, <1>3

\* Sources with overlays add up to numbers.
LEMMA CompleteNumeric ==
    ASSUME NEW S, Complete(S), \A i \in DOMAIN S : OverlayOk(S[i])
    PROVE  Numeric(S)
    BY OverlayIs DEF Complete, Numeric

\* The first source and the others.
LEMMA TotalWith ==
    ASSUME NEW a, NEW rest, IsSeq(rest), NEW S, S = With(a, rest), Slotted(S), Numeric(S), NEW n \in NodeIds
    PROVE  /\ Total(S, n) = Value(a, n) + Total(rest, n)
           /\ Value(a, n) \in Int /\ Total(rest, n) \in Int
    <1>1. Len(rest) \in Nat /\ DOMAIN rest = 1..Len(rest)
        BY SeqIs
    <1>2. /\ Len(S) = Len(rest) + 1 /\ DOMAIN S = 1..(Len(rest) + 1) /\ 1 \in DOMAIN S
          /\ S[1] = a /\ \A i \in 2..(Len(rest) + 1) : S[i] = rest[i - 1]
        BY WithIs
    <1>3. \A k \in 1..Len(rest) : S[1 + k] = rest[k]
        BY <1>1, <1>2
    <1>4. \A k \in DOMAIN rest : 1 + k \in DOMAIN S
        BY <1>1, <1>2
    <1>5. Slotted(rest) /\ Numeric(rest)
        BY <1>1, <1>3, <1>4 DEF Slotted, Numeric
    <1>6. Running(S, n, 1 + Len(rest)) = Running(S, n, 1) + Running(rest, n, Len(rest))
        <2> DEFINE off == 1
                   m == Len(rest)
        <2>1. Continues(S, rest, off, m)
            BY <1>1, <1>2, <1>3 DEF Continues
        <2> HIDE DEF off, m
        <2>2. Running(S, n, off + m) = Running(S, n, off) + Running(rest, n, m)
            BY <1>5, <2>1, RunningShift
        <2>3. QED
            BY <2>2 DEF off, m
    <1>7. Running(S, n, 1) = Running(S, n, 0) + Value(S[1], n) /\ Running(S, n, 0) = 0
        <2>1. 1 \in 1..Len(S) /\ 1 - 1 = 0
            BY <1>1, <1>2
        <2>2. Running(S, n, 0) = 0 /\ \A k \in 1..Len(S) : Running(S, n, k) = Running(S, n, k - 1) + Value(S[k], n)
            BY RunningIs
        <2>3. Running(S, n, 1) = Running(S, n, 1 - 1) + Value(S[1], n)
            BY <2>1, <2>2
        <2>4. QED
            BY <2>1, <2>2, <2>3
    <1>8. Value(a, n) \in Int
        BY <1>2 DEF Numeric
    <1>9. Running(rest, n, Len(rest)) \in Int
        <2>1. Len(rest) \in 0..Len(rest)
            BY <1>1
        <2>2. QED
            BY <1>5, <2>1, RunningInt
    <1>10. Len(S) = 1 + Len(rest)
        BY <1>1, <1>2
    <1>11. QED
        BY <1>2, <1>6, <1>7, <1>8, <1>9, <1>10 DEF Total

-----------------------------------------------------------------------------
(* The inductive invariant of degrees *)

\* The i-th source or an older one knows the node.
KnownBehind(S, n, i) == \E j \in DOMAIN S : j >= i /\ S[j].n[n] # Absent

\* The valid edges at a node join it to live nodes, and were written when their ends were known.
Anchored(S, n) ==
    \A e \in ValidAt(S, n) :
        /\ IsLive(Opinion(S, "n", OtherEnd(Opinion(S, "e", e), n)))
        /\ \A i \in DOMAIN S : Decides(S, "e", e, i) =>
               KnownBehind(S, S[i].e[e].from, i) /\ KnownBehind(S, S[i].e[e].to, i)

\* The node is live, or its id is not given out yet.
Kept(S, n, nodes) == IsLive(Opinion(S, "n", n)) \/ n >= nodes

\* As long as no source lost its overlay, the overlays add up to the valid edges of a node that
\* never had a dangling edge.
DegreeGood(S, nodes, lost) ==
    /\ \A i \in DOMAIN S : OverlayOk(S[i])
    /\ Complete(S) => \A n \in NodeIds \ lost : Kept(S, n, nodes) =>
                          Total(S, n) = Cardinality(ValidAt(S, n)) /\ Anchored(S, n)

\* The newest versions, as functions.
LEMMA NewestOf ==
    ASSUME NEW S, Slotted(S), 1 \in DOMAIN S
    PROVE  /\ DOMAIN Newest(S, "e") = EdgeIds
           /\ \A e \in EdgeIds : Newest(S, "e")[e] = Opinion(S, "e", e)
    <1>1. DOMAIN S[1].e = EdgeIds
        BY DEF Slotted, SourceOk
    <1>2. QED
        BY <1>1 DEF Newest

\* The ends of a valid edge of a node without dangling edges.
LEMMA ValidEnds ==
    ASSUME NEW S, NEW nodes, NEW edges, Good(S, nodes, edges), 1 \in DOMAIN S, NEW n \in NodeIds, n \notin Dangling(S),
           Kept(S, n, nodes), nodes \in Nat, NEW e \in ValidAt(S, n), NEW slot, slot = Opinion(S, "e", e)
    PROVE  /\ IsLive(Opinion(S, "n", OtherEnd(slot, n)))
           /\ slot.from \in NodeIds /\ IsLive(Opinion(S, "n", slot.from))
           /\ slot.to \in NodeIds /\ IsLive(Opinion(S, "n", slot.to))
    <1>1. e \in EdgeIds /\ Touches(slot, n) /\ slot.valid
        BY DEF ValidAt, Counts
    <1>2. Newest(S, "e")[e] = slot
        BY <1>1, GoodSlotted, NewestOf
    <1>3. OtherEnd(slot, n) \in LiveNodes(S)
        BY <1>1, <1>2 DEF Dangling
    <1>4. IsLive(slot) /\ n \in {slot.from, slot.to}
        BY <1>1 DEF Touches
    <1>5. slot.from \in 1..(nodes - 1) /\ slot.to \in 1..(nodes - 1)
        BY <1>1, <1>4, LiveEnds
    <1>6. n < nodes
        BY <1>4, <1>5
    <1>7. IsLive(Opinion(S, "n", n))
        BY <1>6, GraphConstantsAssumption DEF Kept, NodeIds
    <1>8. QED
        BY <1>3, <1>4, <1>7 DEF LiveNodes, OtherEnd

\* The first source changed.
Fronts(S, U) ==
    /\ DOMAIN U = DOMAIN S /\ \A i \in DOMAIN S : i # 1 => U[i] = S[i]
    /\ \A e \in EdgeIds : U[1].e[e] = Absent => S[1].e[e] = Absent

\* A commit that leaves no dangling edge at a node keeps its edges anchored.
LEMMA AnchoredStep ==
    ASSUME NEW S, Slotted(S), NEW U, NEW nodes, NEW edges, Good(U, nodes, edges), 1 \in DOMAIN U, Fronts(S, U), NEW n \in NodeIds,
           n \notin Dangling(U), Kept(U, n, nodes), nodes \in Nat, Anchored(S, n)
    PROVE  Anchored(U, n)
    <1> SUFFICES ASSUME NEW e \in ValidAt(U, n)
                 PROVE  /\ IsLive(Opinion(U, "n", OtherEnd(Opinion(U, "e", e), n)))
                        /\ \A i \in DOMAIN U : Decides(U, "e", e, i) =>
                               KnownBehind(U, U[i].e[e].from, i) /\ KnownBehind(U, U[i].e[e].to, i)
        BY DEF Anchored
    <1> DEFINE slot == Opinion(U, "e", e)
    <1>1. /\ IsLive(Opinion(U, "n", OtherEnd(slot, n)))
          /\ slot.from \in NodeIds /\ IsLive(Opinion(U, "n", slot.from))
          /\ slot.to \in NodeIds /\ IsLive(Opinion(U, "n", slot.to))
        BY ValidEnds
    <1>2. DOMAIN U \subseteq Nat /\ DOMAIN U = DOMAIN S /\ (\A i \in DOMAIN U : i >= 1) /\ e \in EdgeIds
        BY DEF Good, Fronts, ValidAt
    <1>3. ASSUME NEW i \in DOMAIN U, Decides(U, "e", e, i)
          PROVE  KnownBehind(U, U[i].e[e].from, i) /\ KnownBehind(U, U[i].e[e].to, i)
        <2>1. slot = U[i].e[e]
            BY <1>2, <1>3, OpinionOf
        <2>2. CASE i = 1
            <3>1. ASSUME NEW m \in NodeIds, IsLive(Opinion(U, "n", m)) PROVE KnownBehind(U, m, i)
                <4>1. PICK j \in DOMAIN U : Decides(U, "n", m, j)
                    BY <1>2, <3>1, LiveDecided
                <4>2. QED
                    BY <1>2, <2>2, <4>1 DEF KnownBehind, Decides
            <3>2. QED
                BY <1>1, <2>1, <3>1
        <2>3. CASE i # 1
            <3>1. i > 1
                BY <1>2, <2>3
            <3>2. \A j \in DOMAIN S : j > 1 => U[j] = S[j]
                BY <1>2 DEF Fronts
            <3>3. U[1].e[e] = Absent
                BY <1>2, <1>3, <3>1 DEF Decides
            <3>4. S[1].e[e] = Absent
                BY <1>2, <3>3 DEF Fronts
            <3>5. Decides(S, "e", e, i)
                <4>1. i \in DOMAIN S /\ S[i].e[e] # Absent
                    BY <1>2, <1>3, <3>1, <3>2 DEF Decides
                <4>2. ASSUME NEW j \in DOMAIN S, j < i PROVE S[j].e[e] = Absent
                    BY <1>2, <1>3, <3>2, <3>4, <4>2 DEF Decides
                <4>3. QED
                    BY <4>1, <4>2 DEF Decides
            <3>6. Opinion(S, "e", e) = slot
                BY <1>2, <2>1, <3>1, <3>2, <3>5, OpinionOf
            <3>7. e \in ValidAt(S, n)
                BY <3>6 DEF ValidAt
            <3>8. KnownBehind(S, S[i].e[e].from, i) /\ KnownBehind(S, S[i].e[e].to, i)
                BY <1>2, <3>5, <3>7 DEF Anchored
            <3>9. S[i] = U[i]
                BY <1>2, <3>1, <3>2
            <3>10. \A m : KnownBehind(S, m, i) => KnownBehind(U, m, i)
                BY <1>2, <3>1, <3>2 DEF KnownBehind
            <3>11. QED
                BY <3>8, <3>9, <3>10
        <2>4. QED
            BY <2>2, <2>3
    <1>4. QED
        BY <1>1, <1>3

\* A commit keeps the degrees exact.
LEMMA CommitDegrees ==
    ASSUME NEW source, NEW rest, IsSeq(rest), NEW S, S = With(source, rest), NEW nodes, NEW edges, Good(S, nodes, edges),
           NEW lost, DegreeGood(S, nodes, lost), NEW ops, OpsOk(ops), NEW s,
           NEW T, T = With(ApplyOps(source, ops, s), rest), NEW more \in Nat, NEW last, Good(T, more, last),
           \A n \in NodeIds : Kept(T, n, more) => Kept(S, n, nodes),
           NEW U, U = With(AppendAndApply(source, ops, s, Newest(S, "e")), rest),
           NEW gone, lost \subseteq gone, Dangling(U) \subseteq gone
    PROVE  DegreeGood(U, more, gone)
    <1> DEFINE fn == Newest(S, "e")
               x == AppendAndApply(source, ops, s, fn)
               change == [n \in NodeIds |-> Cardinality(ValidAt(T, n)) - Cardinality(ValidAt(S, n))]
    <1>1. /\ Len(S) = Len(rest) + 1 /\ DOMAIN S = 1..(Len(rest) + 1) /\ 1 \in DOMAIN S
          /\ S[1] = source /\ \A i \in 2..(Len(rest) + 1) : S[i] = rest[i - 1]
        BY WithIs
    <1>2. /\ Len(T) = Len(rest) + 1 /\ DOMAIN T = 1..(Len(rest) + 1) /\ 1 \in DOMAIN T
          /\ T[1] = ApplyOps(source, ops, s) /\ \A i \in 2..(Len(rest) + 1) : T[i] = rest[i - 1]
        BY WithIs
    <1>3. /\ Len(U) = Len(rest) + 1 /\ DOMAIN U = 1..(Len(rest) + 1) /\ 1 \in DOMAIN U
          /\ U[1] = x /\ \A i \in 2..(Len(rest) + 1) : U[i] = rest[i - 1]
        BY WithIs
    <1>4. Slotted(S) /\ Slotted(T) /\ Len(rest) \in Nat
        BY GoodSlotted, SeqIs
    <1>5. DOMAIN fn = EdgeIds /\ \A e \in EdgeIds : fn[e] = Opinion(S, "e", e)
        BY <1>1, <1>4, NewestOf
    <1> HIDE DEF fn
    <1>6. /\ Follows(S, T)
          /\ \A n \in NodeIds : DegreeDeltas(ops, fn)[n][1] = Cardinality(ValidAt(T, n)) - Cardinality(ValidAt(S, n))
        BY <1>4, <1>5, CommitTracks
    <1>7. SameSlots(T, U)
        BY OverlayOnly
    <1>8. Good(U, more, last) /\ SameGraph(T, U)
        BY <1>7, SameSlotsGood
    <1>9. \A n \in NodeIds : change[n] \in Int /\ DegreeDeltas(ops, fn)[n][1] = change[n]
        BY <1>6, ValidFinite
    <1>10. "d" \in DOMAIN ApplyOps(source, ops, s) /\ ApplyOps(source, ops, s).d = source.d
        BY <1>1, <1>2, <1>4, <1>6 DEF Slotted, SourceOk, Follows
    <1>11. OverlayOk(source)
        BY <1>1 DEF DegreeGood
    <1> HIDE DEF change
    <1>12. /\ OverlayOk(x) /\ (x.d = {} <=> source.d = {})
           /\ source.d # {} => \A n \in NodeIds : Value(x, n) = Value(source, n) + change[n]
        BY <1>9, <1>10, <1>11, CommitOverlay
    <1> HIDE DEF x
    <1>13. \A i \in DOMAIN S : i # 1 => U[i] = S[i]
        BY <1>1, <1>3, <1>4
    <1>14. \A i \in DOMAIN U : OverlayOk(U[i])
        <2>1. \A i \in DOMAIN S : OverlayOk(S[i])
            BY DEF DegreeGood
        <2>2. QED
            BY <1>1, <1>3, <1>12, <1>13, <2>1
    <1>15. Fronts(S, U)
        <2>1. U[1].e = T[1].e
            BY <1>2, <1>7 DEF SameSlots
        <2>2. QED
            BY <1>1, <1>3, <1>6, <1>13, <2>1 DEF Fronts, Follows
    <1>16. ASSUME Complete(U), NEW n \in NodeIds \ gone, Kept(U, n, more)
           PROVE  Total(U, n) = Cardinality(ValidAt(U, n)) /\ Anchored(U, n)
        <2>1. Complete(S)
            BY <1>1, <1>3, <1>12, <1>13, <1>16 DEF Complete
        <2>2. Kept(S, n, nodes)
            BY <1>8, <1>16 DEF SameGraph, Kept
        <2>3. Total(S, n) = Cardinality(ValidAt(S, n)) /\ Anchored(S, n)
            BY <2>1, <2>2 DEF DegreeGood
        <2>4. Numeric(S) /\ Numeric(U)
            BY <1>14, <1>16, <2>1, CompleteNumeric DEF DegreeGood
        <2>5. Slotted(U)
            BY <1>8, GoodSlotted
        <2>6. Total(S, n) = Value(source, n) + Total(rest, n) /\ Value(source, n) \in Int /\ Total(rest, n) \in Int
            BY <1>4, <2>4, TotalWith
        <2>7. Total(U, n) = Value(x, n) + Total(rest, n)
            BY <2>4, <2>5, TotalWith DEF x, fn
        <2>8. Value(x, n) = Value(source, n) + change[n] /\ change[n] = Cardinality(ValidAt(T, n)) - Cardinality(ValidAt(S, n))
            BY <1>1, <1>12, <2>1 DEF Complete, change
        <2>9. ValidAt(U, n) = ValidAt(T, n)
            BY <1>8 DEF SameGraph, ValidAt
        <2>10. Total(U, n) = Cardinality(ValidAt(U, n))
            <3> DEFINE a == Cardinality(ValidAt(T, n))
                       b == Cardinality(ValidAt(S, n))
            <3>1. a \in Nat /\ b \in Nat
                BY ValidFinite
            <3>2. Total(S, n) = b /\ Value(x, n) = Value(source, n) + (a - b)
                BY <2>3, <2>8
            <3> HIDE DEF a, b
            <3>3. Total(U, n) = a
                BY <2>6, <2>7, <3>1, <3>2
            <3>4. QED
                BY <2>9, <3>3 DEF a
        <2>11. Anchored(U, n)
            BY <1>3, <1>4, <1>8, <1>15, <1>16, <2>3, AnchoredStep
        <2>12. QED
            BY <2>10, <2>11
    <1>17. QED
        BY <1>14, <1>16 DEF DegreeGood

-----------------------------------------------------------------------------
(* Degrees and maintenance *)

\* An empty memtable adds nothing.
LEMMA EmptyOverlay ==
    /\ OverlayOk(EmptySource) /\ EmptySource.d # {}
    /\ \A n \in NodeIds : Value(EmptySource, n) = 0
    <1> DEFINE z == [i \in NodeIds |-> <<0, 0>>]
    <1>1. EmptySource.d = {z}
        BY DEF EmptySource
    <1>2. \A n \in NodeIds : z[n][1] = 0
        OBVIOUS
    <1> HIDE DEF z
    <1>3. Overlay(EmptySource) = z
        BY <1>1, OverlayOf
    <1>4. OverlayOk(EmptySource)
        BY <1>1, <1>2 DEF OverlayOk
    <1>5. QED
        BY <1>1, <1>2, <1>3, <1>4 DEF Value

\* The ends of an edge that counts are nodes.
LEMMA CountedEnds ==
    ASSUME NEW S, NEW nodes \in Nat, nodes <= MaxNode + 1, NEW edges, Good(S, nodes, edges), NEW n, NEW e \in ValidAt(S, n),
           NEW slot, slot = Opinion(S, "e", e)
    PROVE  slot.from \in NodeIds /\ slot.to \in NodeIds /\ OtherEnd(slot, n) \in NodeIds
    <1>1. e \in EdgeIds /\ IsLive(slot)
        BY DEF ValidAt, Counts, Touches
    <1>2. slot.from \in 1..(nodes - 1) /\ slot.to \in 1..(nodes - 1)
        BY <1>1, LiveEnds
    <1>3. slot.from \in NodeIds /\ slot.to \in NodeIds
        BY <1>2, GraphConstantsAssumption DEF NodeIds
    <1>4. QED
        BY <1>3 DEF OtherEnd

\* A freeze keeps the degrees exact.
LEMMA FreezeDegrees ==
    ASSUME NEW S, IsSeq(S), NEW nodes \in Nat, nodes <= MaxNode + 1, NEW edges, Good(S, nodes, edges),
           NEW lost, DegreeGood(S, nodes, lost),
           NEW T, T = With(EmptySource, S)
    PROVE  DegreeGood(T, nodes, lost)
    <1>1. Len(S) \in Nat /\ DOMAIN S = 1..Len(S)
        BY SeqIs
    <1>2. /\ Len(T) = Len(S) + 1 /\ DOMAIN T = 1..(Len(S) + 1) /\ 1 \in DOMAIN T /\ T[1] = EmptySource
          /\ \A i \in 2..(Len(S) + 1) : T[i] = S[i - 1]
        BY WithIs
    <1>3. Good(T, nodes, edges) /\ SameNodes(S, T)
        BY EmptyFront
    <1>4. \A i \in DOMAIN T : i # 1 => i - 1 \in DOMAIN S /\ T[i] = S[i - 1] /\ i > 1
        BY <1>1, <1>2
    <1>5. \A i \in DOMAIN S : i + 1 \in DOMAIN T /\ T[i + 1] = S[i] /\ i + 1 # 1
        BY <1>1, <1>2
    <1>6. \A i \in DOMAIN T : OverlayOk(T[i])
        BY <1>2, <1>4, EmptyOverlay DEF DegreeGood
    <1>7. \A e \in EdgeIds : T[1].e[e] = Absent
        BY <1>2 DEF EmptySource
    <1>8. ASSUME NEW e \in EdgeIds, NEW i \in DOMAIN T, Decides(T, "e", e, i)
          PROVE  i # 1 /\ Decides(S, "e", e, i - 1)
        <2>1. i # 1
            BY <1>7, <1>8 DEF Decides
        <2>2. i - 1 \in DOMAIN S /\ T[i] = S[i - 1]
            BY <1>4, <2>1
        <2>3. ASSUME NEW j \in DOMAIN S, j < i - 1 PROVE S[j].e[e] = Absent
            <3>1. j + 1 \in DOMAIN T /\ T[j + 1] = S[j] /\ j + 1 < i
                BY <1>1, <1>2, <1>5, <2>3
            <3>2. QED
                BY <1>8, <3>1 DEF Decides
        <2>4. QED
            BY <1>8, <2>1, <2>2, <2>3 DEF Decides
    <1>9. ASSUME NEW e \in EdgeIds PROVE Opinion(T, "e", e) = Opinion(S, "e", e)
        <2>1. DOMAIN S \subseteq Nat /\ DOMAIN T \subseteq Nat
            BY <1>1, <1>2
        <2>2. CASE \E i \in DOMAIN T : Decides(T, "e", e, i)
            <3>1. PICK i \in DOMAIN T : Decides(T, "e", e, i)
                BY <2>2
            <3>2. i # 1 /\ Decides(S, "e", e, i - 1) /\ T[i] = S[i - 1]
                BY <1>4, <1>8, <3>1
            <3>3. Opinion(T, "e", e) = T[i].e[e]
                BY <2>1, <3>1, OpinionOf
            <3>4. Opinion(S, "e", e) = S[i - 1].e[e]
                BY <2>1, <3>2, OpinionOf
            <3>5. QED
                BY <3>2, <3>3, <3>4
        <2>3. CASE (\A i \in DOMAIN T : T[i].e[e] = Absent) /\ Opinion(T, "e", e) = Absent
            <3>1. \A i \in DOMAIN S : ~Decides(S, "e", e, i)
                BY <1>5, <2>3 DEF Decides
            <3>2. Opinion(S, "e", e) = Absent
                BY <2>1, <3>1, SomeoneDecides
            <3>3. QED
                BY <2>3, <3>2
        <2>4. QED
            BY <2>1, <2>2, <2>3, SomeoneDecides
    <1>10. \A n : ValidAt(T, n) = ValidAt(S, n)
        BY <1>9 DEF ValidAt
    <1>11. ASSUME Complete(T), NEW n \in NodeIds \ lost, Kept(T, n, nodes)
           PROVE  Total(T, n) = Cardinality(ValidAt(T, n)) /\ Anchored(T, n)
        <2>1. Complete(S)
            BY <1>5, <1>11 DEF Complete
        <2>2. Kept(S, n, nodes)
            BY <1>3, <1>11 DEF Kept, SameNodes
        <2>3. Total(S, n) = Cardinality(ValidAt(S, n)) /\ Anchored(S, n)
            BY <2>1, <2>2 DEF DegreeGood
        <2>4. Slotted(T) /\ Numeric(T)
            BY <1>3, <1>6, <1>11, GoodSlotted, CompleteNumeric
        <2>5. Total(T, n) = Value(EmptySource, n) + Total(S, n) /\ Total(S, n) \in Int
            BY <2>4, TotalWith
        <2>6. Total(T, n) = Cardinality(ValidAt(T, n))
            BY <1>10, <2>3, <2>5, EmptyOverlay
        <2>7. ASSUME NEW e \in ValidAt(T, n)
              PROVE  /\ IsLive(Opinion(T, "n", OtherEnd(Opinion(T, "e", e), n)))
                     /\ \A i \in DOMAIN T : Decides(T, "e", e, i) =>
                            KnownBehind(T, T[i].e[e].from, i) /\ KnownBehind(T, T[i].e[e].to, i)
            <3>1. e \in ValidAt(S, n) /\ e \in EdgeIds /\ Opinion(T, "e", e) = Opinion(S, "e", e)
                BY <1>9, <1>10 DEF ValidAt
            <3> DEFINE m == OtherEnd(Opinion(S, "e", e), n)
            <3>2. IsLive(Opinion(S, "n", m))
                BY <2>3, <3>1 DEF Anchored
            <3>3. IsLive(Opinion(T, "n", m))
                <4>1. m \in NodeIds
                    BY <3>1, CountedEnds
                <4>2. QED
                    BY <1>3, <3>2, <4>1 DEF SameNodes
            <3>4. ASSUME NEW i \in DOMAIN T, Decides(T, "e", e, i)
                  PROVE  KnownBehind(T, T[i].e[e].from, i) /\ KnownBehind(T, T[i].e[e].to, i)
                <4>1. i # 1 /\ Decides(S, "e", e, i - 1) /\ T[i] = S[i - 1] /\ i - 1 \in DOMAIN S
                    BY <1>4, <1>8, <3>1, <3>4
                <4>2. KnownBehind(S, S[i - 1].e[e].from, i - 1) /\ KnownBehind(S, S[i - 1].e[e].to, i - 1)
                    BY <2>3, <3>1, <4>1 DEF Anchored
                <4>3. ASSUME NEW x, KnownBehind(S, x, i - 1) PROVE KnownBehind(T, x, i)
                    <5>1. PICK j \in DOMAIN S : j >= i - 1 /\ S[j].n[x] # Absent
                        BY <4>3 DEF KnownBehind
                    <5>2. j + 1 \in DOMAIN T /\ T[j + 1] = S[j] /\ j + 1 >= i
                        BY <1>1, <1>2, <1>5, <5>1
                    <5>3. QED
                        BY <5>1, <5>2 DEF KnownBehind
                <4>4. QED
                    BY <4>1, <4>2, <4>3
            <3>5. QED
                BY <3>1, <3>3, <3>4
        <2>8. QED
            BY <2>6, <2>7 DEF Anchored
    <1>12. QED
        BY <1>6, <1>11 DEF DegreeGood

\* No source behind the first base ones has the id's tombstone.
Unburied(srcs, base, on, x) == \A i \in (base + 1)..Len(srcs) : ~IsDead(srcs[i][on][x])

\* A compaction's output with a sidecar keeps the nodes that are not deleted, the edges between
\* nodes it keeps, and the sum of its inputs' overlays.
KeepsNodes(srcs, base, out) ==
    \A n \in NodeIds : \A i \in (base + 1)..Len(srcs) :
        IsLive(srcs[i].n[n]) /\ Unburied(srcs, base, "n", n) => out.n[n] # Absent
KeepsEdges(srcs, base, out) ==
    \A e \in EdgeIds : \A i \in (base + 1)..Len(srcs) :
        /\ IsLive(srcs[i].e[e]) /\ Unburied(srcs, base, "e", e)
        /\ out.n[srcs[i].e[e].from] # Absent /\ out.n[srcs[i].e[e].to] # Absent
        => out.e[e] # Absent
KeepsSum(srcs, base, out) ==
    Complete(srcs) => \A n \in NodeIds : Value(out, n) = Running(srcs, n, Len(srcs)) - Running(srcs, n, base)
Keeps(srcs, base, out) ==
    out.d # {} =>
        /\ \A i \in (base + 1)..Len(srcs) : srcs[i].d # {}
        /\ KeepsNodes(srcs, base, out) /\ KeepsEdges(srcs, base, out) /\ KeepsSum(srcs, base, out)

\* More sources before them.
LEMMA KeepsShift ==
    ASSUME NEW p, Slotted(p), NEW q, Slotted(q), \A i \in DOMAIN q : OverlayOk(q[i]), NEW off \in Nat, Len(q) = off + Len(p),
           \A i \in 1..Len(p) : q[off + i] = p[i], NEW base \in 0..Len(p), NEW out, Keeps(p, base, out)
    PROVE  Keeps(q, off + base, out)
    <1> DEFINE low == off + base
    <1>1. Len(p) \in Nat /\ DOMAIN p = 1..Len(p) /\ Len(q) \in Nat /\ DOMAIN q = 1..Len(q) /\ low \in Nat
        BY DEF Slotted
    <1>2. ASSUME NEW i \in (low + 1)..Len(q) PROVE i - off \in (base + 1)..Len(p) /\ q[i] = p[i - off]
        <2>1. i - off \in (base + 1)..Len(p) /\ i - off \in 1..Len(p) /\ i = off + (i - off)
            BY <1>1, <1>2
        <2> DEFINE k == i - off
        <2>2. q[off + k] = p[k]
            BY <2>1
        <2>3. QED
            BY <2>1, <2>2
    <1>3. ASSUME NEW k \in (base + 1)..Len(p) PROVE off + k \in (low + 1)..Len(q) /\ q[off + k] = p[k] /\ k \in 1..Len(p)
        BY <1>1, <1>3
    <1>4. ASSUME NEW on, NEW x, Unburied(q, low, on, x) PROVE Unburied(p, base, on, x)
        BY <1>3, <1>4 DEF Unburied
    <1>5. ASSUME KeepsSum(p, base, out), Complete(q) PROVE \A n \in NodeIds : Value(out, n) = Running(q, n, Len(q)) - Running(q, n, low)
        <2>1. Complete(p)
            <3>1. ASSUME NEW i \in DOMAIN p PROVE p[i].d # {}
                <4>1. off + i \in DOMAIN q /\ q[off + i] = p[i]
                    BY <1>1, <3>1
                <4>2. QED
                    BY <1>5, <4>1 DEF Complete
            <3>2. QED
                BY <3>1 DEF Complete
        <2>2. Numeric(q)
            BY <1>5, CompleteNumeric
        <2>3. SUFFICES ASSUME NEW n \in NodeIds PROVE Value(out, n) = Running(q, n, Len(q)) - Running(q, n, low)
            OBVIOUS
        <2>4. Value(out, n) = Running(p, n, Len(p)) - Running(p, n, base)
            BY <1>5, <2>1 DEF KeepsSum
        <2> DEFINE m == Len(p)
        <2>5. Continues(q, p, off, m)
            BY <1>1 DEF Continues
        <2>6. Continues(q, p, off, base)
            BY <1>1 DEF Continues
        <2> HIDE DEF m
        <2>7. Running(q, n, off + m) = Running(q, n, off) + Running(p, n, m)
            BY <2>2, <2>5, RunningShift
        <2>8. Running(q, n, off + base) = Running(q, n, off) + Running(p, n, base)
            BY <2>2, <2>6, RunningShift
        <2>9. Numeric(p)
            <3>1. ASSUME NEW i \in DOMAIN p PROVE off + i \in DOMAIN q /\ q[off + i] = p[i]
                BY <1>1, <3>1
            <3>2. QED
                BY <2>2, <3>1 DEF Numeric
        <2>10. Running(q, n, off) \in Int /\ Running(p, n, m) \in Int /\ Running(p, n, base) \in Int
            <3>1. off \in 0..Len(q) /\ m \in 0..Len(p)
                BY <1>1 DEF m
            <3>2. QED
                BY <2>2, <2>9, <3>1, RunningInt
        <2>11. off + m = Len(q)
            BY DEF m
        <2> DEFINE a == Running(q, n, off)
                   b == Running(p, n, m)
                   c == Running(p, n, base)
        <2>12. a \in Int /\ b \in Int /\ c \in Int /\ Value(out, n) = b - c /\ Running(q, n, Len(q)) = a + b /\ Running(q, n, low) = a + c
            BY <2>4, <2>7, <2>8, <2>10, <2>11 DEF m
        <2> HIDE DEF a, b, c, low
        <2>13. QED
            BY <2>12
    <1>6. ASSUME out.d # {}
          PROVE  /\ \A i \in (low + 1)..Len(q) : q[i].d # {}
                 /\ KeepsNodes(q, low, out) /\ KeepsEdges(q, low, out) /\ KeepsSum(q, low, out)
        <2>1. /\ \A i \in (base + 1)..Len(p) : p[i].d # {}
              /\ KeepsNodes(p, base, out) /\ KeepsEdges(p, base, out) /\ KeepsSum(p, base, out)
            BY <1>6 DEF Keeps
        <2> HIDE DEF low
        <2>2. \A i \in (low + 1)..Len(q) : q[i].d # {}
            BY <1>2, <2>1
        <2>3. KeepsNodes(q, low, out)
            <3> SUFFICES ASSUME NEW n \in NodeIds, NEW i \in (low + 1)..Len(q), IsLive(q[i].n[n]), Unburied(q, low, "n", n)
                         PROVE  out.n[n] # Absent
                BY DEF KeepsNodes
            <3>1. i - off \in (base + 1)..Len(p) /\ q[i] = p[i - off] /\ Unburied(p, base, "n", n)
                BY <1>2, <1>4
            <3>2. QED
                BY <2>1, <3>1 DEF KeepsNodes
        <2>4. KeepsEdges(q, low, out)
            <3> SUFFICES ASSUME NEW e \in EdgeIds, NEW i \in (low + 1)..Len(q), IsLive(q[i].e[e]), Unburied(q, low, "e", e),
                                out.n[q[i].e[e].from] # Absent, out.n[q[i].e[e].to] # Absent
                         PROVE  out.e[e] # Absent
                BY DEF KeepsEdges
            <3>1. i - off \in (base + 1)..Len(p) /\ q[i] = p[i - off] /\ Unburied(p, base, "e", e)
                BY <1>2, <1>4
            <3>2. QED
                BY <2>1, <3>1 DEF KeepsEdges
        <2>5. KeepsSum(q, low, out)
            BY <1>5, <2>1 DEF KeepsSum
        <2>6. QED
            BY <2>2, <2>3, <2>4, <2>5
    <1> HIDE DEF low
    <1>7. Keeps(q, low, out)
        BY <1>6 DEF Keeps
    <1>8. QED
        BY <1>7 DEF low

\* A version of an id makes an opinion.
LEMMA HeldOpinion ==
    ASSUME NEW S, DOMAIN S \subseteq Nat, NEW on, NEW x, NEW i \in DOMAIN S, S[i][on][x] # Absent
    PROVE  Opinion(S, on, x) # Absent
    <1>1. PICK j \in DOMAIN S : Decides(S, on, x, j)
        BY SomeoneDecides
    <1>2. QED
        BY <1>1, OpinionOf DEF Decides

\* What the merged sources say, or nothing.
LEMMA RecordHeld ==
    ASSUME NEW q, DOMAIN q \subseteq Nat, NEW on, NEW x, NEW i \in DOMAIN q, IsLive(q[i][on][x]),
           x \notin Tombstones(q, on)
    PROVE  /\ IsLive(RecordOf(q, on, x))
           /\ \E h \in DOMAIN q : RecordOf(q, on, x) = q[h][on][x]
    <1> DEFINE held == {h \in DOMAIN q : IsLive(q[h][on][x])}
    <1>1. held \in SUBSET Nat /\ held # {}
        OBVIOUS
    <1>2. RecordOf(q, on, x) = q[Min(held)][on][x]
        BY <1>1 DEF RecordOf
    <1> HIDE DEF held
    <1>3. Min(held) \in held
        BY <1>1, MinIs
    <1>4. QED
        BY <1>2, <1>3 DEF held

\* The sidecar of a compaction's output.
LEMMA SidecarSum ==
    ASSUME NEW q, Slotted(q), \A i \in DOMAIN q : OverlayOk(q[i]), NEW pruning, NEW out, out.d = FoldedSidecar(q, pruning)
    PROVE  /\ OverlayOk(out)
           /\ out.d # {} => ~pruning /\ Complete(q) /\ KeepsSum(q, 0, out)
    <1>1. CASE pruning \/ ~Complete(q)
        <2>1. out.d = {}
            BY <1>1 DEF FoldedSidecar, Complete
        <2>2. QED
            BY <2>1 DEF OverlayOk
    <1>2. CASE ~pruning /\ Complete(q)
        <2> DEFINE b == SumOverlays(Overlays(q))
        <2>1. out.d = {b}
            BY <1>2 DEF FoldedSidecar, Complete, Overlays, Overlay
        <2>2. Len(Overlays(q)) = Len(q) /\ Len(q) \in Nat
            BY OverlaysAre DEF Slotted
        <2>3. \A n \in NodeIds : b[n][1] = Running(q, n, Len(q))
            BY <2>2 DEF SumOverlays, Running
        <2>4. Numeric(q)
            BY <1>2, CompleteNumeric
        <2>5. ASSUME NEW n \in NodeIds PROVE Running(q, n, Len(q)) \in Int /\ Running(q, n, 0) = 0
            <3>1. Len(q) \in 0..Len(q)
                BY <2>2
            <3>2. QED
                BY <2>4, <3>1, RunningInt, RunningIs
        <2> HIDE DEF b
        <2>6. OverlayOk(out)
            BY <2>1, <2>3, <2>5 DEF OverlayOk
        <2>7. Overlay(out) = b
            BY <2>1, OverlayOf
        <2>8. ASSUME NEW n \in NodeIds PROVE Value(out, n) = Running(q, n, Len(q)) - Running(q, n, 0)
            BY <2>3, <2>5, <2>7 DEF Value
        <2>9. QED
            BY <1>2, <2>6, <2>8 DEF KeepsSum
    <1>3. QED
        BY <1>1, <1>2

\* The ends of live edges are nodes, and the same in all versions.
Ended(q) ==
    /\ EndsFixed(q)
    /\ \A i \in DOMAIN q : \A e \in EdgeIds : IsLive(q[i].e[e]) => q[i].e[e].from \in NodeIds /\ q[i].e[e].to \in NodeIds

\* Both paths of a compaction keep what they have to.
LEMMA MergeKeeps ==
    ASSUME NEW q, IsSeq(q), Len(q) >= 1, Slotted(q), Ended(q), \A i \in DOMAIN q : OverlayOk(q[i]),
           NEW pruning, NEW out, out = Merge(q, pruning)
    PROVE  OverlayOk(out) /\ Keeps(q, 0, out)
    <1> DEFINE side == FoldedSidecar(q, pruning)
               fast == /\ Tombstones(q, "n") = {} /\ Tombstones(q, "e") = {} /\ ~pruning
                       /\ NonOverlapping(q, "n") /\ NonOverlapping(q, "e")
    <1>1. Len(q) \in Nat /\ DOMAIN q = 1..Len(q) /\ 1 \in DOMAIN q /\ (0 + 1)..Len(q) = DOMAIN q
        BY SeqIs
    <1>2. DOMAIN q[1].n = NodeIds /\ DOMAIN q[1].e = EdgeIds
        BY <1>1 DEF Slotted, SourceOk
    <1>3. out.d = side
        BY DEF Merge
    <1>4. OverlayOk(out) /\ (out.d # {} => ~pruning /\ Complete(q) /\ KeepsSum(q, 0, out))
        BY <1>3, SidecarSum
    <1>5. \A i \in DOMAIN q : (\A n \in NodeIds : SlotOk(q[i].n[n])) /\ (\A e \in EdgeIds : SlotOk(q[i].e[e]))
        BY DEF Slotted, SourceOk
    <1>6. \A n \in NodeIds : Unburied(q, 0, "n", n) => n \notin Tombstones(q, "n")
        BY <1>1 DEF Unburied, Tombstones
    <1>7. \A e \in EdgeIds : Unburied(q, 0, "e", e) => e \notin Tombstones(q, "e")
        BY <1>1 DEF Unburied, Tombstones
    <1>8. ~IsLive(Absent)
        BY DEF IsLive, Absent
    <1>9. ASSUME ~pruning PROVE KeepsNodes(q, 0, out) /\ KeepsEdges(q, 0, out)
        <2>1. CASE fast
            <3> DEFINE ns == Newest(q, "n")
                       es == Newest(q, "e")
            <3>1. out = [n |-> ns, e |-> es, d |-> side]
                BY <2>1 DEF Merge
            <3>2. \A n \in NodeIds : ns[n] = Opinion(q, "n", n)
                BY <1>2 DEF Newest
            <3>3. \A e \in EdgeIds : es[e] = Opinion(q, "e", e)
                BY <1>2 DEF Newest
            <3> HIDE DEF ns, es
            <3>4. ASSUME NEW n \in NodeIds, NEW i \in DOMAIN q, IsLive(q[i].n[n]) PROVE out.n[n] # Absent
                <4>1. q[i].n[n] # Absent /\ DOMAIN q \subseteq Nat
                    BY <1>1, <1>8, <3>4
                <4>2. Opinion(q, "n", n) # Absent
                    BY <4>1, HeldOpinion
                <4>3. QED
                    BY <3>1, <3>2, <4>2
            <3>5. ASSUME NEW e \in EdgeIds, NEW i \in DOMAIN q, IsLive(q[i].e[e]) PROVE out.e[e] # Absent
                <4>1. q[i].e[e] # Absent /\ DOMAIN q \subseteq Nat
                    BY <1>1, <1>8, <3>5
                <4>2. Opinion(q, "e", e) # Absent
                    BY <4>1, HeldOpinion
                <4>3. QED
                    BY <3>1, <3>3, <4>2
            <3>6. QED
                BY <1>1, <3>4, <3>5 DEF KeepsNodes, KeepsEdges
        <2>2. CASE ~fast
            <3> DEFINE rec(on, x) == RecordOf(q, on, x)
                       ns == [n \in NodeIds |-> IF IsLive(rec("n", n)) /\ pruning /\ rec("n", n).low
                                                THEN Absent ELSE rec("n", n)]
                       es == [e \in EdgeIds |-> IF /\ IsLive(rec("e", e)) /\ IsLive(ns[rec("e", e).from])
                                                   /\ IsLive(ns[rec("e", e).to])
                                                THEN rec("e", e) ELSE Absent]
            <3>1. Winners(q, pruning) = [n |-> ns, e |-> es]
                BY DEF Winners, RecordOf
            <3>2. out = [n |-> Winners(q, pruning).n, e |-> Winners(q, pruning).e, d |-> side]
                BY <2>2 DEF Merge
            <3>3. \A n \in NodeIds : ns[n] = RecordOf(q, "n", n)
                BY <1>9
            <3>4. \A e \in EdgeIds : es[e] = IF /\ IsLive(RecordOf(q, "e", e)) /\ IsLive(ns[RecordOf(q, "e", e).from])
                                                /\ IsLive(ns[RecordOf(q, "e", e).to])
                                             THEN RecordOf(q, "e", e) ELSE Absent
                OBVIOUS
            <3> HIDE DEF ns, es
            <3>5. out.n = ns /\ out.e = es
                BY <3>1, <3>2
            <3>6. KeepsNodes(q, 0, out)
                <4> SUFFICES ASSUME NEW n \in NodeIds, NEW i \in DOMAIN q, IsLive(q[i].n[n]), Unburied(q, 0, "n", n)
                             PROVE  out.n[n] # Absent
                    BY <1>1 DEF KeepsNodes
                <4>1. n \notin Tombstones(q, "n") /\ DOMAIN q \subseteq Nat
                    BY <1>1, <1>6
                <4>2. IsLive(RecordOf(q, "n", n))
                    BY <4>1, RecordHeld
                <4>3. QED
                    BY <1>8, <3>3, <3>5, <4>2
            <3>7. ASSUME NEW n \in NodeIds, out.n[n] # Absent PROVE IsLive(ns[n])
                <4>1. \A i \in 1..Len(q) : SlotOk(q[i].n[n])
                    BY <1>1, <1>5, <3>7
                <4>2. PicksFrom(q, 0, "n", n, RecordOf(q, "n", n))
                    BY <1>2, <3>7, <4>1, RecordPicks
                <4>3. QED
                    BY <3>3, <3>5, <3>7, <4>2 DEF PicksFrom
            <3>8. KeepsEdges(q, 0, out)
                <4> SUFFICES ASSUME NEW e \in EdgeIds, NEW i \in DOMAIN q, IsLive(q[i].e[e]), Unburied(q, 0, "e", e),
                                    out.n[q[i].e[e].from] # Absent, out.n[q[i].e[e].to] # Absent
                             PROVE  out.e[e] # Absent
                    BY <1>1 DEF KeepsEdges
                <4>1. e \notin Tombstones(q, "e") /\ DOMAIN q \subseteq Nat
                    BY <1>1, <1>7
                <4>2. IsLive(RecordOf(q, "e", e)) /\ \E h \in DOMAIN q : RecordOf(q, "e", e) = q[h].e[e]
                    BY <4>1, RecordHeld
                <4>3. PICK h \in DOMAIN q : RecordOf(q, "e", e) = q[h].e[e]
                    BY <4>2
                <4>4. q[h].e[e].from = q[i].e[e].from /\ q[h].e[e].to = q[i].e[e].to
                    BY <4>2, <4>3 DEF Ended, EndsFixed
                <4>5. q[i].e[e].from \in NodeIds /\ q[i].e[e].to \in NodeIds
                    BY DEF Ended
                <4>6. IsLive(ns[q[i].e[e].from]) /\ IsLive(ns[q[i].e[e].to])
                    BY <3>7, <4>5
                <4>7. es[e] = RecordOf(q, "e", e)
                    BY <3>4, <4>2, <4>3, <4>4, <4>6
                <4>8. QED
                    BY <1>8, <3>5, <4>2, <4>7
            <3>9. QED
                BY <3>6, <3>8
        <2>3. QED
            BY <2>1, <2>2
    <1>10. QED
        BY <1>1, <1>4, <1>9 DEF Keeps, Complete

\* Whoever decides after a compaction decided before it.
LEMMA CompactedDecides ==
    ASSUME NEW S, NEW nodes, NEW edges, Good(S, nodes, edges), NEW T, NEW p, NEW out, Compacted(S, T, p, out), NEW j \in DOMAIN T
    PROVE  /\ \A n \in NodeIds : Decides(T, "n", n, j) =>
                  \E h \in DOMAIN S : Decides(S, "n", n, h) /\ NodeFrom(S, T, p, j, n, h)
           /\ \A e \in EdgeIds : Decides(T, "e", e, j) =>
                  \E h \in DOMAIN S : Decides(S, "e", e, h) /\ EdgeFrom(S, T, p, j, e, h)
    <1>1. /\ Len(S) \in Nat /\ DOMAIN S = 1..Len(S) /\ p \in Nat /\ p <= Len(S)
          /\ DOMAIN T = 1..(p + 1) /\ \A i \in 1..p : T[i] = S[i]
        BY DEF Good, Compacted
    <1>2. ASSUME NEW n \in NodeIds, Decides(T, "n", n, j)
          PROVE  \E h \in DOMAIN S : Decides(S, "n", n, h) /\ NodeFrom(S, T, p, j, n, h)
        <2>1. T[j].n[n] # Absent /\ \A g \in DOMAIN T : g < j => T[g].n[n] = Absent
            BY <1>2 DEF Decides
        <2>2. PICK h \in DOMAIN S : NodeFrom(S, T, p, j, n, h)
            BY <1>2, <2>1, SlotsFrom
        <2>3. S[h].n[n] # Absent
            BY <2>1, <2>2 DEF NodeFrom
        <2>4. ASSUME NEW g \in DOMAIN S, g < h PROVE S[g].n[n] = Absent
            <3>1. CASE g <= p
                <4>1. g \in DOMAIN T /\ T[g] = S[g]
                    BY <1>1, <3>1
                <4>2. g < j
                    BY <1>1, <2>2, <2>4, <3>1 DEF NodeFrom
                <4>3. QED
                    BY <2>1, <4>1, <4>2
            <3>2. CASE g > p
                <4>1. j = p + 1
                    BY <1>1, <2>2, <2>4, <3>2 DEF NodeFrom
                <4>2. QED
                    BY <2>2, <2>4, <3>2, <4>1 DEF NodeFrom
            <3>3. QED
                BY <1>1, <3>1, <3>2
        <2>5. QED
            BY <2>2, <2>3, <2>4 DEF Decides
    <1>3. ASSUME NEW e \in EdgeIds, Decides(T, "e", e, j)
          PROVE  \E h \in DOMAIN S : Decides(S, "e", e, h) /\ EdgeFrom(S, T, p, j, e, h)
        <2>1. T[j].e[e] # Absent /\ \A g \in DOMAIN T : g < j => T[g].e[e] = Absent
            BY <1>3 DEF Decides
        <2>2. PICK h \in DOMAIN S : EdgeFrom(S, T, p, j, e, h)
            BY <1>3, <2>1, SlotsFrom
        <2>3. S[h].e[e] # Absent
            BY <2>1, <2>2 DEF EdgeFrom
        <2>4. ASSUME NEW g \in DOMAIN S, g < h PROVE S[g].e[e] = Absent
            <3>1. CASE g <= p
                <4>1. g \in DOMAIN T /\ T[g] = S[g]
                    BY <1>1, <3>1
                <4>2. g < j
                    BY <1>1, <2>2, <2>4, <3>1 DEF EdgeFrom
                <4>3. QED
                    BY <2>1, <4>1, <4>2
            <3>2. CASE g > p
                <4>1. j = p + 1
                    BY <1>1, <2>2, <2>4, <3>2 DEF EdgeFrom
                <4>2. QED
                    BY <2>2, <2>4, <3>2, <4>1 DEF EdgeFrom
            <3>3. QED
                BY <1>1, <3>1, <3>2
        <2>5. QED
            BY <2>2, <2>3, <2>4 DEF Decides
    <1>4. QED
        BY <1>2, <1>3

\* A compaction changes no opinion, but it may drop one.
LEMMA CompactedOpinion ==
    ASSUME NEW S, NEW nodes, NEW edges, Good(S, nodes, edges), NEW T, NEW p, NEW out, Compacted(S, T, p, out)
    PROVE  /\ \A n \in NodeIds : Opinion(T, "n", n) # Absent => Opinion(T, "n", n) = Opinion(S, "n", n)
           /\ \A e \in EdgeIds : Opinion(T, "e", e) # Absent => Opinion(T, "e", e) = Opinion(S, "e", e)
    <1>1. DOMAIN S \subseteq Nat /\ DOMAIN T \subseteq Nat
        BY DEF Good, Compacted
    <1>2. ASSUME NEW n \in NodeIds, Opinion(T, "n", n) # Absent PROVE Opinion(T, "n", n) = Opinion(S, "n", n)
        <2>1. PICK j \in DOMAIN T : Decides(T, "n", n, j)
            BY <1>1, <1>2, SomeoneDecides
        <2>2. PICK h \in DOMAIN S : Decides(S, "n", n, h) /\ NodeFrom(S, T, p, j, n, h)
            BY <2>1, CompactedDecides
        <2>3. Opinion(T, "n", n) = T[j].n[n]
            BY <1>1, <2>1, OpinionOf
        <2>4. Opinion(S, "n", n) = S[h].n[n]
            BY <1>1, <2>2, OpinionOf
        <2>5. QED
            BY <2>2, <2>3, <2>4 DEF NodeFrom
    <1>3. ASSUME NEW e \in EdgeIds, Opinion(T, "e", e) # Absent PROVE Opinion(T, "e", e) = Opinion(S, "e", e)
        <2>1. PICK j \in DOMAIN T : Decides(T, "e", e, j)
            BY <1>1, <1>3, SomeoneDecides
        <2>2. PICK h \in DOMAIN S : Decides(S, "e", e, h) /\ EdgeFrom(S, T, p, j, e, h)
            BY <2>1, CompactedDecides
        <2>3. Opinion(T, "e", e) = T[j].e[e]
            BY <1>1, <2>1, OpinionOf
        <2>4. Opinion(S, "e", e) = S[h].e[e]
            BY <1>1, <2>2, OpinionOf
        <2>5. QED
            BY <2>2, <2>3, <2>4 DEF EdgeFrom
    <1>4. QED
        BY <1>2, <1>3

\* The ends of an edge that counts at a kept node are live.
LEMMA AnchoredEnds ==
    ASSUME NEW S, NEW nodes \in Nat, nodes <= MaxNode + 1, NEW edges, Good(S, nodes, edges), NEW n \in NodeIds,
           Kept(S, n, nodes), Anchored(S, n), NEW e \in ValidAt(S, n), NEW slot, slot = Opinion(S, "e", e)
    PROVE  /\ e \in EdgeIds /\ IsLive(slot) /\ slot.from \in NodeIds /\ slot.to \in NodeIds
           /\ IsLive(Opinion(S, "n", slot.from)) /\ IsLive(Opinion(S, "n", slot.to))
    <1>1. e \in EdgeIds /\ IsLive(slot) /\ n \in {slot.from, slot.to}
        BY DEF ValidAt, Counts, Touches
    <1>2. slot.from \in 1..(nodes - 1) /\ slot.to \in 1..(nodes - 1)
        BY <1>1, LiveEnds
    <1>3. IsLive(Opinion(S, "n", n))
        <2>1. n < nodes
            BY <1>1, <1>2
        <2>2. QED
            BY <2>1, GraphConstantsAssumption DEF Kept, NodeIds
    <1>4. IsLive(Opinion(S, "n", OtherEnd(slot, n)))
        BY DEF Anchored
    <1>5. slot.from \in NodeIds /\ slot.to \in NodeIds
        BY CountedEnds
    <1>6. QED
        BY <1>1, <1>3, <1>4, <1>5 DEF OtherEnd

\* A live node that an input knows is in the output.
LEMMA KnownIsKept ==
    ASSUME NEW S, NEW nodes, NEW edges, Good(S, nodes, edges), NEW p \in Nat, NEW out, KeepsNodes(S, p, out),
           NEW m \in NodeIds, IsLive(Opinion(S, "n", m)), NEW j \in DOMAIN S, j > p, S[j].n[m] # Absent
    PROVE  out.n[m] # Absent
    <1>1. \A i \in DOMAIN S : ~IsDead(S[i].n[m])
        BY NoTombstone
    <1>2. Len(S) \in Nat /\ DOMAIN S = 1..Len(S) /\ SlotOk(S[j].n[m])
        BY DEF Good, SourceOk
    <1>3. IsLive(S[j].n[m])
        BY <1>1, <1>2 DEF SlotOk
    <1>4. Unburied(S, p, "n", m)
        BY <1>1, <1>2 DEF Unburied
    <1>5. j \in (p + 1)..Len(S)
        BY <1>2
    <1>6. QED
        BY <1>3, <1>4, <1>5 DEF KeepsNodes

\* The end of a compaction keeps the degrees exact.
LEMMA CompactedDegrees ==
    ASSUME NEW S, NEW nodes \in Nat, nodes <= MaxNode + 1, NEW edges, Good(S, nodes, edges), NEW lost,
           DegreeGood(S, nodes, lost), NEW T, NEW p, NEW out, Compacted(S, T, p, out), OverlayOk(out), Keeps(S, p, out)
    PROVE  DegreeGood(T, nodes, lost)
    <1>1. /\ Len(S) \in Nat /\ DOMAIN S = 1..Len(S) /\ p \in Nat /\ p <= Len(S)
          /\ DOMAIN T = 1..(p + 1) /\ Len(T) = p + 1 /\ (\A i \in 1..p : T[i] = S[i]) /\ T[p + 1] = out
          /\ DOMAIN S \subseteq Nat /\ DOMAIN T \subseteq Nat /\ p + 1 \in DOMAIN T
        BY DEF Good, Compacted
    <1>2. \A i \in DOMAIN S : OverlayOk(S[i])
        BY DEF DegreeGood
    <1>3. \A i \in DOMAIN T : OverlayOk(T[i])
        <2>1. ASSUME NEW i \in DOMAIN T PROVE OverlayOk(T[i])
            <3>1. CASE i <= p
                BY <1>1, <1>2, <3>1
            <3>2. CASE i = p + 1
                BY <1>1, <3>2
            <3>3. QED
                BY <1>1, <3>1, <3>2
        <2>2. QED
            BY <2>1
    <1>4. Good(T, nodes, edges) /\ Slotted(S) /\ Slotted(T)
        BY CompactedGood, GoodSlotted
    <1>5. ~IsLive(Absent)
        BY DEF IsLive, Absent
    <1>6. ASSUME Complete(T), NEW n \in NodeIds \ lost, Kept(T, n, nodes)
          PROVE  Total(T, n) = Cardinality(ValidAt(T, n)) /\ Anchored(T, n)
        <2>1. out.d # {}
            BY <1>1, <1>6 DEF Complete
        <2>2. /\ \A i \in (p + 1)..Len(S) : S[i].d # {}
              /\ KeepsNodes(S, p, out) /\ KeepsEdges(S, p, out) /\ KeepsSum(S, p, out)
            BY <2>1 DEF Keeps
        <2>3. Complete(S)
            <3>1. ASSUME NEW i \in DOMAIN S PROVE S[i].d # {}
                <4>1. CASE i <= p
                    <5>1. i \in DOMAIN T /\ T[i] = S[i]
                        BY <1>1, <4>1
                    <5>2. QED
                        BY <1>6, <5>1 DEF Complete
                <4>2. CASE i > p
                    BY <1>1, <2>2, <4>2
                <4>3. QED
                    BY <1>1, <4>1, <4>2
            <3>2. QED
                BY <3>1 DEF Complete
        <2>4. Kept(S, n, nodes)
            BY <1>5, <1>6, CompactedOpinion DEF Kept
        <2>5. Total(S, n) = Cardinality(ValidAt(S, n)) /\ Anchored(S, n)
            BY <2>3, <2>4 DEF DegreeGood
        <2>6. Numeric(S) /\ Numeric(T)
            BY <1>2, <1>3, <1>6, <2>3, CompleteNumeric
        <2>7. Total(T, n) = Total(S, n)
            <3>1. Running(T, n, p + 1) = Running(T, n, p) + Value(out, n)
                <4> DEFINE k == p + 1
                <4>1. k \in 1..Len(T) /\ k - 1 = p /\ T[k] = out
                    BY <1>1
                <4> HIDE DEF k
                <4>2. Running(T, n, k) = Running(T, n, k - 1) + Value(T[k], n)
                    BY <1>4, <4>1, RunningIs
                <4>3. QED
                    BY <4>1, <4>2 DEF k
            <3>2. Value(out, n) = Running(S, n, Len(S)) - Running(S, n, p)
                BY <2>2, <2>3 DEF KeepsSum
            <3>3. Running(S, n, p) = Running(T, n, p)
                <4> DEFINE off == 0
                <4>1. Continues(S, T, off, p)
                    BY <1>1 DEF Continues
                <4> HIDE DEF off
                <4>2. Running(S, n, off + p) = Running(S, n, off) + Running(T, n, p)
                    BY <1>4, <2>6, <4>1, RunningShift
                <4>3. Running(S, n, 0) = 0 /\ p \in 0..Len(T)
                    BY <1>1, <1>4, RunningIs
                <4>4. Running(T, n, p) \in Int /\ 0 + p = p
                    BY <1>1, <1>4, <2>6, <4>3, RunningInt
                <4>5. QED
                    BY <4>2, <4>3, <4>4 DEF off
            <3>4. Running(S, n, p) \in Int /\ Running(S, n, Len(S)) \in Int
                <4>1. p \in 0..Len(S) /\ Len(S) \in 0..Len(S)
                    BY <1>1
                <4>2. QED
                    BY <1>4, <2>6, <4>1, RunningInt
            <3> DEFINE a == Running(S, n, p)
                       b == Running(S, n, Len(S))
            <3>5. a \in Int /\ b \in Int /\ Running(T, n, p + 1) = a + (b - a)
                BY <3>1, <3>2, <3>3, <3>4
            <3> HIDE DEF a, b
            <3>6. Running(T, n, p + 1) = b
                BY <3>5
            <3>7. QED
                BY <1>1, <3>6 DEF Total, b
        <2>8. ASSUME NEW m \in NodeIds, IsLive(Opinion(S, "n", m)), NEW j \in DOMAIN S, S[j].n[m] # Absent
              PROVE  \E k \in DOMAIN T : T[k].n[m] # Absent /\ (j <= p => k = j) /\ (j > p => k = p + 1)
            <3>1. CASE j <= p
                <4>1. j \in DOMAIN T /\ T[j] = S[j] /\ ~(j > p)
                    BY <1>1, <3>1
                <4>2. QED
                    BY <2>8, <4>1
            <3>2. CASE j > p
                <4>1. out.n[m] # Absent
                    BY <1>1, <2>2, <2>8, <3>2, KnownIsKept
                <4>2. ~(j <= p)
                    BY <1>1, <3>2
                <4>3. QED
                    BY <1>1, <4>1, <4>2
            <3>3. QED
                BY <1>1, <3>1, <3>2
        <2>9. ASSUME NEW m \in NodeIds, IsLive(Opinion(S, "n", m)) PROVE Opinion(T, "n", m) = Opinion(S, "n", m)
            <3>1. PICK j \in DOMAIN S : Decides(S, "n", m, j) /\ Opinion(S, "n", m) = S[j].n[m]
                BY <1>1, <2>9, LiveDecided
            <3>2. S[j].n[m] # Absent
                BY <3>1 DEF Decides
            <3>3. PICK k \in DOMAIN T : T[k].n[m] # Absent
                BY <2>8, <2>9, <3>2
            <3>4. Opinion(T, "n", m) # Absent
                BY <1>1, <3>3, HeldOpinion
            <3>5. QED
                BY <2>9, <3>4, CompactedOpinion
        <2>10. ASSUME NEW m \in NodeIds, IsLive(Opinion(S, "n", m)), NEW h \in DOMAIN S, KnownBehind(S, m, h),
                      NEW i \in DOMAIN T, i <= p => h = i, i = p + 1 => h > p
               PROVE  KnownBehind(T, m, i)
            <3>1. PICK j \in DOMAIN S : j >= h /\ S[j].n[m] # Absent
                BY <2>10 DEF KnownBehind
            <3>2. PICK k \in DOMAIN T : T[k].n[m] # Absent /\ (j <= p => k = j) /\ (j > p => k = p + 1)
                BY <2>8, <2>10, <3>1
            <3>3. k >= i
                BY <1>1, <2>10, <3>1, <3>2
            <3>4. QED
                BY <3>2, <3>3 DEF KnownBehind
        <2>11. ASSUME NEW e \in ValidAt(S, n) PROVE Opinion(T, "e", e) = Opinion(S, "e", e)
            <3> DEFINE slot == Opinion(S, "e", e)
            <3>1. /\ e \in EdgeIds /\ IsLive(slot) /\ slot.from \in NodeIds /\ slot.to \in NodeIds
                  /\ IsLive(Opinion(S, "n", slot.from)) /\ IsLive(Opinion(S, "n", slot.to))
                BY <2>4, <2>5, AnchoredEnds
            <3>2. PICK i \in DOMAIN S : Decides(S, "e", e, i) /\ slot = S[i].e[e]
                BY <1>1, <3>1, LiveDecided
            <3>3. S[i].e[e] # Absent /\ IsLive(S[i].e[e])
                BY <3>1, <3>2 DEF Decides
            <3>4. \E k \in DOMAIN T : T[k].e[e] # Absent
                <4>1. CASE i <= p
                    BY <1>1, <3>3, <4>1
                <4>2. CASE i > p
                    <5>1. KnownBehind(S, slot.from, i) /\ KnownBehind(S, slot.to, i)
                        BY <2>5, <3>2 DEF Anchored
                    <5>2. PICK f \in DOMAIN S : f >= i /\ S[f].n[slot.from] # Absent
                        BY <5>1 DEF KnownBehind
                    <5>3. PICK t \in DOMAIN S : t >= i /\ S[t].n[slot.to] # Absent
                        BY <5>1 DEF KnownBehind
                    <5>4. f > p /\ t > p
                        BY <1>1, <4>2, <5>2, <5>3
                    <5>5. out.n[slot.from] # Absent
                        BY <1>1, <2>2, <3>1, <5>2, <5>4, KnownIsKept
                    <5>6. out.n[slot.to] # Absent
                        BY <1>1, <2>2, <3>1, <5>3, <5>4, KnownIsKept
                    <5>7. \A h \in DOMAIN S : ~IsDead(S[h].e[e])
                        BY <3>1, NoTombstone
                    <5>8. Unburied(S, p, "e", e)
                        BY <1>1, <5>7 DEF Unburied
                    <5>9. i \in (p + 1)..Len(S)
                        BY <1>1, <4>2
                    <5>10. out.e[e] # Absent
                        BY <2>2, <3>1, <3>2, <3>3, <5>5, <5>6, <5>8, <5>9 DEF KeepsEdges
                    <5>11. QED
                        BY <1>1, <5>10
                <4>3. QED
                    BY <1>1, <4>1, <4>2
            <3>5. Opinion(T, "e", e) # Absent
                BY <1>1, <3>4, HeldOpinion
            <3>6. QED
                BY <3>1, <3>5, CompactedOpinion
        <2>12. ValidAt(T, n) = ValidAt(S, n)
            <3>1. ASSUME NEW e \in ValidAt(T, n) PROVE e \in ValidAt(S, n)
                <4>1. e \in EdgeIds /\ Counts(Opinion(T, "e", e), n)
                    BY DEF ValidAt
                <4>2. Opinion(T, "e", e) # Absent
                    BY <1>5, <4>1 DEF Counts, Touches
                <4>3. QED
                    BY <4>1, <4>2, CompactedOpinion DEF ValidAt
            <3>2. ASSUME NEW e \in ValidAt(S, n) PROVE e \in ValidAt(T, n)
                BY <2>11 DEF ValidAt
            <3>3. QED
                BY <3>1, <3>2
        <2>13. ASSUME NEW e \in ValidAt(T, n)
               PROVE  /\ IsLive(Opinion(T, "n", OtherEnd(Opinion(T, "e", e), n)))
                      /\ \A i \in DOMAIN T : Decides(T, "e", e, i) =>
                             KnownBehind(T, T[i].e[e].from, i) /\ KnownBehind(T, T[i].e[e].to, i)
            <3> DEFINE slot == Opinion(S, "e", e)
            <3>1. e \in ValidAt(S, n) /\ Opinion(T, "e", e) = slot
                BY <2>11, <2>12
            <3>2. /\ e \in EdgeIds /\ IsLive(slot) /\ slot.from \in NodeIds /\ slot.to \in NodeIds
                  /\ IsLive(Opinion(S, "n", slot.from)) /\ IsLive(Opinion(S, "n", slot.to))
                BY <2>4, <2>5, <3>1, AnchoredEnds
            <3>3. IsLive(Opinion(T, "n", OtherEnd(slot, n)))
                BY <2>9, <3>2 DEF OtherEnd
            <3>4. ASSUME NEW i \in DOMAIN T, Decides(T, "e", e, i)
                  PROVE  KnownBehind(T, T[i].e[e].from, i) /\ KnownBehind(T, T[i].e[e].to, i)
                <4>1. PICK h \in DOMAIN S : Decides(S, "e", e, h) /\ EdgeFrom(S, T, p, i, e, h)
                    BY <3>2, <3>4, CompactedDecides
                <4>2. slot = S[h].e[e] /\ T[i].e[e] = S[h].e[e] /\ (i <= p => h = i) /\ (i = p + 1 => h > p)
                    BY <1>1, <4>1, OpinionOf DEF EdgeFrom
                <4>3. KnownBehind(S, slot.from, h) /\ KnownBehind(S, slot.to, h)
                    BY <2>5, <3>1, <4>1, <4>2 DEF Anchored
                <4>4. KnownBehind(T, slot.from, i) /\ KnownBehind(T, slot.to, i)
                    BY <2>10, <3>2, <4>2, <4>3
                <4>5. QED
                    BY <4>2, <4>4
            <3>5. QED
                BY <3>1, <3>3, <3>4
        <2>14. QED
            BY <2>5, <2>7, <2>12, <2>13 DEF Anchored
    <1>7. QED
        BY <1>3, <1>6 DEF DegreeGood

-----------------------------------------------------------------------------
(* Every step keeps the degrees *)

\* A running compaction's output can take the place of its inputs.
JobKeeps(j) == OverlayOk(j.out) /\ Keeps(segments, Len(segments) - j.n, j.out)

DegreeInv == DegreeGood(Sources, nextNode, dangled) /\ \A j \in job : JobKeeps(j)

\* The segments and their overlays.
LEMMA SegmentsSlotted ==
    ASSUME StoreOk, DegreeGood(Sources, nextNode, dangled)
    PROVE  Slotted(segments) /\ \A i \in DOMAIN segments : OverlayOk(segments[i])
    <1>1. /\ Layered(active, frozen, segments, Sources) /\ Len(frozen) \in Nat /\ Len(segments) \in Nat
          /\ \A i \in 1..Len(segments) : SourceOk(segments[i])
        BY SegmentsOk
    <1>2. DOMAIN segments = 1..Len(segments) /\ DOMAIN Sources = 1..Len(Sources)
        BY SeqIs DEF StoreOk, Good
    <1>3. ASSUME NEW i \in DOMAIN segments PROVE OverlayOk(segments[i])
        <2>1. (Len(frozen) + 1) + i \in DOMAIN Sources /\ Sources[(Len(frozen) + 1) + i] = segments[i]
            BY <1>1, <1>2 DEF Layered
        <2>2. QED
            BY <2>1 DEF DegreeGood
    <1>4. QED
        BY <1>1, <1>2, <1>3 DEF Slotted

\* A commit.
LEMMA CommitDegreesOk ==
    ASSUME GraphInv, DegreeInv, Committed
    PROVE  DegreeInv'
    <1>1. PICK plan :
              /\ PlanOk(plan, seq + 1)
              /\ active' = AppendAndApply(active, plan.ops, seq + 1, Newest(Sources, "e"))
              /\ dangled' = dangled \union Dangling(<<active'>> \o frozen \o segments)
              /\ nextNode' = plan.nodes
        BY DEF Committed
    <1>2. frozen' = frozen /\ segments' = segments /\ job' = job
        BY DEF Committed
    <1>3. /\ StoreOk /\ IsSeq(frozen) /\ IsSeq(segments) /\ Good(Sources, nextNode, nextEdge) /\ nextNode \in Nat
          /\ DegreeGood(Sources, nextNode, dangled)
        BY DEF GraphInv, StoreOk, DegreeInv
    <1>4. IsSeq(Older) /\ Sources = With(active, Older)
        BY <1>3, SourcesOpen
    <1> DEFINE T == With(ApplyOps(active, plan.ops, seq + 1), Older)
               x == AppendAndApply(active, plan.ops, seq + 1, Newest(Sources, "e"))
               U == With(x, Older)
               gone == dangled \union Dangling(U)
    <1>5. /\ plan.nodes \in Nat /\ Good(T, plan.nodes, plan.edges) /\ NoneReturns(Sources, T)
          /\ nextNode <= plan.nodes /\ OpsOk(plan.ops)
        BY <1>1 DEF PlanOk
    <1>6. <<x>> \o frozen \o segments = U
        <2> HIDE DEF x
        <2>1. Chained(x, frozen, segments)
            BY <1>3, SourcesAre
        <2>2. QED
            BY <2>1 DEF Chained, Older
    <1>7. active' = x /\ Sources' = U /\ dangled' = gone
        <2>1. active' = x
            BY <1>1
        <2> HIDE DEF x
        <2>2. Sources' = <<x>> \o frozen \o segments
            BY <1>2, <2>1 DEF Sources
        <2>3. QED
            BY <1>1, <1>6, <2>1, <2>2
    <1>8. \A n \in NodeIds : Kept(T, n, plan.nodes) => Kept(Sources, n, nextNode)
        <2> HIDE DEF T
        <2>1. NodeIds \subseteq Nat
            BY GraphConstantsAssumption DEF NodeIds
        <2>2. QED
            BY <1>3, <1>5, <2>1 DEF Kept, NoneReturns
    <1>9. DegreeGood(U, plan.nodes, gone)
        <2>1. dangled \subseteq gone /\ Dangling(U) \subseteq gone
            OBVIOUS
        <2> HIDE DEF gone
        <2>2. QED
            BY <1>3, <1>4, <1>5, <1>8, <2>1, CommitDegrees
    <1> HIDE DEF U, gone
    <1>10. DegreeGood(Sources, nextNode, dangled)'
        BY <1>1, <1>7, <1>9
    <1>11. (\A j \in job : JobKeeps(j))'
        BY <1>2 DEF DegreeInv, JobKeeps
    <1>12. QED
        BY <1>10, <1>11 DEF DegreeInv

\* A freeze.
LEMMA FreezeDegreesOk ==
    ASSUME GraphInv, DegreeInv, Freeze
    PROVE  DegreeInv'
    <1>1. IsSeq(Sources) /\ Sources' = With(EmptySource, Sources)
        BY FreezeOk DEF Frozen
    <1>2. segments' = segments /\ job' = job /\ nextNode' = nextNode /\ dangled' = dangled
        BY DEF Freeze, MaintenanceFrame
    <1>3. /\ Good(Sources, nextNode, nextEdge) /\ nextNode \in Nat /\ nextNode <= MaxNode + 1
          /\ DegreeGood(Sources, nextNode, dangled)
        BY DEF GraphInv, StoreOk, DegreeInv
    <1> DEFINE T == With(EmptySource, Sources)
    <1>4. DegreeGood(T, nextNode, dangled)
        BY <1>1, <1>3, FreezeDegrees
    <1>5. Sources' = T
        BY <1>1
    <1> HIDE DEF T
    <1>6. DegreeGood(Sources, nextNode, dangled)'
        BY <1>2, <1>4, <1>5
    <1>7. (\A j \in job : JobKeeps(j))'
        BY <1>2 DEF DegreeInv, JobKeeps
    <1>8. QED
        BY <1>6, <1>7 DEF DegreeInv

\* A flush.
LEMMA FlushDegreesOk ==
    ASSUME GraphInv, DegreeInv, Flush
    PROVE  DegreeInv'
    <1>1. Sources' = Sources /\ (\E x : segments' = With(x, segments)) /\ StoreOk'
        BY FlushOk DEF Flushed, StepOk, GraphInv
    <1>2. job' = job /\ nextNode' = nextNode /\ dangled' = dangled
        BY DEF Flush, MaintenanceFrame
    <1>3. DegreeGood(Sources, nextNode, dangled)'
        BY <1>1, <1>2 DEF DegreeInv
    <1>4. Slotted(segments) /\ StoreOk /\ IsSeq(segments)
        BY SegmentsSlotted DEF GraphInv, DegreeInv, StoreOk
    <1>5. (Slotted(segments) /\ \A i \in DOMAIN segments : OverlayOk(segments[i]))'
        BY <1>1, <1>3, SegmentsSlotted, PTL
    <1>6. PICK x : segments' = With(x, segments)
        BY <1>1
    <1> DEFINE q == With(x, segments)
    <1>7. Slotted(q) /\ \A i \in DOMAIN q : OverlayOk(q[i])
        BY <1>5, <1>6
    <1>8. Len(segments) \in Nat /\ Len(q) = 1 + Len(segments) /\ \A i \in 1..Len(segments) : q[1 + i] = segments[i]
        <2>1. Len(segments) \in Nat
            BY <1>4, SeqIs
        <2>2. Len(q) = Len(segments) + 1 /\ \A i \in 2..(Len(segments) + 1) : q[i] = segments[i - 1]
            BY <1>4, WithIs
        <2> HIDE DEF q
        <2>3. ASSUME NEW i \in 1..Len(segments) PROVE q[1 + i] = segments[i]
            <3>1. 1 + i \in 2..(Len(segments) + 1) /\ (1 + i) - 1 = i
                BY <2>1
            <3>2. QED
                BY <2>2, <3>1
        <2>4. QED
            BY <2>1, <2>2, <2>3
    <1> HIDE DEF q
    <1>9. ASSUME NEW j \in job PROVE OverlayOk(j.out) /\ Keeps(q, Len(q) - j.n, j.out)
        <2>1. OverlayOk(j.out) /\ Keeps(segments, Len(segments) - j.n, j.out) /\ j.n \in 1..Len(segments)
            BY DEF DegreeInv, JobKeeps, GraphInv, JobsOk, JobOk
        <2> DEFINE base == Len(segments) - j.n
                   off == 1
        <2>2. base \in 0..Len(segments) /\ off \in Nat /\ off + base = Len(q) - j.n /\ Len(q) = off + Len(segments)
            BY <1>8, <2>1
        <2>3. Keeps(segments, base, j.out) /\ \A i \in 1..Len(segments) : q[off + i] = segments[i]
            BY <1>8, <2>1
        <2> HIDE DEF base, off
        <2>4. Keeps(q, off + base, j.out)
            BY <1>4, <1>7, <2>2, <2>3, KeepsShift
        <2>5. QED
            BY <2>1, <2>2, <2>4
    <1>10. (\A j \in job : JobKeeps(j))'
        BY <1>2, <1>6, <1>9 DEF JobKeeps, q
    <1>11. QED
        BY <1>3, <1>10 DEF DegreeInv

\* The start of a compaction.
LEMMA StartCompactDegreesOk ==
    ASSUME GraphInv, DegreeInv, StartCompact
    PROVE  DegreeInv'
    <1>1. /\ StoreOk /\ IsSeq(segments) /\ Good(Sources, nextNode, nextEdge) /\ nextNode \in Nat /\ nextNode <= MaxNode + 1
          /\ DegreeGood(Sources, nextNode, dangled)
        BY DEF GraphInv, StoreOk, DegreeInv
    <1> DEFINE out == Merge(segments, policy)
               j == [n |-> Len(segments), out |-> out, policy |-> policy]
    <1>2. /\ active' = active /\ frozen' = frozen /\ segments' = segments /\ nextNode' = nextNode
          /\ dangled' = dangled /\ job' = {j} /\ Len(segments) >= 2
        BY DEF StartCompact, storeVars, MaintenanceFrame
    <1>3. Slotted(segments) /\ (\A i \in DOMAIN segments : OverlayOk(segments[i])) /\ Len(segments) \in Nat
        BY <1>1, SegmentsSlotted DEF Slotted
    <1>4. Ended(segments)
        <2>1. Layered(active, frozen, segments, Sources) /\ Len(frozen) \in Nat
            BY <1>1, SegmentsOk
        <2>2. ASSUME NEW i \in DOMAIN segments
              PROVE  (Len(frozen) + 1) + i \in DOMAIN Sources /\ Sources[(Len(frozen) + 1) + i] = segments[i]
            BY <1>1, <1>3, <2>1 DEF Layered, Slotted, Good
        <2>3. EndsFixed(segments)
            <3>1. EndsFixed(Sources)
                BY <1>1 DEF Good
            <3>2. QED
                BY <2>2, <3>1 DEF EndsFixed
        <2>4. ASSUME NEW i \in DOMAIN segments, NEW e \in EdgeIds, IsLive(segments[i].e[e])
              PROVE  segments[i].e[e].from \in NodeIds /\ segments[i].e[e].to \in NodeIds
            BY <1>1, <2>2, <2>4, EndsAreNodes, GraphConstantsAssumption
        <2>5. QED
            BY <2>3, <2>4 DEF Ended
    <1>5. OverlayOk(out) /\ Keeps(segments, 0, out)
        <2>1. Len(segments) >= 1
            BY <1>2, <1>3
        <2>2. QED
            BY <1>1, <1>3, <1>4, <2>1, MergeKeeps
    <1>6. j.out = out /\ Len(segments) - j.n = 0
        BY <1>3
    <1> HIDE DEF out, j
    <1>7. JobKeeps(j)
        BY <1>5, <1>6 DEF JobKeeps
    <1>8. (\A h \in job : JobKeeps(h))'
        BY <1>2, <1>7 DEF JobKeeps
    <1>9. DegreeGood(Sources, nextNode, dangled)'
        BY <1>1, <1>2 DEF Sources
    <1>10. QED
        BY <1>8, <1>9 DEF DegreeInv

\* The end of a compaction.
LEMMA FinishCompactDegreesOk ==
    ASSUME GraphInv, DegreeInv, FinishCompact
    PROVE  DegreeInv'
    <1>1. PICK j \in job : Compacted(Sources, Sources', (Len(frozen) + 1) + (Len(segments) - j.n), j.out)
        BY FinishCompactOk DEF Replaced
    <1>2. job' = {} /\ nextNode' = nextNode /\ dangled' = dangled
        BY DEF FinishCompact, MaintenanceFrame
    <1>3. /\ StoreOk /\ Good(Sources, nextNode, nextEdge) /\ nextNode \in Nat /\ nextNode <= MaxNode + 1
          /\ DegreeGood(Sources, nextNode, dangled)
        BY DEF GraphInv, StoreOk, DegreeInv
    <1>4. OverlayOk(j.out) /\ Keeps(segments, Len(segments) - j.n, j.out) /\ j.n \in 1..Len(segments)
        BY DEF DegreeInv, JobKeeps, GraphInv, JobsOk, JobOk
    <1>5. Layered(active, frozen, segments, Sources) /\ Len(frozen) \in Nat /\ Len(segments) \in Nat
        BY <1>3, SegmentsOk
    <1> DEFINE base == Len(segments) - j.n
               off == Len(frozen) + 1
               p == off + base
               T == Sources'
    <1>6. base \in 0..Len(segments) /\ off \in Nat /\ Len(Sources) = off + Len(segments)
          /\ \A i \in 1..Len(segments) : Sources[off + i] = segments[i]
        BY <1>4, <1>5 DEF Layered
    <1>7. Slotted(Sources) /\ Slotted(segments) /\ \A i \in DOMAIN Sources : OverlayOk(Sources[i])
        BY <1>3, GoodSlotted, SegmentsSlotted DEF DegreeGood
    <1>8. Keeps(segments, base, j.out) /\ Compacted(Sources, T, p, j.out)
        BY <1>1, <1>4
    <1> HIDE DEF base, off
    <1>9. Keeps(Sources, p, j.out)
        BY <1>6, <1>7, <1>8, KeepsShift
    <1> HIDE DEF p, T
    <1>10. DegreeGood(T, nextNode, dangled)
        BY <1>3, <1>4, <1>8, <1>9, CompactedDegrees
    <1>11. DegreeGood(Sources, nextNode, dangled)'
        BY <1>2, <1>10 DEF T
    <1>12. QED
        BY <1>2, <1>11 DEF DegreeInv

\* The other steps.
LEMMA OthersDegreesOk ==
    ASSUME DegreeInv, CancelCompact \/ SetPrunePolicy \/ UNCHANGED vars
    PROVE  DegreeInv'
    <1>1. /\ active' = active /\ frozen' = frozen /\ segments' = segments /\ nextNode' = nextNode
          /\ dangled' = dangled /\ (job' = {} \/ job' = job)
        BY DEF CancelCompact, SetPrunePolicy, MaintenanceFrame, storeVars, vars
    <1>2. DegreeGood(Sources, nextNode, dangled)'
        BY <1>1 DEF DegreeInv, Sources
    <1>3. (\A j \in job : JobKeeps(j))'
        BY <1>1 DEF DegreeInv, JobKeeps
    <1>4. QED
        BY <1>2, <1>3 DEF DegreeInv

\* Every step.
LEMMA NextDegreesOk ==
    ASSUME GraphInv, DegreeInv, [Next]_vars
    PROVE  DegreeInv'
    <1>1. CASE Write
        <2>1. Committed
            BY <1>1, UpsertNodeOk, AddNodeLabelOk, RemoveNodeLabelOk, UpsertEdgeOk, DeleteNodeOk, DeleteEdgeOk,
               InvalidateEdgeOk, PruneOk, BatchUpsertNodesOk, BatchUpsertEdgesOk, GraphPatchOk DEF Write
        <2>2. QED
            BY <2>1, CommitDegreesOk
    <1>2. CASE Maintain
        BY <1>2, FreezeDegreesOk, FlushDegreesOk, StartCompactDegreesOk, FinishCompactDegreesOk, OthersDegreesOk DEF Maintain
    <1>3. CASE SetPrunePolicy \/ UNCHANGED vars
        BY <1>3, OthersDegreesOk
    <1>4. QED
        BY <1>1, <1>2, <1>3 DEF Next

-----------------------------------------------------------------------------
(* The degrees of the databases to start with *)

\* An empty memtable alone.
LEMMA EmptyDegrees ==
    DegreeGood(With(EmptySource, <<>>), 1, {})
    <1> DEFINE S == With(EmptySource, <<>>)
               rest == <<>>
    <1>1. IsSeq(rest) /\ Len(rest) = 0
        BY EmptyIs
    <1>2. Good(S, 1, 1) /\ Blank(S) /\ S = With(EmptySource, rest)
        BY EmptyGood
    <1>3. Slotted(S)
        BY <1>2, GoodSlotted
    <1>4. Len(S) = Len(rest) + 1 /\ DOMAIN S = 1..(Len(rest) + 1) /\ S[1] = EmptySource
        BY <1>1, <1>2, WithIs
    <1>5. Slotted(rest)
        BY <1>1 DEF Slotted
    <1> HIDE DEF S, rest
    <1>6. DOMAIN S = {1}
        BY <1>1, <1>4
    <1>7. (\A i \in DOMAIN S : OverlayOk(S[i])) /\ Numeric(S)
        <2>1. \A i \in DOMAIN S : S[i] = EmptySource
            BY <1>4, <1>6
        <2>2. \A n \in NodeIds : Value(EmptySource, n) \in Int
            BY EmptyOverlay
        <2>3. QED
            BY <2>1, <2>2, EmptyOverlay DEF Numeric
    <1>8. \A n : ValidAt(S, n) = {}
        BY <1>2 DEF Blank, ValidAt, Counts, Touches, IsLive, Absent
    <1>9. ASSUME NEW n \in NodeIds PROVE Total(S, n) = Cardinality(ValidAt(S, n)) /\ Anchored(S, n)
        <2>1. Total(S, n) = Value(EmptySource, n) + Total(rest, n)
            BY <1>1, <1>2, <1>3, <1>7, TotalWith
        <2>2. Total(rest, n) = 0
            BY <1>1, <1>5, RunningIs DEF Total
        <2>3. Value(EmptySource, n) = 0
            BY EmptyOverlay
        <2>4. Cardinality(ValidAt(S, n)) = 0
            BY <1>8, FS_EmptySet
        <2>5. QED
            BY <1>8, <2>1, <2>2, <2>3, <2>4 DEF Anchored
    <1>10. DegreeGood(S, 1, {})
        BY <1>7, <1>9 DEF DegreeGood
    <1>11. QED
        BY <1>10 DEF S

\* A database whose edges are linked has no dangling edge.
LEMMA LinkedNotDangling ==
    ASSUME NEW S, Slotted(S), 1 \in DOMAIN S, Linked(S)
    PROVE  Dangling(S) = {}
    <1>1. \A e \in EdgeIds : Newest(S, "e")[e] = Opinion(S, "e", e)
        BY NewestOf
    <1>2. ASSUME NEW n \in Dangling(S) PROVE FALSE
        <2>1. PICK e \in EdgeIds : Touches(Opinion(S, "e", e), n) /\ OtherEnd(Opinion(S, "e", e), n) \notin LiveNodes(S)
            BY <1>1 DEF Dangling
        <2>2. QED
            BY <2>1 DEF Touches, OtherEnd, Linked
    <1>3. QED
        BY <1>2

\* The segment of the larger database.
LEMMA StarDegrees ==
    ASSUME NEW key \in Keys \ {FirstKey}, NEW ops, StarOpsList(ops, key),
           NEW U, U = With(AppendAndApply(EmptySource, ops, 0, EmptySource.e), <<>>)
    PROVE  DegreeGood(U, 4, {}) /\ Good(U, 4, 3)
    <1> DEFINE rest == <<>>
               S == With(EmptySource, rest)
               T == With(ApplyOps(EmptySource, ops, 0), rest)
    <1>1. IsSeq(rest)
        BY EmptyIs
    <1>2. Good(S, 1, 1) /\ Blank(S) /\ DegreeGood(S, 1, {})
        BY EmptyGood, EmptyDegrees
    <1>3. Good(T, 4, 3) /\ Linked(T)
        BY StarGood
    <1>4. Newest(S, "e") = EmptySource.e
        <2>1. S[1] = EmptySource
            BY <1>1, WithIs
        <2>2. DOMAIN EmptySource.e = EdgeIds /\ EmptySource.e = [e \in EdgeIds |-> Absent]
            BY DEF EmptySource
        <2>3. \A e \in EdgeIds : Opinion(S, "e", e) = Absent
            BY <1>2 DEF Blank
        <2> HIDE DEF S
        <2>4. Newest(S, "e") = [e \in EdgeIds |-> Opinion(S, "e", e)]
            BY <2>1, <2>2 DEF Newest
        <2>5. QED
            BY <2>2, <2>3, <2>4
    <1>5. SameSlots(T, U)
        BY <1>1, <1>3, OverlayOnly
    <1>6. Good(U, 4, 3) /\ SameGraph(T, U)
        BY <1>3, <1>5, SameSlotsGood
    <1>7. Linked(U)
        BY <1>3, <1>6 DEF Linked, LiveNodes, SameGraph
    <1>8. 1 \in DOMAIN U
        BY <1>1, WithIs
    <1>9. Dangling(U) = {}
        BY <1>6, <1>7, <1>8, GoodSlotted, LinkedNotDangling
    <1>10. OpsOk(ops)
        <2>1. 1 \in NodeIds /\ 2 \in NodeIds /\ 3 \in NodeIds /\ 1 \in EdgeIds /\ 2 \in EdgeIds
            BY GraphConstantsAssumption DEF NodeIds, EdgeIds
        <2>2. NodeOpOk(ops[1]) /\ NodeOpOk(ops[2]) /\ NodeOpOk(ops[4])
            BY <2>1 DEF StarOpsList, NodeOpOk
        <2>3. EdgeOpOk(ops[3]) /\ EdgeOpOk(ops[5])
            BY <2>1 DEF StarOpsList, EdgeOpOk
        <2>4. IsSeq(ops) /\ Len(ops) = 5
            BY DEF StarOpsList
        <2>5. \A i \in 1..5 : i = 1 \/ i = 2 \/ i = 3 \/ i = 4 \/ i = 5
            OBVIOUS
        <2>6. QED
            BY <2>2, <2>3, <2>4, <2>5 DEF OpsOk
    <1>11. U = With(AppendAndApply(EmptySource, ops, 0, Newest(S, "e")), rest)
        BY <1>4
    <1>12. \A n \in NodeIds : Kept(T, n, 4) => Kept(S, n, 1)
        BY GraphConstantsAssumption DEF Kept, NodeIds
    <1> DEFINE one == 1
               four == 4
               none == {}
    <1>13. one \in Nat /\ four \in Nat /\ none \subseteq none /\ Dangling(U) \subseteq none
        BY <1>9
    <1>14. Good(S, one, one) /\ DegreeGood(S, one, none) /\ \A n \in NodeIds : Kept(T, n, four) => Kept(S, n, one)
        BY <1>2, <1>12
    <1>15. Good(T, four, 3)
        BY <1>3
    <1> HIDE DEF one, four, none, rest
    <1>16. DegreeGood(U, four, none)
        BY <1>1, <1>10, <1>11, <1>13, <1>14, <1>15, CommitDegrees
    <1>17. QED
        BY <1>6, <1>16 DEF four, none

\* Every database to start with.
LEMMA InitDegreesOk ==
    ASSUME Init
    PROVE  DegreeInv
    <1>1. IsSeq(<<>>) /\ Len(<<>>) = 0
        BY EmptyIs
    <1>2. CASE StartWith(<<>>, 1, 1, 0)
        <2>1. active = EmptySource /\ frozen = <<>> /\ segments = <<>> /\ nextNode = 1 /\ job = {} /\ dangled = {}
            BY <1>2 DEF StartWith
        <2>2. Chained(EmptySource, <<>>, <<>>)
            BY <1>1, SourcesAre
        <2>3. <<>> \o <<>> = <<>>
            OBVIOUS
        <2>4. Sources = With(EmptySource, <<>>)
            BY <2>1, <2>2, <2>3 DEF Sources, Chained
        <2>5. DegreeGood(Sources, nextNode, dangled)
            BY <2>1, <2>4, EmptyDegrees
        <2>6. QED
            BY <2>1, <2>5 DEF DegreeInv
    <1>3. ASSUME NEW key \in Keys \ {FirstKey}, StartWith(StarOps(key), 4, 3, 1) PROVE DegreeInv
        <2> DEFINE ops == StarOps(key)
                   x == AppendAndApply(EmptySource, ops, 0, EmptySource.e)
        <2>1. StarOpsList(ops, key)
            BY StarOpsAre
        <2> HIDE DEF ops
        <2>2. ops # <<>>
            BY <1>1, <2>1 DEF StarOpsList
        <2>3. active = EmptySource /\ frozen = <<>> /\ segments = <<x>> /\ nextNode = 4 /\ job = {} /\ dangled = {}
            BY <1>3, <2>2 DEF StartWith, ops
        <2>4. DegreeGood(With(x, <<>>), 4, {}) /\ Good(With(x, <<>>), 4, 3)
            BY <2>1, StarDegrees
        <2> HIDE DEF x
        <2>5. IsSeq(<<x>>)
            BY TupleIs
        <2>6. <<x>> \o <<>> = <<x>> /\ <<>> \o <<x>> = <<x>>
            <3>1. <<x>> \in Seq({x})
                OBVIOUS
            <3>2. QED
                BY <3>1, ConcatEmptySeq
        <2>7. DegreeGood(<<x>>, 4, {}) /\ Good(<<x>>, 4, 3)
            BY <2>4, <2>6 DEF With
        <2>8. Sources = With(EmptySource, <<x>>)
            <3>1. Chained(EmptySource, <<>>, <<x>>)
                BY <1>1, <2>5, SourcesAre
            <3>2. QED
                BY <2>3, <2>6, <3>1 DEF Sources, Chained
        <2> DEFINE four == 4
                   U == <<x>>
        <2>9. four \in Nat /\ four <= MaxNode + 1 /\ IsSeq(U) /\ DegreeGood(U, four, {}) /\ Good(U, four, 3) /\ Sources = With(EmptySource, U)
            BY <2>5, <2>7, <2>8, GraphConstantsAssumption
        <2> HIDE DEF four, U
        <2>10. DegreeGood(Sources, four, {})
            BY <2>9, FreezeDegrees
        <2>11. QED
            BY <2>3, <2>10 DEF DegreeInv, four
    <1>4. QED
        BY <1>2, <1>3 DEF Init

-----------------------------------------------------------------------------
(* What the invariant says of degrees *)

\* The edges that neighbors_raw returns for a node without dangling edges.
LEMMA IncidentCounted ==
    ASSUME NEW srcs, NEW nodes \in Nat, NEW edges, Good(srcs, nodes, edges), nodes <= MaxNode + 1, 1 \in DOMAIN srcs,
           NEW memtables \in Nat, NEW n \in NodeIds, IsLive(Opinion(srcs, "n", n)), Anchored(srcs, n)
    PROVE  NeighborsRaw(srcs, memtables, n) = ValidAt(srcs, n)
    <1>1. MaxNode \in Nat /\ DOMAIN srcs \subseteq Nat
        BY GraphConstantsAssumption DEF Good
    <1>2. ASSUME NEW e \in ValidAt(srcs, n) PROVE e \in NeighborsRaw(srcs, memtables, n)
        <2>1. e \in EdgeIds /\ ToLive(srcs, e, n) /\ Opinion(srcs, "e", e).valid
            BY DEF ValidAt, Counts, ToLive, Anchored
        <2>2. e \in NeighborsRaw(srcs, memtables, n) <=> Opinion(srcs, "e", e).valid
            BY <1>1, <2>1, NeighborsRawExact
        <2>3. QED
            BY <2>1, <2>2
    <1>3. ASSUME NEW e \in NeighborsRaw(srcs, memtables, n) PROVE e \in ValidAt(srcs, n)
        <2> DEFINE lists == [i \in DOMAIN srcs |-> SourceNeighbors(srcs[i], i <= memtables, n)]
                   at == {j \in DOMAIN lists : e \in lists[j]}
                   i == Min(at)
                   slot == Opinion(srcs, "e", e)
        <2>1. /\ e \in UNION {lists[j] : j \in DOMAIN lists}
              /\ i = 1 \/ OtherEnd(srcs[i].e[e], n) \notin Tombstones(srcs, "n")
              /\ srcs[i].e[e].valid
            BY DEF NeighborsRaw
        <2>2. e \in EdgeIds /\ IsLive(slot)
            BY NeighborsLive
        <2>3. at # {} /\ at \subseteq Nat /\ DOMAIN lists = DOMAIN srcs
            BY <1>1, <2>1
        <2>4. i \in at /\ \A j \in at : i <= j
            <3> HIDE DEF at
            <3>1. QED
                BY <2>3, MinIs
        <2>5. i \in DOMAIN srcs /\ Touches(srcs[i].e[e], n)
            BY <2>4 DEF SourceNeighbors
        <2>6. ASSUME NEW j \in DOMAIN srcs, j < i PROVE e \notin SourceNeighbors(srcs[j], j <= memtables, n)
            <3>1. j \notin at
                <4> HIDE DEF i, at
                <4>1. QED
                    BY <1>1, <2>3, <2>4, <2>6
            <3>2. QED
                BY <3>1
        <2> HIDE DEF i, at, lists
        <2>7. PICK d \in DOMAIN srcs : Decides(srcs, "e", e, d) /\ slot = srcs[d].e[e]
            BY <1>1, <2>2, LiveDecided
        <2>8. IsLive(srcs[i].e[e]) /\ srcs[i].e[e] # Absent
            BY <2>5 DEF Touches, IsLive, Absent
        <2>9. d <= i
            BY <1>1, <2>5, <2>7, <2>8 DEF Decides
        <2>10. slot.from = srcs[i].e[e].from /\ slot.to = srcs[i].e[e].to
            BY <2>2, <2>5, <2>7, <2>8 DEF Good, EndsFixed
        <2>11. Touches(slot, n) /\ OtherEnd(slot, n) = OtherEnd(srcs[i].e[e], n)
            BY <2>2, <2>5, <2>10 DEF Touches, OtherEnd
        <2>12. CASE d = i
            BY <2>1, <2>2, <2>7, <2>11, <2>12 DEF ValidAt, Counts
        <2>13. CASE d < i
            <3>1. i # 1 /\ d >= 1
                BY <1>1, <2>13 DEF Good
            <3>2. ~IsDead(srcs[d].n[n])
                BY NoTombstone
            <3>3. IsDead(srcs[d].n[OtherEnd(slot, n)])
                BY <2>2, <2>6, <2>7, <2>11, <2>13, <3>2 DEF SourceNeighbors
            <3>4. OtherEnd(slot, n) \in NodeIds
                <4>1. slot.from \in NodeIds /\ slot.to \in NodeIds
                    BY <1>1, <2>2, <2>7, EndsAreNodes
                <4>2. QED
                    BY <4>1 DEF OtherEnd
            <3>5. OtherEnd(slot, n) \in Tombstones(srcs, "n")
                BY <3>3, <3>4, TombstonesAre
            <3>6. QED
                BY <2>1, <2>11, <3>1, <3>5
        <2>14. QED
            BY <1>1, <2>5, <2>9, <2>12, <2>13
    <1>4. QED
        BY <1>2, <1>3

\* degree_entry_fast_path answers with the sum of the overlays.
LEMMA FastDegreeIs ==
    ASSUME NEW S, Slotted(S), NEW pruning, NEW n \in NodeIds, NEW k \in Nat, Complete(S) => Total(S, n) = k
    PROVE  FastDegree(S, pruning, n) \subseteq {k}
    <1> DEFINE sum == SumOverlays(Overlays(S))[n]
    <1>1. CASE pruning \/ ~Complete(S)
        BY <1>1 DEF FastDegree, Complete
    <1>2. CASE ~pruning /\ Complete(S)
        <2>1. FastDegree(S, pruning, n) = IF sum[2] > 0 THEN {} ELSE {Max({sum[1], 0})}
            BY <1>2 DEF FastDegree, Complete, Overlays, Overlay
        <2>2. sum[1] = Total(S, n)
            BY OverlaysAre DEF SumOverlays, Total, Running
        <2> HIDE DEF sum
        <2>3. sum[1] = k
            BY <1>2, <2>2
        <2>4. Max({k, 0}) = k
            <3>1. \A z \in {k, 0} : (\A y \in {k, 0} : z >= y) <=> z = k
                OBVIOUS
            <3>2. QED
                BY <3>1 DEF Max
        <2>5. QED
            BY <2>1, <2>3, <2>4
    <1>3. QED
        BY <1>1, <1>2

\* What the invariant says of the fast path.
LEMMA DegreesFollow ==
    ASSUME GraphInv, DegreeInv
    PROVE  DegreesExact
    <1>1. /\ StoreOk /\ Good(Sources, nextNode, nextEdge) /\ nextNode \in Nat /\ nextNode <= MaxNode + 1
          /\ DegreeGood(Sources, nextNode, dangled)
        BY DEF GraphInv, StoreOk, DegreeInv
    <1>2. 1 \in DOMAIN Sources /\ 1 + Len(frozen) \in Nat /\ Slotted(Sources)
        BY <1>1, SourcesOpen, GoodSlotted
    <1>3. ASSUME NEW n \in LiveNodes(Sources) \ dangled
          PROVE  FastDegree(Sources, policy, n) \subseteq {Cardinality(IncidentNow(n))}
        <2>1. n \in NodeIds /\ IsLive(Opinion(Sources, "n", n)) /\ n \notin dangled
            BY DEF LiveNodes
        <2>2. CASE Complete(Sources)
            <3>1. Total(Sources, n) = Cardinality(ValidAt(Sources, n)) /\ Anchored(Sources, n)
                BY <1>1, <2>1, <2>2 DEF DegreeGood, Kept
            <3> DEFINE m == 1 + Len(frozen)
            <3>2. IncidentNow(n) = NeighborsRaw(Sources, m, n) /\ m \in Nat
                BY <1>2 DEF IncidentNow
            <3> HIDE DEF m
            <3>3. NeighborsRaw(Sources, m, n) = ValidAt(Sources, n)
                BY <1>1, <1>2, <2>1, <3>1, <3>2, IncidentCounted
            <3>4. Cardinality(ValidAt(Sources, n)) \in Nat
                BY ValidFinite
            <3>5. FastDegree(Sources, policy, n) \subseteq {Cardinality(ValidAt(Sources, n))}
                BY <1>2, <2>1, <3>1, <3>4, FastDegreeIs
            <3>6. QED
                BY <3>2, <3>3, <3>5
        <2>3. CASE ~Complete(Sources)
            <3>1. FastDegree(Sources, policy, n) = {}
                BY <2>3 DEF FastDegree, Complete
            <3>2. QED
                BY <3>1
        <2>4. QED
            BY <2>2, <2>3
    <1>4. QED
        BY <1>3 DEF DegreesExact

-----------------------------------------------------------------------------
(* The theorems *)

\* The sources of every reachable store are Good, and a running compaction's output is made of
\* the newest versions of its inputs.
THEOREM GraphInductive == Spec => []GraphInv
    <1>1. Init => GraphInv
        BY InitOk
    <1>2. GraphInv /\ [Next]_vars => GraphInv'
        BY NextOk DEF StepOk
    <1>3. QED
        BY <1>1, <1>2, PTL DEF Spec

\* The newest versions, as functions.
LEMMA NewestAre ==
    ASSUME StoreOk
    PROVE  /\ \A n \in NodeIds : Newest(Sources, "n")[n] = Opinion(Sources, "n", n)
           /\ \A e \in EdgeIds : Newest(Sources, "e")[e] = Opinion(Sources, "e", e)
    <1>1. 1 \in DOMAIN Sources
        BY SourcesOpen
    <1>2. DOMAIN Sources[1].n = NodeIds /\ DOMAIN Sources[1].e = EdgeIds
        BY <1>1 DEF StoreOk, Good, SourceOk
    <1>3. QED
        BY <1>2 DEF Newest

\* What the invariant says of lookups.
LEMMA LookupsFollow ==
    ASSUME GraphInv
    PROVE  LookupsExact
    <1>1. StoreOk /\ Good(Sources, nextNode, nextEdge)
        BY DEF GraphInv, StoreOk
    <1> DEFINE nodes == Newest(Sources, "n")
               edges == Newest(Sources, "e")
    <1>2. (\A n \in NodeIds : nodes[n] = Opinion(Sources, "n", n)) /\ (\A e \in EdgeIds : edges[e] = Opinion(Sources, "e", e))
        BY <1>1, NewestAre
    <1> HIDE DEF nodes, edges
    <1>3. ASSUME NEW l \in Labels, NEW k \in Keys
          PROVE  Owner(l, k) = {n \in NodeIds : IsLive(nodes[n]) /\ l \in nodes[n].labels /\ nodes[n].key = k}
        <2>1. Owner(l, k) = {n \in NodeIds : Holds(Opinion(Sources, "n", n), l, k)}
            BY <1>1, KeyLookupExact, GraphConstantsAssumption DEF Owner
        <2>2. QED
            BY <1>2, <2>1 DEF Holds
    <1>4. ASSUME unique, NEW f \in NodeIds, NEW t \in NodeIds
          PROVE  TripleLookup(Sources, f, t) = {e \in EdgeIds : IsLive(edges[e]) /\ edges[e].from = f /\ edges[e].to = t}
        <2>1. TripleLookup(Sources, f, t) = {e \in EdgeIds : Joins(Opinion(Sources, "e", e), f, t)}
            BY <1>1, <1>4, TripleLookupExact, GraphConstantsAssumption
        <2>2. QED
            BY <1>2, <2>1 DEF Joins
    <1>5. QED
        BY <1>3, <1>4 DEF LookupsExact, nodes, edges

\* find_nodes_by_label_keys and find_edge_by_triple answer exactly: at every moment a lookup by
\* (label, key) returns the live nodes that carry both and nothing else, and with
\* edge_uniqueness a lookup by triple the live edges of the triple.
THEOREM LookupsAreExact == Spec => []LookupsExact
    BY GraphInductive, LookupsFollow, PTL

\* What the invariant says of adjacency.
LEMMA NeighborsFollow ==
    ASSUME GraphInv
    PROVE  NeighborsExact
    <1>1. /\ StoreOk /\ Good(Sources, nextNode, nextEdge) /\ nextNode \in Nat /\ nextNode <= MaxNode + 1
        BY DEF GraphInv, StoreOk
    <1>2. 1 \in DOMAIN Sources /\ 1 + Len(frozen) \in Nat
        BY <1>1, SourcesOpen
    <1> DEFINE live == LiveNodes(Sources)
               edges == Newest(Sources, "e")
               toLive(e, n) == Touches(edges[e], n) /\ OtherEnd(edges[e], n) \in live
    <1>3. \A e \in EdgeIds : edges[e] = Opinion(Sources, "e", e)
        BY <1>1, NewestAre
    <1>4. \A n : n \in live <=> n \in NodeIds /\ IsLive(Opinion(Sources, "n", n))
        BY DEF LiveNodes
    <1> HIDE DEF live, edges
    <1>5. ASSUME NEW e \in EdgeIds, NEW n \in live PROVE toLive(e, n) <=> ToLive(Sources, e, n)
        <2>1. ASSUME Touches(Opinion(Sources, "e", e), n) PROVE OtherEnd(Opinion(Sources, "e", e), n) \in NodeIds
            <3>1. IsLive(Opinion(Sources, "e", e))
                BY <2>1 DEF Touches
            <3>2. Opinion(Sources, "e", e).from \in 1..(nextNode - 1) /\ Opinion(Sources, "e", e).to \in 1..(nextNode - 1)
                BY <1>1, <3>1, LiveEnds
            <3>3. QED
                BY <1>1, <3>2, GraphConstantsAssumption DEF OtherEnd, NodeIds
        <2>2. QED
            BY <1>3, <1>4, <2>1 DEF ToLive
    <1>6. ASSUME NEW n \in live, NEW e \in IncidentNow(n) PROVE e \in EdgeIds /\ IsLive(edges[e])
        <2>1. e \in EdgeIds /\ IsLive(Opinion(Sources, "e", e))
            BY <1>1, <1>2, NeighborsLive DEF IncidentNow
        <2>2. QED
            BY <1>3, <2>1
    <1>7. ASSUME NEW n \in live, NEW e \in EdgeIds, toLive(e, n) PROVE e \in IncidentNow(n) <=> edges[e].valid
        <2>1. ToLive(Sources, e, n) /\ n \in NodeIds /\ IsLive(Opinion(Sources, "n", n))
            BY <1>4, <1>5, <1>7
        <2>2. e \in NeighborsRaw(Sources, 1 + Len(frozen), n) <=> Opinion(Sources, "e", e).valid
            BY <1>1, <1>2, <2>1, NeighborsRawExact, GraphConstantsAssumption
        <2>3. QED
            BY <1>3, <2>2 DEF IncidentNow
    <1>8. ASSUME NEW n \in live
          PROVE  {e \in IncidentNow(n) : ~IsLive(edges[e]) \/ toLive(e, n)} = {e \in EdgeIds : toLive(e, n) /\ edges[e].valid}
        <2> HIDE DEF toLive
        <2>1. QED
            BY <1>6, <1>7
    <1>9. QED
        BY <1>8 DEF NeighborsExact, live, edges

\* neighbors_raw returns, between live nodes, exactly the valid live edges, whatever older
\* versions and tombstones the memtables and segments still hold.
THEOREM NeighborsAreExact == Spec => []NeighborsExact
    BY GraphInductive, NeighborsFollow, PTL

\* delete_node, graph_patch and prune leave no valid edge between a node they delete and a live
\* node, whichever sources hold the edge; no other step deletes a node.
THEOREM DeletionsReachLive == Spec => CascadeReachesLive
    <1> DEFINE A == \A n \in LiveNodes(Sources) :
                        IsDead(Opinion(Sources', "n", n)) =>
                            ~\E e \in LiveEdges(Sources') :
                                LET s == Opinion(Sources', "e", e)
                                IN  s.valid /\ Touches(s, n) /\ OtherEnd(s, n) \in LiveNodes(Sources')
    <1>1. GraphInv /\ [Next]_vars => A
        <2> SUFFICES ASSUME GraphInv, [Next]_vars, NEW n \in LiveNodes(Sources), IsDead(Opinion(Sources', "n", n)),
                            NEW e \in LiveEdges(Sources'), Opinion(Sources', "e", e).valid,
                            Touches(Opinion(Sources', "e", e), n),
                            OtherEnd(Opinion(Sources', "e", e), n) \in LiveNodes(Sources')
                     PROVE  FALSE
            OBVIOUS
        <2>1. Cascades(Sources, Sources')
            BY NextOk DEF StepOk
        <2>2. n \in NodeIds /\ IsLive(Opinion(Sources, "n", n)) /\ e \in EdgeIds
            BY DEF LiveNodes, LiveEdges
        <2>3. ToLive(Sources', e, n)
            BY DEF ToLive, LiveNodes
        <2>4. QED
            BY <2>1, <2>2, <2>3 DEF Cascades
    <1>2. GraphInv /\ [Next]_vars => [A]_vars
        BY <1>1
    <1>3. QED
        BY <1>2, GraphInductive, PTL DEF Spec, CascadeReachesLive

\* The degree overlays and sidecars of every reachable store add up to the valid edges of each
\* node without dangling edges, as long as every segment has a sidecar, and a running
\* compaction's output adds up to its inputs and keeps the edges that they count.
THEOREM DegreesInductive == Spec => []DegreeInv
    <1>1. Init => DegreeInv
        BY InitDegreesOk
    <1>2. GraphInv /\ DegreeInv /\ [Next]_vars => DegreeInv'
        BY NextDegreesOk
    <1>3. QED
        BY <1>1, <1>2, GraphInductive, PTL DEF Spec

\* degree_entry_fast_path, which never looks at an edge, answers with the number of edges that
\* neighbors_raw returns, for a live node that never had an edge to a node that was not live:
\* after every update, deletion, cascade, batch, patch, freeze, flush and compaction.
THEOREM DegreesAreExact == Spec => []DegreesExact
    BY GraphInductive, DegreesInductive, DegreesFollow, PTL
=============================================================================
