----------------------------- MODULE ReadProofs -----------------------------
(***************************************************************************)
(* What readers and recovery see.  First, what a lookup through a          *)
(* memtable, a list of epochs and a list of segments returns.  A snapshot  *)
(* is sound for a history when its sources are layered (each holds only    *)
(* newer versions than those behind it), hold nothing that was never       *)
(* committed, and cover the history up to its sequence number.  Find then  *)
(* returns the committed state, and each thing the engine does to its      *)
(* sources - commit, freeze, flush, compaction - turns a sound snapshot    *)
(* into a sound one.                                                       *)
(*                                                                         *)
(* While no background compaction runs, no manifest write fails after its  *)
(* rename and clients delete only ids the engine returned, the disk, the   *)
(* core, the published view and every pinned view are sound snapshots of   *)
(* the history, at every instant.  So a crash loses nothing that was       *)
(* fsynced, and reads of the published and of pinned snapshots return the  *)
(* committed state.  The last part shows that the engine then implements   *)
(* DurableStore, step by step.                                             *)
(***************************************************************************)
EXTENDS StorageEngineProofs, WellFoundedInduction, EngineRefinement

\* Each version of A was committed after each version of B.
Newer(A, B) == \A v \in A : \A w \in B : w.seq < v.seq

\* The list is ordered by id, the largest first.
Descending(l) == l.before = {p \in l.ids \X l.ids : p[1] > p[2]}

\* Memtable M, epochs l with the memtables F, segments t with the data S: newest first.
Layered(M, F, l, S, t) ==
    /\ \A g \in l.ids : Newer(M, F[g])
    /\ \A x \in t.ids : Newer(M, S[x])
    /\ \A g, h \in l.ids : h < g => Newer(F[g], F[h])
    /\ \A g \in l.ids : \A x \in t.ids : Newer(F[g], S[x])
    /\ \A x, y \in t.ids : y < x => Newer(S[x], S[y])

\* All the versions the sources hold.
Held(M, F, l, S, t) == M \cup (UNION {F[g] : g \in l.ids}) \cup (UNION {S[x] : x \in t.ids})

\* Of each record of history V up to sequence number s, H holds the newest version or
\* nothing at all; nothing only if the record was deleted.
Covers(H, V, s) ==
    \A v \in V : v.seq <= s =>
        \/ \E w \in H : w.id = v.id /\ v.seq <= w.seq /\ w.seq <= s
        \/ /\ \E d \in V : d.id = v.id /\ d.del /\ d.seq <= s
           /\ \A w \in H : w.id = v.id => s < w.seq

\* A segment holds one version per record, and none newer than the snapshot.
SegmentsClean(S, t, s) ==
    \A x \in t.ids : /\ \A v, w \in S[x] : v.id = w.id => v = w
                     /\ \A v \in S[x] : v.seq <= s

\* The sources are sound for reading history V at sequence number s.
Snapshot(M, F, l, S, t, s, V) ==
    /\ Descending(l) /\ Descending(t)
    /\ Layered(M, F, l, S, t)
    /\ SegmentsClean(S, t, s)
    /\ Held(M, F, l, S, t) \subseteq V
    /\ Covers(Held(M, F, l, S, t), V, s)

\* A history: versions are identified by record and sequence number, and a deleted record
\* is never written again.
History(V) ==
    /\ V \subseteq Versions
    /\ \A v, w \in V : v.id = w.id /\ v.seq = w.seq => v = w
    /\ \A v, w \in V : v.id = w.id /\ v.del /\ ~w.del => w.seq < v.seq

\* A set of numbers that is not empty and has an upper bound has a largest member.
LEMMA LargestExists ==
    ASSUME NEW n \in Nat, NEW S \in SUBSET (0..n), S # {}
    PROVE  \E m \in S : \A k \in S : k <= m
    <1> DEFINE T == {k \in Nat : k <= n /\ n - k \in S}
    <1>1. T \subseteq Nat /\ T # {}
        <2>1. PICK k \in S : TRUE
            OBVIOUS
        <2>2. n - k \in Nat /\ n - k <= n /\ n - (n - k) = k
            BY <2>1
        <2>3. QED
            BY <2>1, <2>2
    <1>2. \E x \in T : \A y \in T : ~(<<y, x>> \in OpToRel(<, Nat))
        <2> HIDE DEF T
        <2>1. QED
            BY <1>1, NatLessThanWellFounded, WFMin
    <1>3. PICK x \in T : \A y \in T : ~(<<y, x>> \in OpToRel(<, Nat))
        BY <1>2
    <1>4. \A y \in T : ~(y < x)
        <2>1. \A a, b \in Nat : a < b => <<a, b>> \in OpToRel(<, Nat)
            BY DEF OpToRel
        <2> HIDE DEF T
        <2>2. QED
            BY <1>1, <1>3, <2>1
    <1>5. n - x \in S
        BY <1>3
    <1>6. \A k \in S : k <= n - x
        <2>1. TAKE k \in S
        <2>2. n - k \in T
            BY <2>1
        <2>3. QED
            BY <1>4, <2>1, <2>2
    <1>7. QED
        BY <1>5, <1>6

\* Of the versions of a record up to s that a set holds, one is the newest.
LEMMA LatestExists ==
    ASSUME NEW H \in SUBSET Versions, NEW i, NEW s, NEW v \in H, v.id = i, v.seq <= s
    PROVE  Latest(H, i, s) # {}
    <1> DEFINE S == {w.seq : w \in {u \in H : u.id = i /\ u.seq <= s}}
    <1>1. S \subseteq 0..MaxSeq /\ S # {} /\ MaxSeq \in Nat
        BY ConstantsAssumption DEF Versions, Seqs
    <1>2. PICK m \in S : \A k \in S : k <= m
        <2> HIDE DEF S
        <2>1. QED
            BY <1>1, LargestExists
    <1>3. PICK w \in H : w.id = i /\ w.seq <= s /\ w.seq = m
        BY <1>2
    <1>4. \A u \in H : u.id = i /\ u.seq <= s => u.seq <= m
        BY <1>2
    <1>5. QED
        BY <1>3, <1>4 DEF Latest

\* What a memtable shows at s is its newest version up to s.
LEMMA AtIsLatest ==
    ASSUME NEW M, NEW i, NEW s
    PROVE  At(M, i, s) = Latest(M, i, s)
    BY DEF At, Winners, Latest

\* The newest versions of a set, whatever the record, cover it.
LEMMA WinnersCover ==
    ASSUME NEW H \in SUBSET Versions
    PROVE  /\ Winners(H) \subseteq H
           /\ \A v \in H : \E w \in Winners(H) : w.id = v.id /\ v.seq <= w.seq
    <1>1. Winners(H) \subseteq H
        BY DEF Winners
    <1>2. ASSUME NEW v \in H PROVE \E w \in Winners(H) : w.id = v.id /\ v.seq <= w.seq
        <2>1. \A w \in H : w.seq <= MaxSeq
            BY ConstantsAssumption DEF Versions, Seqs
        <2>2. PICK w \in Latest(H, v.id, MaxSeq) : TRUE
            BY <1>2, <2>1, LatestExists
        <2>3. w \in H /\ w.id = v.id /\ \A u \in H : u.id = v.id => u.seq <= w.seq
            BY <2>1, <2>2 DEF Latest
        <2>4. w \in Winners(H)
            BY <2>3 DEF Winners
        <2>5. QED
            BY <1>2, <2>3, <2>4
    <1>3. QED
        BY <1>1, <1>2

\* In a descending list the first member of S is the largest one.
LEMMA FirstIsLargest ==
    ASSUME NEW n \in Nat, NEW l, l.ids \in SUBSET (0..n), Descending(l), NEW S, l.ids \cap S # {}
    PROVE  \E m \in l.ids \cap S : /\ FirstOf(l, S) = {m}
                                   /\ \A k \in l.ids \cap S : k <= m
    <1>1. PICK m \in l.ids \cap S : \A k \in l.ids \cap S : k <= m
        <2>1. l.ids \cap S \in SUBSET (0..n)
            OBVIOUS
        <2>2. QED
            BY <2>1, LargestExists
    <1>2. \A k \in l.ids : k \in Nat
        OBVIOUS
    <1>3. \A a, b \in l.ids : <<a, b>> \in l.before <=> a > b
        BY DEF Descending
    <1>4. \A a, b \in l.ids \cap S : <<a, b>> \in l.before <=> a > b
        BY <1>3
    <1>5. \A a, b \in l.ids \cap S : a \in Nat /\ b \in Nat
        BY <1>2
    <1>6. m \in FirstOf(l, S)
        BY <1>1, <1>4, <1>5 DEF FirstOf
    <1>7. ASSUME NEW k \in FirstOf(l, S) PROVE k = m
        <2>1. k \in l.ids \cap S /\ <<m, k>> \notin l.before
            BY <1>1, <1>7 DEF FirstOf
        <2>2. ~(m > k) /\ k <= m
            BY <1>1, <1>4, <2>1
        <2>3. QED
            BY <1>1, <1>5, <2>1, <2>2
    <1>8. QED
        BY <1>1, <1>6, <1>7

\* The newest version of a record in H, when one part of H is newer than all others that
\* hold the record, is the newest of that part.
LEMMA LatestOfPart ==
    ASSUME NEW H \in SUBSET Versions, NEW A \in SUBSET H, NEW i, NEW s, Latest(A, i, s) # {},
           \A v \in A : \A w \in H \ A : v.id = i /\ w.id = i /\ v.seq <= s /\ w.seq <= s => w.seq < v.seq
    PROVE  Latest(H, i, s) = Latest(A, i, s)
    <1>1. \A v \in H : v.seq \in Nat
        BY DEF Versions, Seqs
    <1>2. PICK a \in Latest(A, i, s) : TRUE
        OBVIOUS
    <1>3. a \in A /\ a.id = i /\ a.seq <= s
        BY <1>2 DEF Latest
    <1>4. ASSUME NEW v \in Latest(A, i, s) PROVE v \in Latest(H, i, s)
        <2>1. v \in A /\ v.id = i /\ v.seq <= s /\ \A w \in A : w.id = i /\ w.seq <= s => w.seq <= v.seq
            BY <1>4 DEF Latest
        <2>2. \A w \in H : w.id = i /\ w.seq <= s => w.seq <= v.seq
            BY <1>1, <2>1
        <2>3. QED
            BY <2>1, <2>2 DEF Latest
    <1>5. ASSUME NEW v \in Latest(H, i, s) PROVE v \in Latest(A, i, s)
        <2>1. v \in H /\ v.id = i /\ v.seq <= s /\ \A w \in H : w.id = i /\ w.seq <= s => w.seq <= v.seq
            BY <1>5 DEF Latest
        <2>2. v \in A
            BY <1>1, <1>3, <2>1
        <2>3. QED
            BY <2>1, <2>2 DEF Latest
    <1>6. QED
        BY <1>4, <1>5

\* What the sources hold, member by member.
LEMMA HeldMembers ==
    ASSUME NEW M, NEW F, NEW l, NEW S, NEW t
    PROVE  \A v : v \in Held(M, F, l, S, t) <=>
                     \/ v \in M
                     \/ \E g \in l.ids : v \in F[g]
                     \/ \E x \in t.ids : v \in S[x]
    <1> DEFINE A == UNION {F[g] : g \in l.ids}
               B == UNION {S[x] : x \in t.ids}
    <1>1. \A v : v \in A <=> \E g \in l.ids : v \in F[g]
        OBVIOUS
    <1>2. \A v : v \in B <=> \E x \in t.ids : v \in S[x]
        OBVIOUS
    <1>3. Held(M, F, l, S, t) = M \cup A \cup B
        BY DEF Held
    <1> HIDE DEF A, B
    <1>4. QED
        BY <1>1, <1>2, <1>3

\* SourceList::find_node over layered sources: the newest version any of them holds.
LEMMA FindIsLatest ==
    ASSUME NEW M, NEW F, NEW l, NEW t, NEW s, NEW i,
           l.ids \subseteq Gens, t.ids \subseteq SegIds,
           Descending(l), Descending(t), Layered(M, F, l, segData, t), SegmentsClean(segData, t, s),
           Held(M, F, l, segData, t) \subseteq Versions
    PROVE  Find(M, F, l, t, i, s) = Latest(Held(M, F, l, segData, t), i, s)
    <1> DEFINE H == Held(M, F, l, segData, t)
               E == {h \in l.ids : At(F[h], i, s) # {}}
               Y == {y \in t.ids : Has(segData[y], i)}
    <1>1. \A v : v \in H <=> \/ v \in M
                             \/ \E g \in l.ids : v \in F[g]
                             \/ \E x \in t.ids : v \in segData[x]
        BY HeldMembers
    <1>2. H \in SUBSET Versions
        OBVIOUS
    <1>3. \A v \in H : v.seq \in Nat
        BY <1>2 DEF Versions, Seqs
    <1> HIDE DEF H
    <1>4. CASE At(M, i, s) # {}
        <2>1. M \subseteq H
            BY <1>1
        <2>2. \A v \in M : \A w \in H \ M : w.seq < v.seq
            BY <1>1 DEF Layered, Newer
        <2>3. Latest(H, i, s) = Latest(M, i, s)
            BY <1>2, <1>4, <2>1, <2>2, AtIsLatest, LatestOfPart
        <2>4. QED
            BY <1>4, <2>3, AtIsLatest DEF Find, H
    <1>5. ASSUME At(M, i, s) = {} PROVE \A v \in M : ~(v.id = i /\ v.seq <= s)
        <2>1. M \in SUBSET Versions
            BY <1>1, <1>2
        <2>2. QED
            BY <1>5, <2>1, LatestExists, AtIsLatest
    <1>6. \A g \in l.ids : F[g] \in SUBSET Versions
        BY <1>1, <1>2
    <1>7. \A g \in l.ids \ E : \A v \in F[g] : ~(v.id = i /\ v.seq <= s)
        <2>1. TAKE g \in l.ids \ E
        <2>2. Latest(F[g], i, s) = {}
            BY AtIsLatest
        <2>3. QED
            BY <1>6, <2>2, LatestExists
    <1>8. MaxGen \in Nat /\ MaxSeg \in Nat /\ l.ids \in SUBSET (0..MaxGen) /\ t.ids \in SUBSET (0..MaxSeg)
        BY ConstantsAssumption DEF Gens, SegIds
    <1>9. ASSUME At(M, i, s) = {}, E # {}
          PROVE  Find(M, F, l, t, i, s) = Latest(H, i, s)
        <2>1. l.ids \cap E = E
            OBVIOUS
        <2>2. PICK m \in E : FirstOf(l, E) = {m} /\ \A k \in E : k <= m
            <3> HIDE DEF E
            <3>1. QED
                BY <1>8, <1>9, <2>1, FirstIsLargest
        <2>3. InFrozen(F, l, i, s) = At(F[m], i, s)
            BY <2>2 DEF InFrozen
        <2>4. m \in l.ids /\ At(F[m], i, s) # {} /\ F[m] \subseteq H
            BY <1>1, <2>2
        <2>5. \A v \in F[m] : \A w \in H \ F[m] :
                  v.id = i /\ w.id = i /\ v.seq <= s /\ w.seq <= s => w.seq < v.seq
            <3>1. TAKE v \in F[m]
            <3>2. TAKE w \in H \ F[m]
            <3>3. HAVE v.id = i /\ w.id = i /\ v.seq <= s /\ w.seq <= s
            <3>4. w \notin M
                BY <1>5, <1>9, <3>3
            <3>5. CASE \E g \in l.ids : w \in F[g]
                <4>1. PICK g \in l.ids : w \in F[g]
                    BY <3>5
                <4>2. g \in E /\ g # m
                    BY <1>7, <3>2, <3>3, <4>1
                <4>3. g < m
                    BY <1>8, <2>2, <2>4, <4>1, <4>2
                <4>4. QED
                    BY <2>4, <4>1, <4>3 DEF Layered, Newer
            <3>6. CASE \E x \in t.ids : w \in segData[x]
                BY <2>4, <3>6 DEF Layered, Newer
            <3>7. QED
                BY <1>1, <3>4, <3>5, <3>6
        <2>6. Latest(H, i, s) = Latest(F[m], i, s)
            <3>1. Latest(F[m], i, s) # {}
                BY <2>4, AtIsLatest
            <3>2. QED
                BY <1>2, <2>4, <2>5, <3>1, LatestOfPart
        <2>7. QED
            BY <1>9, <2>3, <2>4, <2>6, AtIsLatest DEF Find
    <1>10. ASSUME At(M, i, s) = {}, E = {}
           PROVE  Find(M, F, l, t, i, s) = Latest(H, i, s)
        <2>1. InFrozen(F, l, i, s) = {}
            BY <1>10 DEF InFrozen, FirstOf
        <2>2. Find(M, F, l, t, i, s) = InSegments(t, i)
            BY <1>10, <2>1 DEF Find
        <2>3. \A v \in H : v.id = i /\ v.seq <= s => \E x \in t.ids : v \in segData[x]
            BY <1>1, <1>5, <1>7, <1>10
        <2>4. CASE Y = {}
            <3>1. InSegments(t, i) = {}
                BY <2>4 DEF InSegments, FirstOf
            <3>2. Latest(H, i, s) = {}
                BY <2>3, <2>4 DEF Latest, Has
            <3>3. QED
                BY <2>2, <3>1, <3>2
        <2>5. CASE Y # {}
            <3>1. t.ids \cap Y = Y
                OBVIOUS
            <3>2. PICK m \in Y : FirstOf(t, Y) = {m} /\ \A k \in Y : k <= m
                <4> HIDE DEF Y
                <4>1. QED
                    BY <1>8, <2>5, <3>1, FirstIsLargest
            <3>3. InSegments(t, i) = {v \in segData[m] : v.id = i}
                BY <3>2 DEF InSegments
            <3>4. m \in t.ids /\ segData[m] \subseteq H
                BY <1>1, <3>2
            <3>5. PICK u \in segData[m] : u.id = i
                BY <3>2 DEF Has
            <3>6. u.seq <= s /\ \A v \in segData[m] : v.id = i => v = u
                BY <3>4, <3>5 DEF SegmentsClean
            <3>7. \A w \in H : w.id = i /\ w.seq <= s => w.seq < u.seq \/ w = u
                <4>1. TAKE w \in H
                <4>2. HAVE w.id = i /\ w.seq <= s
                <4>3. PICK x \in t.ids : w \in segData[x]
                    BY <2>3, <4>2
                <4>4. x \in Y
                    BY <4>2, <4>3 DEF Has
                <4>5. CASE x = m
                    BY <3>6, <4>2, <4>3, <4>5
                <4>6. CASE x # m
                    <5>1. x < m
                        BY <1>8, <3>2, <3>4, <4>3, <4>4, <4>6
                    <5>2. QED
                        BY <3>4, <3>5, <4>3, <5>1 DEF Layered, Newer
                <4>7. QED
                    BY <4>5, <4>6
            <3>8. u.seq \in Nat /\ u \in H
                BY <1>3, <3>4, <3>5
            <3>9. Latest(H, i, s) = {u}
                BY <1>3, <3>5, <3>6, <3>7, <3>8 DEF Latest
            <3>10. QED
                BY <2>2, <3>3, <3>5, <3>6, <3>9
        <2>6. QED
            BY <2>4, <2>5
    <1>11. QED
        BY <1>4, <1>9, <1>10 DEF H

\* A read of a sound snapshot returns the state of the history at its sequence number.
LEMMA SnapshotReads ==
    ASSUME NEW M, NEW F, NEW l, NEW t, NEW s, NEW i, NEW V,
           l.ids \subseteq Gens, t.ids \subseteq SegIds, s \in Nat,
           History(V), Snapshot(M, F, l, segData, t, s, V)
    PROVE  Live(Find(M, F, l, t, i, s)) = Live(Latest(V, i, s))
    <1> DEFINE H == Held(M, F, l, segData, t)
    <1>1. H \subseteq V /\ Covers(H, V, s) /\ V \subseteq Versions
        BY DEF Snapshot, History
    <1>2. Find(M, F, l, t, i, s) = Latest(H, i, s)
        BY <1>1, FindIsLatest DEF Snapshot
    <1>3. \A v \in V : v.seq \in Nat
        BY <1>1 DEF Versions, Seqs
    <1> HIDE DEF H
    <1>4. CASE \E w \in H : w.id = i /\ w.seq <= s
        <2>1. PICK w \in H : w.id = i /\ w.seq <= s
            BY <1>4
        <2>2. PICK m \in Latest(H, i, s) : TRUE
            BY <1>1, <2>1, LatestExists
        <2>3. m \in H /\ m.id = i /\ m.seq <= s /\ \A u \in H : u.id = i /\ u.seq <= s => u.seq <= m.seq
            BY <2>2 DEF Latest
        <2>4. \A v \in V : v.id = i /\ v.seq <= s => v.seq <= m.seq
            <3>1. TAKE v \in V
            <3>2. HAVE v.id = i /\ v.seq <= s
            <3>3. ~(s < w.seq)
                BY <1>1, <1>3, <2>1
            <3>4. PICK u \in H : u.id = i /\ v.seq <= u.seq /\ u.seq <= s
                BY <1>1, <2>1, <3>2, <3>3 DEF Covers
            <3>5. u.seq <= m.seq
                BY <2>3, <3>4
            <3>6. QED
                BY <1>1, <1>3, <2>3, <3>4, <3>5
        <2>5. \A v \in V : v.id = i /\ v.seq = m.seq => v = m
            BY <1>1, <2>3 DEF History
        <2>6. Latest(H, i, s) = {m}
            BY <1>1, <1>3, <2>3, <2>5 DEF Latest
        <2>7. Latest(V, i, s) = {m}
            BY <1>1, <1>3, <2>3, <2>4, <2>5 DEF Latest
        <2>8. QED
            BY <1>2, <2>6, <2>7
    <1>5. CASE ~\E w \in H : w.id = i /\ w.seq <= s
        <2>1. Latest(H, i, s) = {}
            BY <1>5 DEF Latest
        <2>2. ASSUME NEW v \in Latest(V, i, s) PROVE v.del
            <3>1. v \in V /\ v.id = i /\ v.seq <= s /\ \A u \in V : u.id = i /\ u.seq <= s => u.seq <= v.seq
                BY <2>2 DEF Latest
            <3>2. PICK d \in V : d.id = i /\ d.del /\ d.seq <= s
                BY <1>1, <1>5, <3>1 DEF Covers
            <3>3. d.seq <= v.seq
                BY <3>1, <3>2
            <3>4. ~v.del => v.seq < d.seq
                BY <3>1, <3>2 DEF History
            <3>5. QED
                BY <1>3, <3>1, <3>2, <3>3, <3>4
        <2>3. Live(Latest(V, i, s)) = {} /\ Live({}) = {}
            BY <2>2 DEF Live
        <2>4. QED
            BY <1>2, <2>1, <2>3
    <1>6. QED
        BY <1>4, <1>5

\* The same sources, at least as far as the lists look, read the same.
LEMMA SnapshotSame ==
    ASSUME NEW M, NEW F, NEW l, NEW S, NEW t, NEW s, NEW V, NEW G, NEW R,
           Snapshot(M, F, l, S, t, s, V),
           \A g \in l.ids : G[g] = F[g], \A x \in t.ids : R[x] = S[x]
    PROVE  Snapshot(M, G, l, R, t, s, V)
    <1>1. Held(M, G, l, R, t) = Held(M, F, l, S, t)
        <2>1. {G[g] : g \in l.ids} = {F[g] : g \in l.ids}
            OBVIOUS
        <2>2. {R[x] : x \in t.ids} = {S[x] : x \in t.ids}
            OBVIOUS
        <2>3. QED
            BY <2>1, <2>2 DEF Held
    <1>2. Layered(M, G, l, R, t)
        BY DEF Snapshot, Layered
    <1>3. SegmentsClean(R, t, s)
        BY DEF Snapshot, SegmentsClean
    <1>4. QED
        BY <1>1, <1>2, <1>3 DEF Snapshot

\* A snapshot at the end of the history is one at any sequence number behind it.
LEMMA SnapshotEnd ==
    ASSUME NEW M, NEW F, NEW l, NEW S, NEW t, NEW s \in Nat, NEW r \in Nat, NEW V \in SUBSET Versions,
           Snapshot(M, F, l, S, t, s, V), \A v \in V : v.seq <= s /\ v.seq <= r
    PROVE  Snapshot(M, F, l, S, t, r, V)
    <1> DEFINE H == Held(M, F, l, S, t)
    <1>1. H \subseteq V /\ Covers(H, V, s)
        BY DEF Snapshot
    <1>2. \A v \in V : v.seq \in Nat
        BY DEF Versions, Seqs
    <1>3. \A x \in t.ids : S[x] \subseteq V
        BY HeldMembers DEF Snapshot
    <1> HIDE DEF H
    <1>4. Covers(H, V, r)
        BY <1>1, <1>2 DEF Covers
    <1>5. SegmentsClean(S, t, r)
        BY <1>3 DEF Snapshot, SegmentsClean
    <1>6. QED
        BY <1>4, <1>5 DEF Snapshot, H

\* A commit: the memtable and the history grow by newer versions.
LEMMA SnapshotGrows ==
    ASSUME NEW M, NEW F, NEW l, NEW S, NEW t, NEW s \in Nat, NEW r \in Nat, NEW V, NEW N,
           V \cup N \subseteq Versions,
           Snapshot(M, F, l, S, t, s, V), s <= r,
           \A v \in V : v.seq <= s, \A v \in N : v.seq <= r, Newer(N, V)
    PROVE  Snapshot(M \cup N, F, l, S, t, r, V \cup N)
    <1> DEFINE H == Held(M, F, l, S, t)
               K == Held(M \cup N, F, l, S, t)
    <1>1. H \subseteq V /\ Covers(H, V, s)
        BY DEF Snapshot
    <1>2. K = H \cup N
        BY HeldMembers
    <1>3. \A v \in V \cup N : v.seq \in Nat
        BY DEF Versions, Seqs
    <1>4. \A g \in l.ids : F[g] \subseteq V
        BY HeldMembers DEF Snapshot
    <1>5. \A x \in t.ids : S[x] \subseteq V
        BY HeldMembers DEF Snapshot
    <1>6. Layered(M \cup N, F, l, S, t)
        BY <1>4, <1>5 DEF Snapshot, Layered, Newer
    <1>7. SegmentsClean(S, t, r)
        BY <1>3, <1>5 DEF Snapshot, SegmentsClean
    <1> HIDE DEF H, K
    <1>8. Covers(K, V \cup N, r)
        <2>1. SUFFICES ASSUME NEW v \in V \cup N, v.seq <= r
                       PROVE  \/ \E w \in K : w.id = v.id /\ v.seq <= w.seq /\ w.seq <= r
                              \/ /\ \E d \in V \cup N : d.id = v.id /\ d.del /\ d.seq <= r
                                 /\ \A w \in K : w.id = v.id => r < w.seq
            BY DEF Covers
        <2>2. CASE v \in N
            BY <1>2, <1>3, <2>1, <2>2
        <2>3. CASE v \in V /\ \E w \in H : w.id = v.id /\ v.seq <= w.seq /\ w.seq <= s
            BY <1>1, <1>2, <1>3, <2>3
        <2>4. CASE v \in V /\ \E u \in N : u.id = v.id
            BY <1>2, <1>3, <2>4 DEF Newer
        <2>5. CASE /\ v \in V /\ ~\E u \in N : u.id = v.id
                   /\ \E d \in V : d.id = v.id /\ d.del /\ d.seq <= s
                   /\ \A w \in H : w.id = v.id => s < w.seq
            <3>1. \A w \in H : w.id # v.id
                BY <1>1, <1>3, <2>5
            <3>2. \A w \in K : w.id # v.id
                BY <1>2, <2>5, <3>1
            <3>3. \E d \in V \cup N : d.id = v.id /\ d.del /\ d.seq <= r
                BY <1>3, <2>5
            <3>4. QED
                BY <3>2, <3>3
        <2>6. QED
            BY <1>1, <2>1, <2>2, <2>3, <2>4, <2>5 DEF Covers
    <1>9. QED
        BY <1>1, <1>2, <1>6, <1>7, <1>8 DEF Snapshot, K

\* An older snapshot does not see newer versions, in its memtable or in the history.
LEMMA SnapshotStays ==
    ASSUME NEW M, NEW F, NEW l, NEW S, NEW t, NEW s \in Nat, NEW V, NEW N, NEW A,
           V \cup N \subseteq Versions, A \subseteq N,
           Snapshot(M, F, l, S, t, s, V), \A v \in N : s < v.seq, Newer(N, V)
    PROVE  Snapshot(M \cup A, F, l, S, t, s, V \cup N)
    <1> DEFINE H == Held(M, F, l, S, t)
               K == Held(M \cup A, F, l, S, t)
    <1>1. H \subseteq V /\ Covers(H, V, s)
        BY DEF Snapshot
    <1>2. K = H \cup A
        BY HeldMembers
    <1>3. \A v \in V \cup N : v.seq \in Nat
        BY DEF Versions, Seqs
    <1>4. \A g \in l.ids : F[g] \subseteq V
        BY HeldMembers DEF Snapshot
    <1>5. \A x \in t.ids : S[x] \subseteq V
        BY HeldMembers DEF Snapshot
    <1>6. Layered(M \cup A, F, l, S, t)
        BY <1>4, <1>5 DEF Snapshot, Layered, Newer
    <1> HIDE DEF H, K
    <1>7. Covers(K, V \cup N, s)
        <2>1. SUFFICES ASSUME NEW v \in V \cup N, v.seq <= s
                       PROVE  \/ \E w \in K : w.id = v.id /\ v.seq <= w.seq /\ w.seq <= s
                              \/ /\ \E d \in V \cup N : d.id = v.id /\ d.del /\ d.seq <= s
                                 /\ \A w \in K : w.id = v.id => s < w.seq
            BY DEF Covers
        <2>2. v \in V
            BY <1>3, <2>1
        <2>3. CASE \E w \in H : w.id = v.id /\ v.seq <= w.seq /\ w.seq <= s
            BY <1>2, <2>3
        <2>4. CASE /\ \E d \in V : d.id = v.id /\ d.del /\ d.seq <= s
                   /\ \A w \in H : w.id = v.id => s < w.seq
            <3>1. \A w \in K : w.id = v.id => s < w.seq
                BY <1>2, <2>4
            <3>2. QED
                BY <2>4, <3>1
        <2>5. QED
            BY <1>1, <2>1, <2>2, <2>3, <2>4 DEF Covers
    <1>8. QED
        BY <1>1, <1>2, <1>6, <1>7 DEF Snapshot, K


\* A freeze: the memtable becomes the newest epoch.
LEMMA SnapshotFreeze ==
    ASSUME NEW M, NEW F, NEW l, NEW S, NEW t, NEW s, NEW V, NEW G, NEW k, NEW g,
           Snapshot(M, F, l, S, t, s, V),
           l.ids \subseteq Gens, g \in Gens, \A h \in l.ids : h < g,
           G[g] = M, \A h \in l.ids : G[h] = F[h],
           k.ids = l.ids \cup {g}, Descending(k)
    PROVE  Snapshot({}, G, k, S, t, s, V)
    <1> DEFINE H == Held(M, F, l, S, t)
               K == Held({}, G, k, S, t)
    <1>1. K = H
        <2>1. \A v : v \in K <=> (\E h \in k.ids : v \in G[h]) \/ \E x \in t.ids : v \in S[x]
            BY HeldMembers
        <2>2. \A v : v \in H <=> v \in M \/ (\E h \in l.ids : v \in F[h]) \/ \E x \in t.ids : v \in S[x]
            BY HeldMembers
        <2>3. \A v : (\E h \in k.ids : v \in G[h]) <=> v \in M \/ \E h \in l.ids : v \in F[h]
            OBVIOUS
        <2> HIDE DEF H, K
        <2>4. \A v : v \in K <=> v \in H
            BY <2>1, <2>2, <2>3
        <2>5. QED
            BY <2>4
    <1>2. Layered({}, G, k, S, t)
        <2>1. \A h \in l.ids : h # g /\ ~(g < h)
            BY DEF Gens
        <2>2. \A a, b \in k.ids : b < a => Newer(G[a], G[b])
            <3>1. SUFFICES ASSUME NEW a \in k.ids, NEW b \in k.ids, b < a PROVE Newer(G[a], G[b])
                OBVIOUS
            <3>2. CASE a = g
                <4>1. b \in l.ids
                    BY <3>1, <3>2 DEF Gens
                <4>2. QED
                    BY <3>2, <4>1 DEF Snapshot, Layered
            <3>3. CASE a # g
                <4>1. a \in l.ids /\ b \in l.ids
                    BY <2>1, <3>1, <3>3
                <4>2. QED
                    BY <3>1, <4>1 DEF Snapshot, Layered
            <3>4. QED
                BY <3>2, <3>3
        <2>3. \A a \in k.ids : \A x \in t.ids : Newer(G[a], S[x])
            BY DEF Snapshot, Layered
        <2>4. \A x, y \in t.ids : y < x => Newer(S[x], S[y])
            BY DEF Snapshot, Layered
        <2>5. QED
            BY <2>2, <2>3, <2>4 DEF Layered, Newer
    <1>3. QED
        BY <1>1, <1>2 DEF Snapshot

\* A flush: the winners of the oldest epoch become the newest segment.
LEMMA SnapshotFlush ==
    ASSUME NEW M, NEW F, NEW l, NEW S, NEW t, NEW s \in Nat, NEW V, NEW k, NEW u, NEW g, NEW x,
           Snapshot(M, F, l, S, t, s, V), History(V),
           l.ids \subseteq Gens, t.ids \subseteq SegIds, x \in SegIds,
           g \in l.ids, \A h \in l.ids : g <= h, \A y \in t.ids : y < x,
           S[x] = Winners(F[g]), \A v \in F[g] : v.seq <= s,
           k.ids = l.ids \ {g}, Descending(k), u.ids = t.ids \cup {x}, Descending(u)
    PROVE  Snapshot(M, F, k, S, u, s, V)
    <1> DEFINE H == Held(M, F, l, S, t)
               K == Held(M, F, k, S, u)
    <1>1. H \subseteq V /\ Covers(H, V, s) /\ V \subseteq Versions
        BY DEF Snapshot, History
    <1>2. F[g] \subseteq H
        BY HeldMembers
    <1>3. F[g] \subseteq Versions /\ S[x] \subseteq F[g]
        BY <1>1, <1>2, WinnersCover
    <1>4. \A v \in V : v.seq \in Nat
        BY <1>1 DEF Versions, Seqs
    <1>5. \A v : v \in H <=> v \in M \/ (\E h \in l.ids : v \in F[h]) \/ \E y \in t.ids : v \in S[y]
        BY HeldMembers
    <1>6. \A v : v \in K <=> v \in M \/ (\E h \in k.ids : v \in F[h]) \/ \E y \in u.ids : v \in S[y]
        BY HeldMembers
    <1> HIDE DEF H, K
    <1>7. K \subseteq H
        BY <1>2, <1>3, <1>5, <1>6
    <1>8. \A v \in H : v \in K \/ v \in F[g]
        BY <1>5, <1>6
    <1>9. Layered(M, F, k, S, u)
        <2>1. \A a \in k.ids : Newer(M, F[a])
            BY DEF Snapshot, Layered
        <2>2. \A y \in u.ids : Newer(M, S[y])
            <3>1. Newer(M, F[g]) /\ \A y \in t.ids : Newer(M, S[y])
                BY DEF Snapshot, Layered
            <3>2. QED
                BY <1>3, <3>1 DEF Newer
        <2>3. \A a, b \in k.ids : b < a => Newer(F[a], F[b])
            BY DEF Snapshot, Layered
        <2>4. \A a \in k.ids : \A y \in u.ids : Newer(F[a], S[y])
            <3>1. \A a \in k.ids : g < a
                BY DEF Gens
            <3>2. \A a \in k.ids : Newer(F[a], F[g]) /\ \A y \in t.ids : Newer(F[a], S[y])
                BY <3>1 DEF Snapshot, Layered
            <3>3. QED
                BY <1>3, <3>2 DEF Newer
        <2>5. \A y, z \in u.ids : z < y => Newer(S[y], S[z])
            <3>1. SUFFICES ASSUME NEW y \in u.ids, NEW z \in u.ids, z < y PROVE Newer(S[y], S[z])
                OBVIOUS
            <3>2. CASE y = x
                <4>1. z \in t.ids
                    BY <3>1, <3>2 DEF SegIds
                <4>2. Newer(F[g], S[z])
                    BY <4>1 DEF Snapshot, Layered
                <4>3. QED
                    BY <1>3, <3>2, <4>2 DEF Newer
            <3>3. CASE y # x
                <4>1. y \in t.ids /\ z \in t.ids
                    BY <3>1, <3>3 DEF SegIds
                <4>2. QED
                    BY <3>1, <4>1 DEF Snapshot, Layered
            <3>4. QED
                BY <3>2, <3>3
        <2>6. QED
            BY <2>1, <2>2, <2>3, <2>4, <2>5 DEF Layered
    <1>10. SegmentsClean(S, u, s)
        <2>1. \A v, w \in S[x] : v.id = w.id => v = w
            <3>1. SUFFICES ASSUME NEW v \in S[x], NEW w \in S[x], v.id = w.id PROVE v = w
                OBVIOUS
            <3>2. v \in V /\ w \in V
                BY <1>1, <1>2, <1>3
            <3>3. v.seq <= w.seq /\ w.seq <= v.seq
                BY <3>1 DEF Winners
            <3>4. v.seq = w.seq
                BY <1>4, <3>2, <3>3
            <3>5. QED
                BY <3>1, <3>2, <3>4 DEF History
        <2>2. \A v \in S[x] : v.seq <= s
            BY <1>3
        <2>3. QED
            BY <2>1, <2>2 DEF Snapshot, SegmentsClean
    <1>11. Covers(K, V, s)
        <2>1. SUFFICES ASSUME NEW v \in V, v.seq <= s
                       PROVE  \/ \E w \in K : w.id = v.id /\ v.seq <= w.seq /\ w.seq <= s
                              \/ /\ \E d \in V : d.id = v.id /\ d.del /\ d.seq <= s
                                 /\ \A w \in K : w.id = v.id => s < w.seq
            BY DEF Covers
        <2>2. CASE \E w \in H : w.id = v.id /\ v.seq <= w.seq /\ w.seq <= s
            <3>1. PICK w \in H : w.id = v.id /\ v.seq <= w.seq /\ w.seq <= s
                BY <2>2
            <3>2. CASE w \in F[g]
                <4>1. PICK z \in Winners(F[g]) : z.id = w.id /\ w.seq <= z.seq
                    BY <1>3, <3>2, WinnersCover
                <4>2. z \in K /\ z.seq <= s /\ z \in V
                    BY <1>1, <1>2, <1>3, <1>6, <4>1
                <4>3. v.seq <= z.seq
                    BY <1>1, <1>4, <3>1, <4>1, <4>2
                <4>4. QED
                    BY <3>1, <4>1, <4>2, <4>3
            <3>3. QED
                BY <1>8, <3>1, <3>2
        <2>3. QED
            BY <1>1, <1>7, <2>1, <2>2 DEF Covers
    <1>12. QED
        BY <1>1, <1>7, <1>9, <1>10, <1>11 DEF Snapshot, K

\* Compaction of every segment of a quiet engine: records with a tombstone are dropped, of the
\* others the newest version is kept.
LEMMA SnapshotCompact ==
    ASSUME NEW F, NEW l, NEW t, NEW s \in Nat, NEW V, NEW R, NEW u, NEW x,
           Snapshot({}, F, l, segData, t, s, V), History(V), \A v \in V : v.seq <= s,
           l.ids = {}, t.ids \subseteq SegIds, u = [ids |-> {x}, before |-> {}],
           R[x] = Compacted(t), x \in SegIds
    PROVE  Snapshot({}, F, l, R, u, s, V)
    <1> DEFINE H == Held({}, F, l, segData, t)
               K == Held({}, F, l, R, u)
    <1>1. H \subseteq V /\ Covers(H, V, s) /\ V \subseteq Versions
        BY DEF Snapshot, History
    <1>2. \A i : InSegments(t, i) = Latest(H, i, s)
        <2>1. SUFFICES ASSUME NEW i PROVE InSegments(t, i) = Latest(H, i, s)
            OBVIOUS
        <2>2. Find({}, F, l, t, i, s) = Latest(H, i, s)
            BY <1>1, FindIsLatest DEF Snapshot
        <2>3. At({}, i, s) = {} /\ InFrozen(F, l, i, s) = {}
            BY DEF At, Winners, InFrozen, FirstOf
        <2>4. QED
            BY <2>2, <2>3 DEF Find
    <1>3. \A v : v \in K <=> v \in Compacted(t)
        BY HeldMembers
    <1>4. \A v : v \in H <=> \E y \in t.ids : v \in segData[y]
        BY HeldMembers
    <1>5. \A v \in V : v.seq \in Nat /\ v.id \in Ids
        BY <1>1 DEF Versions, Seqs
    <1> HIDE DEF H, K
    <1>6. \A v : v \in K <=> \E i \in Ids \ Deleted(t) : v \in Latest(H, i, s)
        BY <1>2, <1>3 DEF Compacted
    <1>7. \A v : v \in K => v \in H /\ v.id \notin Deleted(t) /\ \A w \in H : w.id = v.id => w.seq <= v.seq
        <2>1. SUFFICES ASSUME NEW v, v \in K
                       PROVE  v \in H /\ v.id \notin Deleted(t) /\ \A w \in H : w.id = v.id => w.seq <= v.seq
            OBVIOUS
        <2>2. PICK i \in Ids \ Deleted(t) : v \in Latest(H, i, s)
            BY <1>6, <2>1
        <2>3. QED
            BY <1>1, <2>2 DEF Latest
    <1>8. \A v, w \in K : v.id = w.id => v = w
        <2>1. SUFFICES ASSUME NEW v \in K, NEW w \in K, v.id = w.id PROVE v = w
            OBVIOUS
        <2>2. v \in V /\ w \in V /\ v.seq <= w.seq /\ w.seq <= v.seq
            BY <1>1, <1>7, <2>1
        <2>3. v.seq = w.seq
            BY <1>5, <2>2
        <2>4. QED
            BY <2>1, <2>2, <2>3 DEF History
    <1>9. R[x] \subseteq K
        BY <1>3
    <1>10. Layered({}, F, l, R, u)
        <2>1. \A y, z \in u.ids : ~(z < y)
            BY DEF SegIds
        <2>2. QED
            BY <2>1 DEF Layered, Newer
    <1>11. SegmentsClean(R, u, s)
        BY <1>1, <1>7, <1>8, <1>9 DEF SegmentsClean
    <1>12. Covers(K, V, s)
        <2>1. SUFFICES ASSUME NEW v \in V, v.seq <= s
                       PROVE  \/ \E w \in K : w.id = v.id /\ v.seq <= w.seq /\ w.seq <= s
                              \/ /\ \E d \in V : d.id = v.id /\ d.del /\ d.seq <= s
                                 /\ \A w \in K : w.id = v.id => s < w.seq
            BY DEF Covers
        <2>2. CASE \E w \in H : w.id = v.id /\ v.seq <= w.seq /\ w.seq <= s
            <3>1. PICK w \in H : w.id = v.id /\ v.seq <= w.seq /\ w.seq <= s
                BY <2>2
            <3>2. CASE v.id \in Deleted(t)
                <4>1. PICK d \in H : d.id = v.id /\ d.del
                    BY <1>4, <3>2 DEF Deleted
                <4>2. d \in V /\ d.seq <= s
                    BY <1>1, <4>1
                <4>3. \A z \in K : z.id # v.id
                    BY <1>7, <3>2
                <4>4. QED
                    BY <4>1, <4>2, <4>3
            <3>3. CASE v.id \notin Deleted(t)
                <4>1. H \in SUBSET Versions
                    BY <1>1
                <4>2. PICK m \in Latest(H, v.id, s) : TRUE
                    BY <3>1, <4>1, LatestExists
                <4>3. m \in H /\ m.id = v.id /\ m.seq <= s /\ w.seq <= m.seq
                    BY <3>1, <4>2 DEF Latest
                <4>4. m \in K
                    BY <1>5, <1>6, <3>3, <4>2
                <4>5. v.seq <= m.seq
                    BY <1>1, <1>5, <3>1, <4>3
                <4>6. QED
                    BY <4>3, <4>4, <4>5
            <3>4. QED
                BY <3>2, <3>3
        <2>3. QED
            BY <1>1, <1>7, <2>1, <2>2 DEF Covers
    <1>13. Descending(u)
        <2>1. \A p \in {x} \X {x} : ~(p[1] > p[2])
            BY DEF SegIds
        <2>2. QED
            BY <2>1 DEF Descending
    <1>14. QED
        BY <1>1, <1>7, <1>10, <1>11, <1>12, <1>13 DEF Snapshot, K

-----------------------------------------------------------------------------
(* The engine *)

\* The options under which segment ids order the segments by age, and tombstones are final.
PlainOptions == ~LateFaults /\ CompactAfterN = 0 /\ ~DeleteUnknown

Durable == committed \ unsynced

\* A crash loses a suffix of the history; ids are never handed out twice, not even after one.
HistoryKept ==
    /\ History(committed)
    /\ Newer(unsynced, Durable)
    /\ \A v \in Durable : v.id < manifest.nextId \/ \E w \in Replayed : v.id <= w.id
    /\ status # "closed" => \A v \in committed : v.id < nextId

\* Epochs are published oldest first, and a flushed segment is newer than all the open ones.
OrderKept ==
    /\ worker = "none" => inflight = {}
    /\ worker = "running" => inflight \cap manifest.pending \subseteq GensOf(Unpublished)
    /\ \A w \in publisher : ~w.published => \A h \in manifest.pending : w.gen <= h
    /\ \A g \in GensOf(Published) : \A h \in manifest.pending : g < h
    /\ status # "closed" => \A x \in segs.ids : \A y \in SegsOf(Unpublished \cup Published) : x < y

\* Memtables and WAL generations hold the same, and a built segment what its epoch shows.
CopiesAgree ==
    /\ \A g \in Gens : g >= manifest.nextGen => wal[g] = {}
    /\ status # "closed" =>
          /\ mem = wal[activeGen] \cup unsynced
          /\ \A g \in manifest.pending : frozen[g] = wal[g]
          /\ \A j \in Items(built) \cup publisher \cup Adopting :
                segData[j.seg] = Winners(frozen[j.gen])

DiskSound == Snapshot(wal[manifest.active], wal, DiskEpochs, segData, DiskSegments, MaxSeq, Durable)

CoreSound == status # "closed" => Snapshot(mem, frozen, imm, segData, segs, engineSeq, committed)

\* Nothing a snapshot refers to is still to be filled.
Written(x)  == x < nextSeg /\ x \notin SegsOf(Items(workQ))
Kept(l, t) == (\A g \in l.ids : g < activeGen) /\ \A x \in t.ids : Written(x)

ViewSound ==
    status = "open" =>
        /\ view.seq = engineSeq /\ Kept(view.imm, view.segs)
        /\ Snapshot(mem, frozen, view.imm, segData, view.segs, engineSeq, committed)

PinMem(p) == IF p.live THEN mem ELSE p.mem
PinSound(p) ==
    /\ Kept(p.imm, p.segs) /\ p.seq <= engineSeq
    /\ Snapshot(PinMem(p), frozen, p.imm, segData, p.segs, p.seq, committed)
PinsSound ==
    \A r \in Readers : \A p \in pins[r] : status # "closed" /\ PinSound(p)

DataInv ==
    /\ PlainOptions /\ compact = {}
    /\ HistoryKept /\ OrderKept /\ CopiesAgree
    /\ DiskSound /\ CoreSound /\ ViewSound /\ PinsSound


-----------------------------------------------------------------------------
(* The lists *)

LEMMA WithoutNothing ==
    ASSUME NEW q
    PROVE  Reversed(Without(q, {})) = Reversed(q) /\ Reversed(q).ids = q.ids
    <1>1. q.ids \ {} = q.ids /\ {p \in q.before : p[1] \notin {} /\ p[2] \notin {}} = q.before
        OBVIOUS
    <1>2. QED
        BY <1>1 DEF Without, Reversed

\* Every listed segment exists: recovery opens the manifest's list, newest first.
LEMMA DiskSegmentsListed ==
    ASSUME TypeOK, ListedSegmentsExist
    PROVE  DiskSegments = Reversed(manifest.segments) /\ DiskSegments.ids = manifest.segments.ids
    <1>1. manifest.segments.ids \ segDirs = {}
        BY DEF ListedSegmentsExist
    <1>2. DiskSegments = Reversed(Without(manifest.segments, {}))
        BY <1>1 DEF DiskSegments
    <1>3. QED
        BY <1>2, WithoutNothing

LEMMA DiskSegmentsListedNext ==
    ASSUME TypeOK', ListedSegmentsExist'
    PROVE  DiskSegments' = Reversed(manifest'.segments) /\ DiskSegments'.ids = manifest'.segments.ids
    <1>1. manifest'.segments.ids \ segDirs' = {}
        BY DEF ListedSegmentsExist
    <1>2. DiskSegments' = Reversed(Without(manifest'.segments, {}))
        BY <1>1 DEF DiskSegments
    <1>3. QED
        BY <1>2, WithoutNothing

\* A larger id may go to the front, and any id may go.
LEMMA FrontDescending ==
    ASSUME NEW l, NEW x \in Nat, Descending(l), l.ids \subseteq Nat, \A y \in l.ids : y < x
    PROVE  Descending(PushFront(l, x)) /\ PushFront(l, x).ids = l.ids \cup {x}
    <1> DEFINE k == PushFront(l, x)
    <1>1. k.ids = l.ids \cup {x} /\ k.before = l.before \cup {<<x, y>> : y \in l.ids \ {x}}
        BY DEF PushFront
    <1>2. \A y \in l.ids : x > y /\ ~(y > x) /\ ~(x > x) /\ y # x
        OBVIOUS
    <1> HIDE DEF k
    <1>3. k.before = {p \in k.ids \X k.ids : p[1] > p[2]}
        <2>1. ASSUME NEW p \in k.before PROVE p \in k.ids \X k.ids /\ p[1] > p[2]
            BY <1>1, <1>2, <2>1 DEF Descending
        <2>2. ASSUME NEW a \in k.ids, NEW b \in k.ids, a > b PROVE <<a, b>> \in k.before
            <3>1. CASE a = x
                BY <1>1, <1>2, <2>2, <3>1
            <3>2. CASE a # x
                <4>1. a \in l.ids /\ b \in l.ids
                    BY <1>1, <1>2, <2>2, <3>2
                <4>2. QED
                    BY <1>1, <2>2, <4>1 DEF Descending
            <3>3. QED
                BY <3>1, <3>2
        <2>3. QED
            BY <2>1, <2>2
    <1>4. QED
        BY <1>1, <1>3 DEF Descending, k

LEMMA WithoutDescending ==
    ASSUME NEW l, NEW S, Descending(l)
    PROVE  Descending(Without(l, S)) /\ Without(l, S).ids = l.ids \ S
    BY DEF Descending, Without

LEMMA BackDescending ==
    ASSUME NEW q, NEW x \in Nat, Descending(Reversed(q)), q.ids \subseteq Nat, \A y \in q.ids : y < x
    PROVE  /\ Descending(Reversed(PushBack(q, x)))
           /\ Reversed(PushBack(q, x)).ids = q.ids \cup {x}
    <1>1. Reversed(PushBack(q, x)) = PushFront(Reversed(q), x)
        <2>1. {<<p[2], p[1]>> : p \in q.before \cup {<<y, x>> : y \in q.ids \ {x}}} =
                 {<<p[2], p[1]>> : p \in q.before} \cup {<<x, y>> : y \in q.ids \ {x}}
            <3> DEFINE B == {<<y, x>> : y \in q.ids \ {x}}
            <3>1. {<<p[2], p[1]>> : p \in B} = {<<x, y>> : y \in q.ids \ {x}}
                <4>1. ASSUME NEW y \in q.ids \ {x} PROVE <<x, y>> \in {<<p[2], p[1]>> : p \in B}
                    <5>1. <<y, x>> \in B /\ <<y, x>>[1] = y /\ <<y, x>>[2] = x
                        OBVIOUS
                    <5> HIDE DEF B
                    <5>2. QED
                        BY <5>1
                <4>2. ASSUME NEW p \in B PROVE <<p[2], p[1]>> \in {<<x, y>> : y \in q.ids \ {x}}
                    OBVIOUS
                <4>3. QED
                    BY <4>1, <4>2
            <3>2. {<<p[2], p[1]>> : p \in q.before \cup B} =
                     {<<p[2], p[1]>> : p \in q.before} \cup {<<p[2], p[1]>> : p \in B}
                <4> HIDE DEF B
                <4>1. QED
                    OBVIOUS
            <3>3. QED
                BY <3>1, <3>2
        <2>2. QED
            BY <2>1 DEF Reversed, PushBack, PushFront
    <1>2. Reversed(q).ids = q.ids
        BY DEF Reversed
    <1>3. QED
        BY <1>1, <1>2, FrontDescending

\* The segments in use, and those of jobs that have been built, are written.
LEMMA SegmentsWritten ==
    ASSUME TypeOK, PipelineInv, status # "closed"
    PROVE  /\ \A x \in manifest.segments.ids : Written(x)
           /\ \A x \in segs.ids : Written(x)
           /\ \A j \in Items(built) \cup publisher \cup Adopting :
                 /\ Written(j.seg) /\ j.seg \in SegIds
                 /\ j.gen \in Gens /\ j.gen < activeGen
    <1>1. Items(workQ) \subseteq Unpublished /\ Items(built) \subseteq Unpublished
        BY DEF Unpublished
    <1>2. \A x \in manifest.segments.ids : Written(x)
        BY <1>1 DEF PipelineInv, SegmentsAccounted, SegsOf, Written
    <1>3. \A x \in segs.ids : Written(x)
        BY <1>2 DEF PipelineInv, SegmentsAccounted
    <1>4. ASSUME NEW j \in Items(built) \cup publisher \cup Adopting
          PROVE  /\ Written(j.seg) /\ j.seg \in SegIds
                 /\ j.gen \in Gens /\ j.gen < activeGen
        <2>1. j.seg \in SegIds /\ j.gen \in Gens
            BY <1>4, JobTypes DEF Adopting
        <2>2. \A b \in Items(workQ) : Ahead(j, b) /\ b.seg \in SegIds
            BY <1>4, JobTypes DEF PipelineInv, JobsInOrder
        <2>3. j.seg \notin SegsOf(Items(workQ))
            BY <2>1, <2>2 DEF SegsOf, Ahead, SegIds
        <2>4. j \in Unpublished \/ j \in Published
            BY <1>4 DEF Unpublished, Published
        <2>5. j.seg < nextSeg
            BY <2>4 DEF PipelineInv, SegmentsAccounted, SegsOf
        <2>6. j.gen < activeGen
            <3>1. j.gen \in imm.ids
                BY <2>4 DEF PipelineInv, EpochsAccounted, GensOf
            <3>2. QED
                BY <3>1 DEF PipelineInv, EpochsAccounted
        <2>7. QED
            BY <2>1, <2>3, <2>5, <2>6 DEF Written
    <1>5. QED
        BY <1>2, <1>3, <1>4


-----------------------------------------------------------------------------
(* Steps that leave the data alone *)

\* A sound snapshot stays sound while what it refers to is not written to.
LEMMA KeptSame ==
    ASSUME NEW M, NEW l, NEW t, NEW s, t.ids \subseteq SegIds,
           Snapshot(M, frozen, l, segData, t, s, committed),
           \A x \in t.ids : Written(x),
           UNCHANGED <<frozen, committed>>,
           \A x \in SegIds : Written(x) => Written(x)' /\ segData'[x] = segData[x]
    PROVE  /\ Snapshot(M, frozen', l, segData', t, s, committed')
           /\ \A x \in t.ids : Written(x)'
    <1>1. \A x \in t.ids : segData'[x] = segData[x]
        OBVIOUS
    <1>2. Snapshot(M, frozen', l, segData', t, s, committed)
        BY <1>1, SnapshotSame
    <1>3. QED
        BY <1>2

\* The ids in views and pins.
LEMMA ViewTypes ==
    ASSUME TypeOK
    PROVE  /\ imm.ids \subseteq Gens /\ segs.ids \subseteq SegIds
           /\ manifest.pending \subseteq Gens /\ manifest.segments.ids \subseteq SegIds
           /\ manifest.active \in Gens /\ manifest.active \in Nat
           /\ view.imm.ids \subseteq Gens /\ view.segs.ids \subseteq SegIds /\ view.seq \in Nat
           /\ engineSeq \in Nat /\ activeGen \in Gens /\ nextSeg \in Nat /\ MaxSeq \in Nat
           /\ \A r \in Readers : \A p \in pins[r] :
                 p.imm.ids \subseteq Gens /\ p.segs.ids \subseteq SegIds /\ p.seq \in Nat
    <1>1. imm.ids \subseteq Gens /\ segs.ids \subseteq SegIds
        BY DEF TypeOK, MemTypeOK, CompactTypeOK, IdLists
    <1>2. manifest.pending \subseteq Gens /\ manifest.segments.ids \subseteq SegIds
          /\ manifest.active \in Gens /\ manifest.active \in Nat
        BY ConstantsAssumption DEF TypeOK, DiskTypeOK, Manifests, IdLists, Gens
    <1>3. view.imm.ids \subseteq Gens /\ view.segs.ids \subseteq SegIds /\ view.seq \in Nat
        BY ConstantsAssumption DEF TypeOK, ReaderTypeOK, Views, IdLists
    <1>4. engineSeq \in Nat /\ activeGen \in Gens /\ nextSeg \in Nat /\ MaxSeq \in Nat
        BY ConstantsAssumption DEF TypeOK, CountersTypeOK, MemTypeOK
    <1>5. ASSUME NEW r \in Readers, NEW p \in pins[r]
          PROVE  p.imm.ids \subseteq Gens /\ p.segs.ids \subseteq SegIds /\ p.seq \in Nat
        <2>1. p \in Pins
            BY DEF TypeOK, ReaderTypeOK
        <2>2. QED
            BY <2>1, ConstantsAssumption DEF Pins, IdLists
    <1>6. QED
        BY <1>1, <1>2, <1>3, <1>4, <1>5

\* The snapshot a reader takes of the published view.
PinOfView == [seq |-> view.seq, imm |-> view.imm, segs |-> view.segs, live |-> TRUE, mem |-> {}]

\* A step of a running engine that changes no data in use: it may fill new segments, move
\* jobs through the pipeline, drop generations nobody names, pin and unpin views.
LEMMA DataFrame ==
    ASSUME TypeOK, RecoveryInv, PipelineInv, DataInv, TypeOK', PipelineInv',
           status # "closed", status' # "closed", status' = "open" => status = "open",
           UNCHANGED <<manifest, seqVars, memVars, segs, view>>, compact' = {},
           \A g \in manifest.pending \cup {manifest.active} : wal'[g] = wal[g],
           \A g \in Gens : wal'[g] \subseteq wal[g],
           \A x \in SegIds : Written(x) => Written(x)' /\ segData'[x] = segData[x],
           \A j \in (Items(built) \cup publisher \cup Adopting)' :
               \/ \E i \in Items(built) \cup publisher \cup Adopting : i.gen = j.gen /\ i.seg = j.seg
               \/ segData'[j.seg] = Winners(frozen[j.gen]),
           \A r \in Readers : \A p \in pins'[r] : p \in pins[r] \/ (status = "open" /\ p = PinOfView),
           OrderKept'
    PROVE  DataInv'
    <1>1. UNCHANGED <<manifest, engineSeq, nextId, committed, mem, unsynced, activeGen, imm, frozen, segs, view>>
        BY DEF seqVars, memVars
    <1>2. HistoryKept'
        <2>1. Durable' = Durable
            BY <1>1 DEF Durable
        <2>2. \A v : v \in Replayed' <=> v \in Replayed
            BY <1>1, ReplayedMembers, ReplayedMembersNext
        <2>3. History(committed)' /\ Newer(unsynced, Durable)'
            BY <1>1, <2>1 DEF DataInv, HistoryKept
        <2>4. \A v \in Durable' : v.id < manifest'.nextId \/ \E w \in Replayed' : v.id <= w.id
            BY <1>1, <2>1, <2>2 DEF DataInv, HistoryKept
        <2>5. \A v \in committed' : v.id < nextId'
            BY <1>1 DEF DataInv, HistoryKept
        <2>6. QED
            BY <2>3, <2>4, <2>5 DEF HistoryKept
    <1>3. CopiesAgree'
        <2>1. manifest.active = activeGen
            BY DEF RecoveryInv, RunningIsAhead
        <2>2. mem' = wal'[activeGen'] \cup unsynced' /\ \A g \in manifest'.pending : frozen'[g] = wal'[g]
            BY <1>1, <2>1 DEF DataInv, CopiesAgree
        <2>3. \A g \in Gens : g >= manifest'.nextGen => wal'[g] = {}
            BY <1>1 DEF DataInv, CopiesAgree
        <2>4. ASSUME NEW j \in (Items(built) \cup publisher \cup Adopting)'
              PROVE  segData'[j.seg] = Winners(frozen'[j.gen])
            <3>1. CASE \E i \in Items(built) \cup publisher \cup Adopting : i.gen = j.gen /\ i.seg = j.seg
                <4>1. PICK i \in Items(built) \cup publisher \cup Adopting : i.gen = j.gen /\ i.seg = j.seg
                    BY <3>1
                <4>2. segData[i.seg] = Winners(frozen[i.gen])
                    BY DEF DataInv, CopiesAgree
                <4>3. segData'[i.seg] = segData[i.seg]
                    BY SegmentsWritten
                <4>4. QED
                    BY <1>1, <4>1, <4>2, <4>3
            <3>2. QED
                BY <1>1, <2>4, <3>1
        <2>5. QED
            BY <2>2, <2>3, <2>4 DEF CopiesAgree
    <1>4. DiskSound'
        <2>1. DiskSegments' = DiskSegments /\ DiskSegments.ids = manifest.segments.ids
            BY <1>1, DiskSegmentsListed, DiskSegmentsListedNext DEF PipelineInv, DirectoriesExist
        <2>2. DiskEpochs' = DiskEpochs /\ DiskEpochs.ids = manifest.pending /\ Durable' = Durable
            BY <1>1 DEF DiskEpochs, Durable
        <2>3. \A x \in DiskSegments.ids : segData'[x] = segData[x]
            BY <2>1, SegmentsWritten, ViewTypes
        <2>4. \A g \in DiskEpochs.ids : wal'[g] = wal[g]
            BY <2>2
        <2>5. Snapshot(wal[manifest.active], wal', DiskEpochs, segData', DiskSegments, MaxSeq, Durable)
            BY <2>3, <2>4, SnapshotSame DEF DataInv, DiskSound
        <2>6. wal'[manifest'.active] = wal[manifest.active]
            BY <1>1
        <2>7. QED
            BY <2>1, <2>2, <2>5, <2>6 DEF DiskSound
    <1>5. CoreSound'
        <2>1. Snapshot(mem, frozen', imm, segData', segs, engineSeq, committed')
            BY <1>1, KeptSame, SegmentsWritten, ViewTypes DEF DataInv, CoreSound
        <2>2. QED
            BY <1>1, <2>1 DEF CoreSound
    <1>6. status = "open" =>
              /\ view.seq = engineSeq /\ Kept(view.imm, view.segs)'
              /\ Snapshot(mem', frozen', view.imm, segData', view.segs, engineSeq', committed')
        <2>1. HAVE status = "open"
        <2>2. /\ view.seq = engineSeq /\ Kept(view.imm, view.segs)
              /\ Snapshot(mem, frozen, view.imm, segData, view.segs, engineSeq, committed)
            BY <2>1 DEF DataInv, ViewSound
        <2>3. /\ Snapshot(mem, frozen', view.imm, segData', view.segs, engineSeq, committed')
              /\ \A x \in view.segs.ids : Written(x)'
            BY <1>1, <2>2, KeptSame, ViewTypes DEF Kept
        <2>4. QED
            BY <1>1, <2>2, <2>3 DEF Kept
    <1>7. ViewSound'
        BY <1>1, <1>6 DEF ViewSound
    <1>8. PinsSound'
        <2>1. SUFFICES ASSUME NEW r \in Readers, NEW p \in pins'[r] PROVE PinSound(p)'
            BY DEF PinsSound
        <2>2. CASE p \in pins[r]
            <3>1. /\ Kept(p.imm, p.segs) /\ p.seq <= engineSeq
                  /\ Snapshot(PinMem(p), frozen, p.imm, segData, p.segs, p.seq, committed)
                BY <2>2 DEF DataInv, PinsSound, PinSound
            <3>2. /\ Snapshot(PinMem(p), frozen', p.imm, segData', p.segs, p.seq, committed')
                  /\ \A x \in p.segs.ids : Written(x)'
                BY <1>1, <2>2, <3>1, KeptSame, ViewTypes DEF Kept
            <3>3. PinMem(p)' = PinMem(p)
                BY <1>1 DEF PinMem
            <3>4. QED
                BY <1>1, <3>1, <3>2, <3>3 DEF PinSound, Kept
        <2>3. CASE status = "open" /\ p = PinOfView
            <3>1. p.imm = view.imm /\ p.segs = view.segs /\ p.seq = view.seq /\ p.live
                BY <2>3 DEF PinOfView
            <3>2. PinMem(p)' = mem'
                BY <3>1 DEF PinMem
            <3>3. p.seq = engineSeq /\ engineSeq \in Nat
                BY <1>6, <2>3, <3>1, ViewTypes
            <3>4. QED
                BY <1>1, <1>6, <2>3, <3>1, <3>2, <3>3 DEF PinSound, Kept
        <2>4. QED
            BY <2>1, <2>2, <2>3
    <1>9. QED
        BY <1>2, <1>3, <1>4, <1>5, <1>7, <1>8 DEF DataInv, PlainOptions


\* A step that leaves the pipeline alone too, or only stops its workers.
LEMMA DataQuiet ==
    ASSUME TypeOK, RecoveryInv, PipelineInv, DataInv, TypeOK', PipelineInv',
           status # "closed", status' # "closed", status' = "open" => status = "open",
           UNCHANGED <<manifest, wal, seqVars, memVars, segs, view, workQ, built, events, publisher, inflight>>,
           compact' = {}, worker' = worker \/ worker' = "cancelled",
           nextSeg <= nextSeg', \A x \in SegIds : x < nextSeg => segData'[x] = segData[x],
           \A r \in Readers : \A p \in pins'[r] : p \in pins[r] \/ (status = "open" /\ p = PinOfView)
    PROVE  DataInv'
    <1>1. UNCHANGED <<manifest, wal, segs, workQ, built, events, publisher, inflight, frozen>>
        BY DEF memVars
    <1>2. /\ Items(workQ)' = Items(workQ) /\ Items(built)' = Items(built)
          /\ Unpublished' = Unpublished /\ Published' = Published /\ Adopting' = Adopting
        BY <1>1 DEF Items, Unpublished, Published, Adopting
    <1>3. OrderKept'
        BY <1>1, <1>2 DEF DataInv, OrderKept, GensOf, SegsOf
    <1>4. \A x \in SegIds : Written(x) => Written(x)' /\ segData'[x] = segData[x]
        <2>1. nextSeg \in Nat /\ nextSeg' \in Nat /\ SegIds \subseteq Nat
            BY ConstantsAssumption DEF TypeOK, CountersTypeOK, SegIds
        <2>2. QED
            BY <1>2, <2>1 DEF Written, SegsOf
    <1>5. \A j \in (Items(built) \cup publisher \cup Adopting)' :
             \E i \in Items(built) \cup publisher \cup Adopting : i.gen = j.gen /\ i.seg = j.seg
        BY <1>1, <1>2
    <1>6. \A g \in Gens : wal'[g] = wal[g]
        BY <1>1
    <1>7. \A g \in manifest.pending \cup {manifest.active} : wal'[g] = wal[g]
        BY <1>1
    <1>8. QED
        BY <1>3, <1>4, <1>5, <1>6, <1>7, DataFrame

\* The coordinator's bookkeeping, and readers that let go.
LEMMA DataCoordinator ==
    ASSUME TypeOK, RecoveryInv, PipelineInv, DataInv, TypeOK', PipelineInv',
           FlushReturns \/ SurfaceFlushError \/ RetryFlush \/ EnqueueFails
    PROVE  DataInv'
    <1>1. /\ UNCHANGED <<manifest, wal, segData, seqVars, memVars, segs, nextSeg, view, pins, workQ,
                         built, events, publisher, inflight, worker, compact, status>>
        BY DEF FlushReturns, SurfaceFlushError, RetryFlush, EnqueueFails, diskVars, flushVars, compVars
    <1>2. status # "closed"
        <2>1. CASE EnqueueFails
            BY <2>1 DEF EnqueueFails, RecoveryInv, ClosedIsEmpty
        <2>2. QED
            BY <2>1 DEF FlushReturns, SurfaceFlushError, RetryFlush
    <1>3. compact' = {} /\ nextSeg <= nextSeg'
        BY <1>1, ViewTypes DEF DataInv
    <1>4. QED
        BY <1>1, <1>2, <1>3, DataQuiet

LEMMA DataReaders ==
    ASSUME TypeOK, RecoveryInv, PipelineInv, DataInv, TypeOK', PipelineInv',
           NEW r \in Readers, PinView(r) \/ UnpinView(r)
    PROVE  DataInv'
    <1>1. UNCHANGED <<manifest, wal, segData, seqVars, memVars, segs, nextSeg, view, workQ,
                      built, events, publisher, inflight, worker, compact, status>>
        BY DEF PinView, UnpinView, diskVars, flushVars, compVars, ctlVars
    <1>2. pins \in [Readers -> SUBSET Pins]
        BY DEF TypeOK, ReaderTypeOK
    <1>3. status # "closed"
        BY DEF PinView, UnpinView, DataInv, PinsSound
    <1>4. \A q \in Readers : \A p \in pins'[q] : p \in pins[q] \/ (status = "open" /\ p = PinOfView)
        <2>1. CASE PinView(r)
            <3>1. status = "open" /\ pins' = [pins EXCEPT ![r] = {PinOfView}]
                BY <2>1 DEF PinView, PinOfView
            <3>2. QED
                BY <1>2, <3>1
        <2>2. CASE UnpinView(r)
            BY <1>2, <2>2 DEF UnpinView
        <2>3. QED
            BY <2>1, <2>2
    <1>5. compact' = {} /\ nextSeg <= nextSeg'
        BY <1>1, ViewTypes DEF DataInv
    <1>6. QED
        BY <1>1, <1>3, <1>4, <1>5, DataQuiet

\* close_fast stops the workers; an explicit compaction that fails leaves an unlisted segment.
LEMMA DataCloseFast ==
    ASSUME TypeOK, RecoveryInv, PipelineInv, DataInv, TypeOK', PipelineInv', CloseFast
    PROVE  DataInv'
    <1>1. UNCHANGED <<manifest, wal, segData, seqVars, memVars, segs, nextSeg, view, pins, workQ,
                      built, events, publisher, inflight>>
        BY DEF CloseFast, diskVars
    <1>2. /\ status = "open" /\ status' = "closingFast" /\ compact' = {}
          /\ worker' = worker \/ worker' = "cancelled"
        BY DEF CloseFast, MayClose, CoordinatorFree
    <1>3. nextSeg <= nextSeg'
        BY <1>1, ViewTypes
    <1>4. QED
        BY <1>1, <1>2, <1>3, DataQuiet

LEMMA DataCompactFails ==
    ASSUME TypeOK, RecoveryInv, PipelineInv, DataInv, TypeOK', PipelineInv', CompactFails
    PROVE  DataInv'
    <1>1. UNCHANGED <<manifest, wal, seqVars, memVars, segs, view, pins, workQ,
                      built, events, publisher, inflight, worker, compact, status>>
        BY DEF CompactFails, flushVars, ctlVars, DataInv, PlainOptions
    <1>2. status = "open"
        BY DEF CompactFails, CompactEnabled, CoordinatorFree
    <1>3. \/ UNCHANGED <<segData, nextSeg>>
          \/ segData' = [segData EXCEPT ![nextSeg] = Compacted(segs)] /\ nextSeg' = nextSeg + 1
        BY DEF CompactFails
    <1>4. nextSeg \in Nat /\ segData \in [SegIds -> SUBSET Versions] /\ SegIds \subseteq Nat
        BY ConstantsAssumption DEF TypeOK, CountersTypeOK, DiskTypeOK, SegIds
    <1>5. nextSeg <= nextSeg' /\ \A x \in SegIds : x < nextSeg => segData'[x] = segData[x]
        BY <1>3, <1>4
    <1>6. compact' = {}
        BY <1>1 DEF DataInv
    <1>7. QED
        BY <1>1, <1>2, <1>5, <1>6, DataQuiet

\* No background compaction is ever started.
LEMMA DataNoCompaction ==
    ASSUME DataInv, CompactBuild \/ CompactBuildFails \/ ApplyCompact \/ ApplyCompactFails
    PROVE  FALSE
    BY DEF DataInv, CompactBuild, CompactBuildFails, ApplyCompact, ApplyCompactFails


-----------------------------------------------------------------------------
(* The pipeline moves jobs *)

\* enqueue_flush: the new segment id is larger than all, and nothing refers to it yet.
LEMMA DataEnqueue ==
    ASSUME TypeOK, RecoveryInv, PipelineInv, DataInv, TypeOK', PipelineInv', EnqueueFlush
    PROVE  DataInv'
    <1>1. PICK g \in LastOf(imm, NonInFlight) :
              workQ' = Append(workQ, [gen |-> g, seg |-> nextSeg]) /\ inflight' = inflight \cup {g}
        BY DEF EnqueueFlush
    <1> DEFINE job == [gen |-> g, seg |-> nextSeg]
    <1>2. /\ status # "closed"
          /\ UNCHANGED <<manifest, wal, segData, seqVars, memVars, segs, view, pins, built, events,
                         publisher, compact, status>>
          /\ nextSeg' = nextSeg + 1 /\ worker' = IF worker = "none" THEN "running" ELSE worker
        BY DEF EnqueueFlush, RecoveryInv, ClosedIsEmpty, diskVars, compVars
    <1>3. job \in Jobs /\ job.gen = g /\ job.seg = nextSeg /\ nextSeg \in Nat
        <2>1. g \in Gens /\ nextSeg \in SegIds /\ nextSeg \in Nat
            BY ConstantsAssumption
            DEF EnqueueFlush, LastOf, TypeOK, CountersTypeOK, MemTypeOK, IdLists, SegIds
        <2>2. QED
            BY <2>1 DEF Jobs
    <1>4. Items(workQ') = Items(workQ) \cup {job}
        BY <1>1, <1>3, ItemsAppend DEF TypeOK, FlushTypeOK
    <1> HIDE DEF job
    <1>5. /\ Items(built)' = Items(built) /\ Unpublished' = Unpublished \cup {job}
          /\ Published' = Published /\ Adopting' = Adopting
        BY <1>2, <1>4 DEF Unpublished, Published, Adopting, Items
    <1>6. OrderKept'
        <2>1. GensOf(Unpublished') = GensOf(Unpublished) \cup {g} /\ GensOf(Published') = GensOf(Published)
            BY <1>3, <1>5 DEF GensOf
        <2>2. \A y \in SegsOf(Unpublished' \cup Published') : y \in SegsOf(Unpublished \cup Published) \/ y = nextSeg
            BY <1>3, <1>5 DEF SegsOf
        <2>3. \A x \in segs.ids : x < nextSeg
            BY <1>2 DEF PipelineInv, SegmentsAccounted
        <2>4. \A x \in segs'.ids : \A y \in SegsOf(Unpublished' \cup Published') : x < y
            BY <1>2, <2>2, <2>3 DEF DataInv, OrderKept
        <2>5. worker' # "none"
            BY <1>2
        <2>6. worker' = "running" => inflight' \cap manifest'.pending \subseteq GensOf(Unpublished')
            <3>1. CASE worker = "none"
                <4>1. inflight = {}
                    BY <3>1 DEF DataInv, OrderKept
                <4>2. QED
                    BY <1>1, <1>2, <2>1, <4>1
            <3>2. CASE worker # "none"
                BY <1>1, <1>2, <2>1, <3>2 DEF DataInv, OrderKept
            <3>3. QED
                BY <3>1, <3>2
        <2>7. QED
            BY <1>2, <1>5, <2>1, <2>4, <2>5, <2>6 DEF DataInv, OrderKept
    <1>7. \A x \in SegIds : Written(x) => Written(x)' /\ segData'[x] = segData[x]
        <2>1. SegsOf(Items(workQ')) = SegsOf(Items(workQ)) \cup {nextSeg}
            BY <1>3, <1>4 DEF SegsOf
        <2>2. SegIds \subseteq Nat
            BY DEF SegIds
        <2>3. QED
            BY <1>2, <1>3, <2>1, <2>2 DEF Written
    <1>8. \A j \in (Items(built) \cup publisher \cup Adopting)' :
             \E i \in Items(built) \cup publisher \cup Adopting : i.gen = j.gen /\ i.seg = j.seg
        BY <1>2, <1>5
    <1>9. compact' = {}
        BY <1>2 DEF DataInv
    <1>10. QED
        BY <1>2, <1>6, <1>7, <1>8, <1>9, DataFrame

\* The build worker fills the segment of the job at the head of its queue.
LEMMA DataBuild ==
    ASSUME TypeOK, RecoveryInv, PipelineInv, DataInv, TypeOK', PipelineInv', BuildSegment
    PROVE  DataInv'
    <1> DEFINE job == Head(workQ)
    <1>1. /\ workQ # <<>> /\ built' = Append(built, job) /\ workQ' = Tail(workQ)
          /\ segData' = [segData EXCEPT ![job.seg] = Winners(frozen[job.gen])]
          /\ UNCHANGED <<manifest, wal, seqVars, memVars, segs, nextSeg, worker, events, publisher,
                         inflight, compact, status, view, pins>>
        BY DEF BuildSegment, compVars, ctlVars
    <1>2. job \in Jobs /\ job \in Items(workQ) /\ status # "closed"
        <2>1. job \in Jobs /\ job \in Items(workQ)
            BY <1>1, Queues, ItemsTail DEF TypeOK, FlushTypeOK
        <2>2. worker # "none"
            BY DEF BuildSegment
        <2>3. QED
            BY <2>1, <2>2 DEF RecoveryInv, ClosedIsEmpty
    <1>3. Items(workQ) = Items(workQ') \cup {job} /\ Items(built') = Items(built) \cup {job}
        BY <1>1, <1>2, ItemsTail, ItemsAppend DEF TypeOK, FlushTypeOK
    <1>4. job.seg \in SegIds /\ job.gen \in Gens /\ segData \in [SegIds -> SUBSET Versions]
        BY <1>2 DEF Jobs, TypeOK, DiskTypeOK
    <1> HIDE DEF job
    <1>5. Unpublished' = Unpublished /\ Published' = Published /\ Adopting' = Adopting
        BY <1>1, <1>3 DEF Unpublished, Published, Adopting
    <1>6. OrderKept'
        BY <1>1, <1>5 DEF DataInv, OrderKept, GensOf, SegsOf
    <1>7. \A x \in SegIds : Written(x) => Written(x)' /\ segData'[x] = segData[x]
        <2>1. SegsOf(Items(workQ')) \subseteq SegsOf(Items(workQ)) /\ job.seg \in SegsOf(Items(workQ))
            BY <1>3 DEF SegsOf
        <2>2. QED
            BY <1>1, <1>4, <2>1 DEF Written
    <1>8. \A j \in (Items(built) \cup publisher \cup Adopting)' :
             \/ \E i \in Items(built) \cup publisher \cup Adopting : i.gen = j.gen /\ i.seg = j.seg
             \/ segData'[j.seg] = Winners(frozen[j.gen])
        <2>1. segData'[job.seg] = Winners(frozen[job.gen])
            BY <1>1, <1>4
        <2>2. QED
            BY <1>1, <1>3, <1>5, <2>1
    <1>9. compact' = {} /\ wal' = wal
        BY <1>1 DEF DataInv
    <1>10. QED
        BY <1>1, <1>2, <1>6, <1>7, <1>8, <1>9, DataFrame

\* A failed build or publish drops its job and stops the workers.
LEMMA DataDropped ==
    ASSUME TypeOK, RecoveryInv, PipelineInv, DataInv, TypeOK', PipelineInv', BuildFails \/ PublishFails
    PROVE  DataInv'
    <1>1. /\ UNCHANGED <<manifest, wal, segData, seqVars, memVars, segs, nextSeg, view, pins, built,
                         inflight, compact, status>>
          /\ worker' = "cancelled" /\ publisher' \subseteq publisher
        BY DEF BuildFails, PublishFails, diskVars, compVars, ctlVars, DataInv, PlainOptions
    <1>2. status # "closed"
        BY DEF BuildFails, PublishFails, RecoveryInv, ClosedIsEmpty
    <1>3. Items(workQ') \subseteq Items(workQ) /\ Adopting' = Adopting
        <2>1. CASE BuildFails
            <3> DEFINE e == [kind |-> "failed", gen |-> Head(workQ).gen, seg |-> Head(workQ).seg]
            <3>1. workQ # <<>> /\ workQ' = Tail(workQ) /\ events' = Append(events, e)
                BY <2>1 DEF BuildFails
            <3>2. Items(workQ') \subseteq Items(workQ)
                BY <3>1, ItemsTail DEF TypeOK, FlushTypeOK
            <3>3. e \in FlushEvents /\ e.kind = "failed"
                <4>1. Head(workQ) \in Jobs
                    BY <3>1, Queues DEF TypeOK, FlushTypeOK
                <4>2. QED
                    BY <4>1 DEF Jobs, FlushEvents
            <3> HIDE DEF e
            <3>4. QED
                BY <3>1, <3>2, <3>3, FailureSent DEF PipelineInv
        <2>2. CASE PublishFails
            <3>1. PICK w \in publisher : events' = Append(events, [kind |-> "failed", gen |-> w.gen, seg |-> w.seg])
                BY <2>2 DEF PublishFails
            <3> DEFINE e == [kind |-> "failed", gen |-> w.gen, seg |-> w.seg]
            <3>2. e \in FlushEvents /\ e.kind = "failed"
                BY <3>1 DEF TypeOK, FlushTypeOK, PublishJobs, FlushEvents
            <3> HIDE DEF e
            <3>3. Adopting' = Adopting
                BY <3>1, <3>2, FailureSent DEF PipelineInv, e
            <3>4. workQ' = workQ
                BY <2>2 DEF PublishFails
            <3>5. QED
                BY <3>3, <3>4
        <2>3. QED
            BY <2>1, <2>2
    <1>4. /\ Items(built)' = Items(built) /\ Unpublished' \subseteq Unpublished /\ Published' \subseteq Published
        BY <1>1, <1>3 DEF Unpublished, Published, Items
    <1>5. OrderKept'
        BY <1>1, <1>4 DEF DataInv, OrderKept, GensOf, SegsOf
    <1>6. \A x \in SegIds : Written(x) => Written(x)' /\ segData'[x] = segData[x]
        BY <1>1, <1>3 DEF Written, SegsOf
    <1>7. \A j \in (Items(built) \cup publisher \cup Adopting)' :
             \E i \in Items(built) \cup publisher \cup Adopting : i.gen = j.gen /\ i.seg = j.seg
        BY <1>1, <1>3, <1>4
    <1>8. compact' = {} /\ wal' = wal
        BY <1>1 DEF DataInv
    <1>9. QED
        BY <1>1, <1>2, <1>5, <1>6, <1>7, <1>8, DataFrame

\* The publisher takes the oldest of the jobs, and so the oldest of the pending epochs.
LEMMA DataReceive ==
    ASSUME TypeOK, RecoveryInv, PipelineInv, DataInv, TypeOK', PipelineInv', PublishReceive
    PROVE  DataInv'
    <1> DEFINE job == Head(built)
               w   == [gen |-> job.gen, seg |-> job.seg, published |-> FALSE]
    <1>1. /\ built # <<>> /\ built' = Tail(built) /\ publisher = {} /\ publisher' = {w}
          /\ worker = "running"
          /\ UNCHANGED <<manifest, wal, segData, seqVars, memVars, segs, nextSeg, view, pins, workQ, worker,
                         events, inflight, compact, status, task>>
        BY DEF PublishReceive, diskVars, compVars, ctlVars
    <1>2. Items(built) = Items(built') \cup {job} /\ job \in Jobs
          /\ \A y \in Items(built') : Ahead(job, y)
        BY <1>1, ItemsTail, AscendingTail, Queues DEF TypeOK, FlushTypeOK, PipelineInv, JobsInOrder
    <1>3. w.gen = job.gen /\ w.seg = job.seg /\ w.published = FALSE
        OBVIOUS
    <1> HIDE DEF job, w
    <1>4. Items(workQ)' = Items(workQ) /\ Adopting' = Adopting /\ Published' = Published
        BY <1>1, <1>3 DEF Published, Adopting, Items
    <1>5. Unpublished' = Items(workQ) \cup Items(built') \cup {w}
          /\ Unpublished = Items(workQ) \cup Items(built') \cup {job}
        BY <1>1, <1>2, <1>3, <1>4 DEF Unpublished
    <1>6. status # "closed" /\ task # "drain"
        BY <1>1 DEF RecoveryInv, ClosedIsEmpty, PipelineInv, WorkersStopped
    <1>7. \A h \in manifest.pending : w.gen <= h
        <2>1. SUFFICES ASSUME NEW h \in manifest.pending, h < job.gen PROVE FALSE
            BY <1>2, <1>3, ViewTypes DEF Jobs, Gens
        <2>2. job.gen \in inflight /\ h \in imm.ids
            BY <1>5, <1>6 DEF PipelineInv, EpochsAccounted, GensOf
        <2>3. h \in inflight
            BY <1>6, <2>1, <2>2 DEF PipelineInv, EpochsAccounted
        <2>4. PICK j \in Unpublished : j.gen = h
            BY <1>1, <2>3 DEF DataInv, OrderKept, GensOf
        <2>5. j = job \/ Ahead(job, j)
            BY <1>2, <1>5, <2>4 DEF PipelineInv, JobsInOrder
        <2>6. job.gen \in Nat /\ h \in Nat
            BY <1>2, ViewTypes DEF Jobs, Gens
        <2>7. QED
            BY <2>1, <2>4, <2>5, <2>6 DEF Ahead
    <1>8. OrderKept'
        <2>1. GensOf(Unpublished') = GensOf(Unpublished)
              /\ SegsOf(Unpublished' \cup Published') = SegsOf(Unpublished \cup Published)
            BY <1>3, <1>4, <1>5 DEF GensOf, SegsOf
        <2>2. QED
            BY <1>1, <1>3, <1>4, <1>7, <2>1 DEF DataInv, OrderKept
    <1>9. \A x \in SegIds : Written(x) => Written(x)' /\ segData'[x] = segData[x]
        BY <1>1, <1>4 DEF Written
    <1>10. \A j \in (Items(built) \cup publisher \cup Adopting)' :
             \E i \in Items(built) \cup publisher \cup Adopting : i.gen = j.gen /\ i.seg = j.seg
        BY <1>1, <1>2, <1>3, <1>4
    <1>11. compact' = {} /\ wal' = wal
        BY <1>1 DEF DataInv
    <1>12. QED
        BY <1>1, <1>6, <1>8, <1>9, <1>10, <1>11, DataFrame


\* The generation of a published epoch is removed: the manifest does not name it.
LEMMA DataRetire ==
    ASSUME TypeOK, RecoveryInv, PipelineInv, DataInv, TypeOK', PipelineInv', RetireWal
    PROVE  DataInv'
    <1>1. PICK w \in publisher : /\ w.published
                                 /\ wal' = [wal EXCEPT ![w.gen] = {}] \/ wal' = wal
                                 /\ events' = Append(events, [kind |-> "adopt", gen |-> w.gen, seg |-> w.seg])
        BY DEF RetireWal
    <1> DEFINE e == [kind |-> "adopt", gen |-> w.gen, seg |-> w.seg]
    <1>2. /\ UNCHANGED <<manifest, segData, seqVars, memVars, segs, nextSeg, view, pins, workQ, built,
                         worker, inflight, compact, status>>
          /\ publisher' = {}
        BY DEF RetireWal, compVars, ctlVars
    <1>3. e \in FlushEvents /\ e.kind = "adopt" /\ e.gen = w.gen /\ e.seg = w.seg
        BY <1>1 DEF TypeOK, FlushTypeOK, PublishJobs, FlushEvents
    <1>4. Items(events') = Items(events) \cup {e}
        BY <1>1, <1>3, ItemsAppend DEF TypeOK, FlushTypeOK
    <1>5. publisher = {w} /\ status # "closed"
        BY <1>1 DEF PipelineInv, WorkersStopped, RecoveryInv, ClosedIsEmpty
    <1> HIDE DEF e
    <1>6. /\ Items(workQ)' = Items(workQ) /\ Items(built)' = Items(built) /\ Adopting' = Adopting \cup {e}
          /\ Unpublished' = Unpublished /\ Published = Adopting \cup {w} /\ Published' = Adopting \cup {e}
        BY <1>1, <1>2, <1>3, <1>4, <1>5 DEF Unpublished, Published, Adopting, Items
    <1>7. OrderKept'
        <2>1. GensOf(Published') = GensOf(Published)
              /\ SegsOf(Unpublished' \cup Published') = SegsOf(Unpublished \cup Published)
            BY <1>3, <1>6 DEF GensOf, SegsOf
        <2>2. QED
            BY <1>2, <1>6, <2>1 DEF DataInv, OrderKept
    <1>8. /\ \A g \in manifest.pending \cup {manifest.active} : wal'[g] = wal[g]
          /\ \A g \in Gens : wal'[g] \subseteq wal[g]
        <2>1. wal \in [Gens -> SUBSET Versions] /\ w.gen \in Gens
            BY <1>1 DEF TypeOK, DiskTypeOK, FlushTypeOK, PublishJobs
        <2>2. w.gen \notin manifest.pending \cup {manifest.active}
            BY <1>1 DEF RecoveryInv, GenerationsDistinct
        <2>3. QED
            BY <1>1, <2>1, <2>2, ViewTypes
    <1>9. \A x \in SegIds : Written(x) => Written(x)' /\ segData'[x] = segData[x]
        BY <1>2, <1>6 DEF Written
    <1>10. \A j \in (Items(built) \cup publisher \cup Adopting)' :
             \E i \in Items(built) \cup publisher \cup Adopting : i.gen = j.gen /\ i.seg = j.seg
        BY <1>2, <1>3, <1>5, <1>6
    <1>11. compact' = {}
        BY <1>2 DEF DataInv
    <1>12. QED
        BY <1>2, <1>5, <1>7, <1>8, <1>9, <1>10, <1>11, DataFrame

\* After a failure the jobs that were not published are dropped.
LEMMA DataFailed ==
    ASSUME TypeOK, RecoveryInv, PipelineInv, DataInv, TypeOK', PipelineInv', FlushFailed
    PROVE  DataInv'
    <1>1. /\ status # "closed" /\ publisher = {} /\ events # <<>> /\ Head(events).kind = "failed"
          /\ worker' = "none" /\ workQ' = <<>> /\ built' = <<>> /\ inflight' = {}
          /\ events' = Tail(events)
          /\ UNCHANGED <<manifest, wal, segData, seqVars, memVars, segs, nextSeg, view, pins, publisher,
                         compact, status>>
        BY DEF FlushFailed, diskVars, compVars
    <1>2. Items(events) = Items(events') \cup {Head(events)}
        BY <1>1, ItemsTail DEF TypeOK, FlushTypeOK
    <1>3. Adopting' = Adopting /\ Items(<<>>) = {}
        BY <1>1, <1>2 DEF Adopting, Items
    <1>4. Unpublished' = {} /\ Published' = Published /\ Items(built)' = {} /\ Items(workQ)' = {}
        BY <1>1, <1>3 DEF Unpublished, Published
    <1>5. OrderKept'
        BY <1>1, <1>4 DEF DataInv, OrderKept, GensOf, SegsOf
    <1>6. \A x \in SegIds : Written(x) => Written(x)' /\ segData'[x] = segData[x]
        BY <1>1, <1>4 DEF Written, SegsOf
    <1>7. \A j \in (Items(built) \cup publisher \cup Adopting)' :
             \E i \in Items(built) \cup publisher \cup Adopting : i.gen = j.gen /\ i.seg = j.seg
        BY <1>1, <1>3, <1>4
    <1>8. compact' = {} /\ wal' = wal
        BY <1>1 DEF DataInv
    <1>9. QED
        BY <1>1, <1>5, <1>6, <1>7, <1>8, DataFrame

-----------------------------------------------------------------------------
(* Flush: the manifest first, then the core *)

\* The publisher's manifest: on disk the oldest pending epoch becomes the newest segment.
LEMMA DataPublish ==
    ASSUME TypeOK, RecoveryInv, PipelineInv, DataInv, TypeOK', PipelineInv', PublishManifest
    PROVE  DataInv'
    <1>1. PICK w \in publisher : /\ ~w.published /\ w.gen \in manifest.pending
                                 /\ manifest' = PublishedManifest(w)
                                 /\ publisher' = {[w EXCEPT !.published = TRUE]}
        BY DEF PublishManifest
    <1> DEFINE u == [w EXCEPT !.published = TRUE]
    <1>2. /\ UNCHANGED <<wal, segData, engineSeq, nextId, committed, mem, unsynced, activeGen, imm, frozen,
                         segs, nextSeg, workQ, built, worker, events, inflight, compact, status, view, pins>>
          /\ status # "closed"
        BY DEF PublishManifest, seqVars, memVars, compVars, ctlVars, RecoveryInv, ClosedIsEmpty
    <1>3. u.gen = w.gen /\ u.seg = w.seg /\ u.published = TRUE /\ publisher = {w}
        BY <1>1 DEF TypeOK, FlushTypeOK, PublishJobs, PipelineInv, WorkersStopped
    <1>4. w.gen \in Gens /\ w.seg \in SegIds /\ w.seg \in Nat
        BY JobTypes
    <1> HIDE DEF u
    <1>5. /\ Items(workQ)' = Items(workQ) /\ Items(built)' = Items(built) /\ Adopting' = Adopting
          /\ publisher' = {u}
          /\ Unpublished = Items(workQ) \cup Items(built) \cup {w}
          /\ Unpublished' = Items(workQ) \cup Items(built)
          /\ Published = Adopting /\ Published' = Adopting \cup {u}
        BY <1>1, <1>2, <1>3 DEF Unpublished, Published, Adopting, Items, u
    <1>6. w.seg \notin manifest.segments.ids
        BY <1>5 DEF PipelineInv, SegmentsAccounted, SegsOf
    <1>7. /\ manifest'.pending = manifest.pending \ {w.gen} /\ manifest'.active = manifest.active
          /\ manifest'.segments = PushBack(manifest.segments, w.seg)
          /\ manifest'.nextGen = manifest.nextGen
          /\ manifest'.nextId = Larger(manifest.nextId, nextId)
        BY <1>1, <1>6 DEF PublishedManifest, TypeOK, DiskTypeOK, Manifests
    <1>8. \A h \in manifest.pending : w.gen <= h
        BY <1>1 DEF DataInv, OrderKept
    <1>9. HistoryKept'
        <2>1. \A v \in committed : v.id < nextId
            BY <1>2 DEF DataInv, HistoryKept
        <2>2. manifest'.nextId >= nextId /\ manifest'.nextId \in Nat /\ nextId \in Nat
            BY <1>7, CountersAreNat, LargerIsMax
        <2>3. \A v \in committed : v.id \in Nat
            BY DEF TypeOK, CountersTypeOK, Versions, Ids
        <2>4. \A v \in committed : v.id < manifest'.nextId
            BY <2>1, <2>2, <2>3
        <2>5. Durable' = Durable /\ Durable \subseteq committed
            BY <1>2 DEF Durable
        <2>6. History(committed)' /\ Newer(unsynced, Durable)'
            BY <1>2, <2>5 DEF DataInv, HistoryKept
        <2>7. QED
            BY <1>2, <2>1, <2>4, <2>5, <2>6 DEF HistoryKept
    <1>10. OrderKept'
        <2>1. \A g \in GensOf(Published') : \A h \in manifest'.pending : g < h
            <3>1. GensOf(Published') = GensOf(Published) \cup {w.gen}
                BY <1>3, <1>5 DEF GensOf
            <3>2. \A h \in manifest'.pending : w.gen < h
                BY <1>4, <1>7, <1>8, ViewTypes DEF Gens
            <3>3. QED
                BY <1>7, <3>1, <3>2 DEF DataInv, OrderKept
        <2>2. SegsOf(Unpublished' \cup Published') = SegsOf(Unpublished \cup Published)
            BY <1>3, <1>5 DEF SegsOf
        <2>3. worker = "running" => inflight \cap manifest'.pending \subseteq GensOf(Unpublished')
            <3>1. GensOf(Unpublished) = GensOf(Unpublished') \cup {w.gen}
                BY <1>5 DEF GensOf
            <3>2. QED
                BY <1>7, <3>1 DEF DataInv, OrderKept
        <2>4. QED
            BY <1>2, <1>3, <1>5, <2>1, <2>2, <2>3 DEF DataInv, OrderKept
    <1>11. CopiesAgree'
        BY <1>2, <1>3, <1>5, <1>7 DEF DataInv, CopiesAgree
    <1>12. DiskSound'
        <2> DEFINE V == Durable
        <2>1. DiskSegments' = Reversed(PushBack(manifest.segments, w.seg))
              /\ DiskSegments = Reversed(manifest.segments)
              /\ DiskSegments.ids = manifest.segments.ids
            BY <1>7, DiskSegmentsListed, DiskSegmentsListedNext DEF PipelineInv, DirectoriesExist
        <2>2. Snapshot(wal[manifest.active], wal, DiskEpochs, segData, DiskSegments, MaxSeq, Durable)
            BY DEF DataInv, DiskSound
        <2>3. \A y \in manifest.segments.ids : y < w.seg
            <3>1. \A y \in segs.ids : y < w.seg
                BY <1>2, <1>5 DEF DataInv, OrderKept, SegsOf
            <3>2. \A a \in Adopting : a.seg < w.seg
                BY <1>3 DEF PipelineInv, JobsInOrder, Ahead
            <3>3. manifest.segments.ids = segs.ids \cup SegsOf(Adopting)
                BY <1>2, <1>5 DEF PipelineInv, SegmentsAccounted
            <3>4. QED
                BY <3>1, <3>2, <3>3 DEF SegsOf
        <2>4. manifest.segments.ids \subseteq SegIds /\ manifest.segments.ids \subseteq Nat
            BY ViewTypes DEF SegIds
        <2>5. Descending(DiskSegments') /\ DiskSegments'.ids = DiskSegments.ids \cup {w.seg}
            <3>1. Descending(Reversed(manifest.segments))
                BY <2>1, <2>2 DEF Snapshot
            <3>2. QED
                BY <1>4, <2>1, <2>3, <2>4, <3>1, BackDescending
        <2>6. /\ DiskEpochs.ids = manifest.pending /\ DiskEpochs'.ids = manifest.pending \ {w.gen}
              /\ Descending(DiskEpochs')
            BY <1>7 DEF DiskEpochs, Descending
        <2>7. segData[w.seg] = Winners(wal[w.gen])
            BY <1>1, <1>2 DEF DataInv, CopiesAgree
        <2>8. History(Durable)
            BY DEF DataInv, HistoryKept, History, Durable
        <2>9. \A v \in wal[w.gen] : v.seq <= MaxSeq
            BY <1>4, ConstantsAssumption DEF TypeOK, DiskTypeOK, Versions, Seqs
        <2>10. Snapshot(wal[manifest.active], wal, DiskEpochs', segData, DiskSegments', MaxSeq, Durable)
            <3>1. \A y \in DiskSegments.ids : y < w.seg
                BY <2>1, <2>3
            <3>2. DiskSegments.ids \subseteq SegIds /\ DiskEpochs.ids \subseteq Gens /\ MaxSeq \in Nat
                BY <2>1, <2>6, ViewTypes
            <3>3. w.gen \in DiskEpochs.ids /\ \A h \in DiskEpochs.ids : w.gen <= h
                BY <1>1, <1>8, <2>6
            <3>4. DiskEpochs'.ids = DiskEpochs.ids \ {w.gen}
                BY <2>6
            <3>5. QED
                BY <1>4, <2>2, <2>5, <2>6, <2>7, <2>8, <2>9, <3>1, <3>2, <3>3, <3>4, SnapshotFlush
        <2>11. Durable' = Durable
            BY <1>2 DEF Durable
        <2>12. QED
            BY <1>2, <1>7, <2>10, <2>11 DEF DiskSound
    <1>13. CoreSound'
        BY <1>2 DEF DataInv, CoreSound
    <1>14. \A x : Written(x)' <=> Written(x)
        BY <1>2, <1>5 DEF Written
    <1>15. ViewSound'
        BY <1>2, <1>14 DEF DataInv, ViewSound, Kept
    <1>16. PinsSound'
        BY <1>2, <1>14 DEF DataInv, PinsSound, PinSound, PinMem, Kept
    <1>17. QED
        BY <1>2, <1>9, <1>10, <1>11, <1>12, <1>13, <1>15, <1>16 DEF DataInv, PlainOptions


\* The core adopts the segment: in memory the oldest epoch becomes the newest segment.  A view
\* that is not rebuilt goes on reading the epoch.
LEMMA DataAdopt ==
    ASSUME TypeOK, RecoveryInv, PipelineInv, DataInv, TypeOK', PipelineInv', AdoptFlush
    PROVE  DataInv'
    <1> DEFINE e == Head(events)
    <1>1. /\ status # "closed" /\ events # <<>> /\ e.kind = "adopt"
          /\ segs' = PushFront(segs, e.seg) /\ imm' = Without(imm, {e.gen})
          /\ inflight' = inflight \ {e.gen} /\ events' = Tail(events)
          /\ view' = view \/ view' = RebuildSources(engineSeq, imm', segs')
          /\ UNCHANGED <<manifest, wal, segDirs, segData, engineSeq, nextId, committed, mem, unsynced, activeGen,
                         frozen, worker, workQ, built, publisher, status, pins>>
        BY DEF AdoptFlush, diskVars, seqVars
    <1>2. compact' = {} /\ nextSeg' = nextSeg
        <2>1. ~CompactionDue(flushCount + 1, segs') /\ compact = {}
            BY DEF DataInv, PlainOptions, CompactionDue
        <2>2. MaybeScheduleCompact(flushCount + 1, segs')
            BY <2>1 DEF AdoptFlush
        <2>3. QED
            BY <2>1, <2>2 DEF MaybeScheduleCompact
    <1>3. e \in FlushEvents /\ Adopting = Adopting' \cup {e} /\ \A a \in Adopting' : Ahead(e, a)
        BY <1>1, AdoptionTaken DEF PipelineInv
    <1>4. e.gen \in Gens /\ e.seg \in SegIds /\ e.gen \in Nat /\ e.seg \in Nat
        BY <1>3 DEF FlushEvents, Gens, SegIds
    <1> HIDE DEF e
    <1>5. /\ Items(workQ)' = Items(workQ) /\ Items(built)' = Items(built)
          /\ Unpublished' = Unpublished /\ Published = Published' \cup {e}
        BY <1>1, <1>3 DEF Unpublished, Published, Items
    <1>6. \A a \in Published' \cup Unpublished : Ahead(e, a)
        <2>1. \A a \in publisher \cup Items(built) \cup Items(workQ) : Ahead(e, a)
            BY <1>3 DEF PipelineInv, JobsInOrder
        <2>2. Published' \cup Unpublished \subseteq Adopting' \cup publisher \cup Items(built) \cup Items(workQ)
            BY <1>1 DEF Published, Unpublished
        <2>3. QED
            BY <1>3, <2>1, <2>2
    <1>7. /\ \A x \in SegIds : Written(x)' <=> Written(x)
          /\ Written(e.seg)
        <2>1. Written(e.seg)
            BY <1>1, <1>3, SegmentsWritten
        <2>2. QED
            BY <1>1, <1>2, <1>5, <2>1 DEF Written
    <1>8. HistoryKept'
        <2>1. Durable' = Durable /\ Replayed' = Replayed
            BY <1>1 DEF Durable, Replayed
        <2>2. QED
            BY <1>1, <2>1 DEF DataInv, HistoryKept
    <1>9. OrderKept'
        <2>1. segs'.ids = segs.ids \cup {e.seg}
            BY <1>1 DEF PushFront
        <2>2. \A y \in SegsOf(Unpublished' \cup Published') : y \in SegsOf(Unpublished \cup Published) /\ e.seg < y
            BY <1>5, <1>6 DEF SegsOf, Ahead
        <2>3. \A x \in segs'.ids : \A y \in SegsOf(Unpublished' \cup Published') : x < y
            BY <1>1, <2>1, <2>2 DEF DataInv, OrderKept
        <2>4. GensOf(Published') \subseteq GensOf(Published)
            BY <1>5 DEF GensOf
        <2>5. QED
            BY <1>1, <1>5, <2>3, <2>4 DEF DataInv, OrderKept
    <1>10. CopiesAgree'
        <2>1. Adopting' \subseteq Adopting
            BY <1>3
        <2>2. QED
            BY <1>1, <1>5, <2>1 DEF DataInv, CopiesAgree
    <1>11. DiskSound'
        <2>1. DiskSegments' = DiskSegments /\ DiskEpochs' = DiskEpochs /\ Durable' = Durable
            BY <1>1 DEF DiskSegments, DiskEpochs, Durable
        <2>2. QED
            BY <1>1, <2>1 DEF DataInv, DiskSound
    <1>12. Snapshot(mem, frozen, imm', segData, segs', engineSeq, committed)
        <2>1. Snapshot(mem, frozen, imm, segData, segs, engineSeq, committed) /\ History(committed)
            BY <1>1 DEF DataInv, CoreSound, HistoryKept
        <2>2. imm.ids \subseteq Gens /\ segs.ids \subseteq SegIds /\ engineSeq \in Nat
              /\ segs.ids \subseteq Nat
            BY ViewTypes DEF SegIds
        <2>3. e.gen \in imm.ids /\ \A h \in imm.ids : e.gen <= h
            <3>1. imm.ids = manifest.pending \cup GensOf(Published)
                BY <1>1 DEF PipelineInv, EpochsAccounted
            <3>2. e \in Published
                BY <1>5
            <3>3. \A h \in manifest.pending : e.gen < h
                BY <3>2 DEF DataInv, OrderKept, GensOf
            <3>4. \A a \in Published : a.gen = e.gen \/ e.gen < a.gen
                BY <1>5, <1>6 DEF Ahead
            <3>5. \A h \in imm.ids : h \in Nat
                BY JobTypes
            <3>6. QED
                BY <1>4, <3>1, <3>2, <3>3, <3>4, <3>5 DEF GensOf
        <2>4. \A y \in segs.ids : y < e.seg
            BY <1>1, <1>5 DEF DataInv, OrderKept, SegsOf
        <2>5. segData[e.seg] = Winners(frozen[e.gen])
            BY <1>1, <1>3 DEF DataInv, CopiesAgree
        <2>6. \A v \in frozen[e.gen] : v.seq <= engineSeq
            <3>1. frozen[e.gen] \subseteq committed
                BY <1>4 DEF RecoveryInv, StoredIsCommitted
            <3>2. QED
                BY <1>1, <3>1 DEF RecoveryInv, RunningIsAhead
        <2>7. imm'.ids = imm.ids \ {e.gen} /\ Descending(imm')
            BY <1>1, <2>1, WithoutDescending DEF Snapshot
        <2>8. segs'.ids = segs.ids \cup {e.seg} /\ Descending(segs')
            BY <1>1, <1>4, <2>1, <2>2, <2>4, FrontDescending DEF Snapshot
        <2>9. QED
            BY <1>4, <2>1, <2>2, <2>3, <2>4, <2>5, <2>6, <2>7, <2>8, SnapshotFlush
    <1>13. CoreSound'
        BY <1>1, <1>12 DEF CoreSound
    <1>14. ViewSound'
        <2>1. CASE view' = view
            <3>1. status = "open" => Kept(view.imm, view.segs)'
                BY <1>1, <1>7, <2>1, ViewTypes DEF DataInv, ViewSound, Kept
            <3>2. QED
                BY <1>1, <2>1, <3>1 DEF DataInv, ViewSound
        <2>2. CASE view' = RebuildSources(engineSeq, imm', segs')
            <3>1. view'.seq = engineSeq /\ view'.imm = imm' /\ view'.segs = segs'
                BY <2>2 DEF RebuildSources
            <3>2. \A g \in imm'.ids : g < activeGen'
                BY <1>1 DEF Without, PipelineInv, EpochsAccounted
            <3>3. \A x \in segs'.ids : Written(x)'
                BY <1>1, <1>4, <1>7, SegmentsWritten, ViewTypes DEF PushFront
            <3>4. QED
                BY <1>1, <1>12, <3>1, <3>2, <3>3 DEF ViewSound, Kept
        <2>3. QED
            BY <1>1, <2>1, <2>2
    <1>15. PinsSound'
        BY <1>1, <1>7, ViewTypes DEF DataInv, PinsSound, PinSound, PinMem, Kept
    <1>16. QED
        BY <1>2, <1>8, <1>9, <1>10, <1>11, <1>13, <1>14, <1>15 DEF DataInv, PlainOptions


-----------------------------------------------------------------------------
(* The log grows *)

\* Appending newer versions to the active generation extends what recovery reads by them.
LEMMA DiskGrows ==
    ASSUME TypeOK, RecoveryInv, PipelineInv, DataInv, TypeOK', ListedSegmentsExist', NEW N, N \subseteq Versions,
           status # "closed", wal' = [wal EXCEPT ![activeGen] = @ \cup N],
           manifest'.pending = manifest.pending, manifest'.active = manifest.active,
           manifest'.segments = manifest.segments, segData' = segData,
           Newer(N, Durable), Durable' = Durable \cup N
    PROVE  DiskSound' /\ wal'[activeGen] = wal[activeGen] \cup N
           /\ \A g \in Gens : g # activeGen => wal'[g] = wal[g]
    <1>1. manifest.active = activeGen /\ activeGen \notin manifest.pending
        BY DEF RecoveryInv, RunningIsAhead, GenerationsDistinct
    <1>2. DiskSegments' = DiskSegments /\ DiskEpochs' = DiskEpochs /\ DiskEpochs.ids = manifest.pending
        BY DiskSegmentsListed, DiskSegmentsListedNext DEF PipelineInv, DirectoriesExist, DiskEpochs
    <1>3. wal \in [Gens -> SUBSET Versions] /\ activeGen \in Gens /\ manifest.pending \subseteq Gens
        BY ViewTypes DEF TypeOK, DiskTypeOK
    <1>4. wal'[activeGen] = wal[activeGen] \cup N /\ \A g \in Gens : g # activeGen => wal'[g] = wal[g]
        BY <1>3
    <1>5. Durable \subseteq Versions /\ \A v \in Durable \cup N : v.seq <= MaxSeq
        BY ConstantsAssumption DEF Durable, TypeOK, CountersTypeOK, Versions, Seqs
    <1>6. Snapshot(wal[activeGen] \cup N, wal, DiskEpochs, segData, DiskSegments, MaxSeq, Durable \cup N)
        <2>1. Snapshot(wal[activeGen], wal, DiskEpochs, segData, DiskSegments, MaxSeq, Durable)
            BY <1>1 DEF DataInv, DiskSound
        <2>2. Durable \cup N \subseteq Versions /\ MaxSeq \in Nat /\ MaxSeq <= MaxSeq
            BY <1>5, ConstantsAssumption
        <2>3. QED
            BY <1>5, <2>1, <2>2, SnapshotGrows
    <1>7. Snapshot(wal[activeGen] \cup N, wal', DiskEpochs, segData', DiskSegments, MaxSeq, Durable \cup N)
        <2>1. \A g \in DiskEpochs.ids : wal'[g] = wal[g]
            BY <1>1, <1>2, <1>3, <1>4
        <2>2. QED
            BY <1>6, <2>1, SnapshotSame
    <1>8. DiskSound'
        BY <1>1, <1>2, <1>4, <1>7 DEF DiskSound
    <1>9. QED
        BY <1>4, <1>8

\* The ids of what recovery replays, when the active generation grew.
LEMMA ReplayedGrows ==
    ASSUME TypeOK, RecoveryInv, status # "closed", NEW N, wal' = [wal EXCEPT ![activeGen] = @ \cup N],
           manifest'.pending = manifest.pending, manifest'.active = manifest.active
    PROVE  \A v : v \in Replayed' <=> v \in Replayed \/ v \in N
    <1>1. manifest.active = activeGen /\ activeGen \notin manifest.pending
        BY DEF RecoveryInv, RunningIsAhead, GenerationsDistinct
    <1>2. wal \in [Gens -> SUBSET Versions] /\ activeGen \in Gens /\ manifest.pending \subseteq Gens
        BY ViewTypes DEF TypeOK, DiskTypeOK
    <1>3. wal'[activeGen] = wal[activeGen] \cup N /\ \A g \in manifest.pending : wal'[g] = wal[g]
        BY <1>1, <1>2
    <1>4. QED
        BY <1>1, <1>3, ReplayedMembers, ReplayedMembersNext

\* The WAL is fsynced: what was unsynced is durable.
LEMMA DataSync ==
    ASSUME TypeOK, RecoveryInv, PipelineInv, DataInv, TypeOK', PipelineInv', SyncWal
    PROVE  DataInv'
    <1>1. /\ status # "closed" /\ wal' = [wal EXCEPT ![activeGen] = @ \cup unsynced] /\ unsynced' = {}
          /\ UNCHANGED <<manifest, segData, engineSeq, nextId, committed, mem, activeGen, imm, frozen, segs,
                         nextSeg, worker, workQ, built, events, publisher, inflight, compact, status,
                         view, pins>>
        BY DEF SyncWal, seqVars, flushVars, compVars, ctlVars
    <1>2. Durable' = Durable \cup unsynced /\ Durable' = committed
        BY <1>1 DEF Durable, RecoveryInv, StoredIsCommitted
    <1>3. Newer(unsynced, Durable)
        BY DEF DataInv, HistoryKept
    <1>4. DiskSound' /\ wal'[activeGen] = wal[activeGen] \cup unsynced
          /\ \A g \in Gens : g # activeGen => wal'[g] = wal[g]
        <2>1. unsynced \subseteq Versions /\ ListedSegmentsExist'
            BY DEF TypeOK, MemTypeOK, PipelineInv, DirectoriesExist
        <2>2. QED
            BY <1>1, <1>2, <1>3, <2>1, DiskGrows
    <1>5. HistoryKept'
        <2>1. \A v \in Durable' : v.id < manifest'.nextId \/ \E w \in Replayed' : v.id <= w.id
            <3>1. \A v : v \in Replayed' <=> v \in Replayed \/ v \in unsynced
                BY <1>1, ReplayedGrows
            <3>2. \A v \in unsynced : v.id <= v.id
                BY DEF TypeOK, MemTypeOK, Versions, Ids
            <3>3. QED
                BY <1>1, <1>2, <3>1, <3>2 DEF DataInv, HistoryKept
        <2>2. Newer(unsynced', Durable')
            BY <1>1 DEF Newer
        <2>3. QED
            BY <1>1, <2>1, <2>2 DEF DataInv, HistoryKept
    <1>6. /\ Items(workQ)' = Items(workQ) /\ Items(built)' = Items(built) /\ Adopting' = Adopting
          /\ Unpublished' = Unpublished /\ Published' = Published
        BY <1>1 DEF Unpublished, Published, Adopting, Items
    <1>7. OrderKept'
        BY <1>1, <1>6 DEF DataInv, OrderKept, GensOf, SegsOf
    <1>8. CopiesAgree'
        <2>1. activeGen < manifest.nextGen /\ activeGen \notin manifest.pending
              /\ manifest.pending \subseteq Gens /\ activeGen \in Nat /\ manifest.nextGen \in Nat
            BY <1>1, ViewTypes, CountersAreNat DEF RecoveryInv, RunningIsAhead, GenerationsDistinct, Gens
        <2>2. \A g \in Gens : g >= manifest.nextGen => wal'[g] = {}
            BY <1>4, <2>1 DEF DataInv, CopiesAgree
        <2>3. mem' = wal'[activeGen'] \cup unsynced' /\ \A g \in manifest.pending : frozen'[g] = wal'[g]
            BY <1>1, <1>4, <2>1 DEF DataInv, CopiesAgree
        <2>4. QED
            BY <1>1, <1>6, <2>2, <2>3 DEF DataInv, CopiesAgree
    <1>9. \A x : Written(x)' <=> Written(x)
        BY <1>1, <1>6 DEF Written
    <1>10. CoreSound' /\ ViewSound'
        BY <1>1, <1>9 DEF DataInv, CoreSound, ViewSound, Kept
    <1>11. PinsSound'
        BY <1>1, <1>9 DEF DataInv, PinsSound, PinSound, PinMem, Kept
    <1>12. QED
        BY <1>1, <1>4, <1>5, <1>7, <1>8, <1>10, <1>11 DEF DataInv, PlainOptions

\* The process ends: what is left is the disk.
LEMMA DataGone ==
    ASSUME DataInv, MemoryLost, HistoryKept', DiskSound', \A g \in Gens : g >= manifest'.nextGen => wal'[g] = {}
    PROVE  DataInv'
    <1>1. /\ status' = "closed" /\ compact' = {} /\ inflight' = {} /\ worker' = "none"
          /\ workQ' = <<>> /\ built' = <<>> /\ events' = <<>> /\ publisher' = {}
          /\ pins' = [r \in Readers |-> {}]
        BY DEF MemoryLost
    <1>2. Items(<<>>) = {}
        BY DEF Items
    <1>3. Unpublished' = {} /\ Published' = {}
        BY <1>1, <1>2 DEF Unpublished, Published, Adopting
    <1>4. OrderKept'
        BY <1>1, <1>3 DEF OrderKept, GensOf, SegsOf
    <1>5. CopiesAgree' /\ CoreSound' /\ ViewSound'
        BY <1>1 DEF CopiesAgree, CoreSound, ViewSound
    <1>6. PinsSound'
        BY <1>1 DEF PinsSound
    <1>7. QED
        BY <1>1, <1>4, <1>5, <1>6 DEF DataInv, PlainOptions

\* A crash keeps a prefix of what was not fsynced.
LEMMA DataCrash ==
    ASSUME TypeOK, RecoveryInv, PipelineInv, DataInv, TypeOK', PipelineInv', Crash
    PROVE  DataInv'
    <1>1. PICK n \in 0..MaxSeq :
              LET kept == {v \in unsynced : v.seq <= n}
              IN /\ wal' = [wal EXCEPT ![activeGen] = @ \cup kept]
                 /\ committed' = committed \ (unsynced \ kept)
        BY DEF Crash
    <1> DEFINE kept == {v \in unsynced : v.seq <= n}
    <1>2. /\ status # "closed" /\ MemoryLost /\ UNCHANGED <<manifest, segDirs, segData>>
          /\ unsynced' = {} /\ status' = "closed"
        BY DEF Crash, MemoryLost
    <1>3. /\ wal' = [wal EXCEPT ![activeGen] = @ \cup kept]
          /\ committed' = committed \ (unsynced \ kept) /\ kept \subseteq unsynced
        BY <1>1
    <1> HIDE DEF kept
    <1>4. Durable' = Durable \cup kept /\ Durable' = committed' /\ committed' \subseteq committed
        BY <1>2, <1>3 DEF Durable, RecoveryInv, StoredIsCommitted
    <1>5. Newer(kept, Durable)
        BY <1>3 DEF DataInv, HistoryKept, Newer
    <1>6. kept \subseteq Versions /\ ListedSegmentsExist'
        BY <1>3 DEF TypeOK, MemTypeOK, PipelineInv, DirectoriesExist
    <1>7. DiskSound' /\ wal'[activeGen] = wal[activeGen] \cup kept
          /\ \A g \in Gens : g # activeGen => wal'[g] = wal[g]
        BY <1>2, <1>3, <1>4, <1>5, <1>6, DiskGrows
    <1>8. HistoryKept'
        <2>1. \A v \in Durable' : v.id < manifest'.nextId \/ \E w \in Replayed' : v.id <= w.id
            <3>1. \A v : v \in Replayed' <=> v \in Replayed \/ v \in kept
                BY <1>2, <1>3, ReplayedGrows
            <3>2. \A v \in kept : v.id <= v.id
                BY <1>6 DEF Versions, Ids
            <3>3. QED
                BY <1>2, <1>4, <3>1, <3>2 DEF DataInv, HistoryKept
        <2>2. Newer(unsynced', Durable')
            BY <1>2 DEF Newer
        <2>3. History(committed')
            BY <1>4 DEF DataInv, HistoryKept, History
        <2>4. QED
            BY <1>2, <2>1, <2>2, <2>3 DEF HistoryKept
    <1>9. \A g \in Gens : g >= manifest'.nextGen => wal'[g] = {}
        <2>1. activeGen < manifest.nextGen /\ activeGen \in Nat /\ manifest.nextGen \in Nat
            BY <1>2, ViewTypes, CountersAreNat DEF RecoveryInv, RunningIsAhead, GenerationsDistinct, Gens
        <2>2. QED
            BY <1>2, <1>7, <2>1 DEF DataInv, CopiesAgree
    <1>10. QED
        BY <1>2, <1>7, <1>8, <1>9, DataGone

\* A clean shutdown fsyncs everything.
LEMMA DataCloseFinish ==
    ASSUME TypeOK, RecoveryInv, PipelineInv, DataInv, TypeOK', PipelineInv', CloseFinish
    PROVE  DataInv'
    <1>1. /\ status # "closed" /\ MemoryLost /\ UNCHANGED <<segDirs, segData, committed>>
          /\ wal' = [wal EXCEPT ![activeGen] = @ \cup unsynced]
          /\ unsynced' = {} /\ status' = "closed"
        BY DEF CloseFinish, MemoryLost
    <1>2. /\ manifest'.pending = manifest.pending /\ manifest'.active = manifest.active
          /\ manifest'.segments = manifest.segments /\ manifest'.nextGen = manifest.nextGen
          /\ manifest'.nextId = Larger(manifest.nextId, nextId)
        BY <1>1 DEF CloseFinish, TypeOK, DiskTypeOK, Manifests, RecoveryInv, RunningIsAhead
    <1>3. Durable' = Durable \cup unsynced /\ Durable' = committed
        BY <1>1 DEF Durable, RecoveryInv, StoredIsCommitted
    <1>4. unsynced \subseteq Versions /\ ListedSegmentsExist' /\ Newer(unsynced, Durable)
        BY DEF TypeOK, MemTypeOK, PipelineInv, DirectoriesExist, DataInv, HistoryKept
    <1>5. DiskSound' /\ wal'[activeGen] = wal[activeGen] \cup unsynced
          /\ \A g \in Gens : g # activeGen => wal'[g] = wal[g]
        BY <1>1, <1>2, <1>3, <1>4, DiskGrows
    <1>6. HistoryKept'
        <2>1. \A v \in committed : v.id < nextId /\ v.id \in Nat
            BY <1>1 DEF DataInv, HistoryKept, TypeOK, CountersTypeOK, Versions, Ids
        <2>2. manifest'.nextId >= nextId /\ manifest'.nextId \in Nat /\ nextId \in Nat
            BY <1>2, CountersAreNat, LargerIsMax
        <2>3. \A v \in Durable' : v.id < manifest'.nextId
            BY <1>3, <2>1, <2>2
        <2>4. Newer(unsynced', Durable')
            BY <1>1 DEF Newer
        <2>5. QED
            BY <1>1, <2>3, <2>4 DEF DataInv, HistoryKept
    <1>7. \A g \in Gens : g >= manifest'.nextGen => wal'[g] = {}
        <2>1. activeGen < manifest.nextGen /\ activeGen \in Nat /\ manifest.nextGen \in Nat
            BY <1>1, ViewTypes, CountersAreNat DEF RecoveryInv, RunningIsAhead, GenerationsDistinct, Gens
        <2>2. QED
            BY <1>2, <1>5, <2>1 DEF DataInv, CopiesAgree
    <1>8. QED
        BY <1>1, <1>5, <1>6, <1>7, DataGone


-----------------------------------------------------------------------------
(* Opening and compaction *)

\* open(): the core continues from exactly what the disk holds.
LEMMA DataOpen ==
    ASSUME TypeOK, RecoveryInv, PipelineInv, DataInv, TypeOK', RecoveryInv', PipelineInv', Open
    PROVE  DataInv'
    <1>1. /\ status = "closed" /\ status' = "open" /\ unsynced = {}
          /\ publisher = {} /\ compact = {} /\ worker = "none" /\ events = <<>>
          /\ workQ = <<>> /\ built = <<>> /\ inflight = {}
        BY DEF Open, RecoveryInv, ClosedIsEmpty, PipelineInv, WorkersStopped
    <1>2. /\ publisher' = {} /\ compact' = {} /\ worker' = "none" /\ events' = <<>>
          /\ workQ' = <<>> /\ built' = <<>> /\ inflight' = {} /\ unsynced' = {}
          /\ UNCHANGED <<manifest, segData, committed, pins>>
          /\ segs' = DiskSegments /\ imm' = DiskEpochs /\ mem' = wal[manifest.active]
          /\ activeGen' = manifest.active
          /\ frozen' = [g \in Gens |-> IF g \in manifest.pending THEN wal[g] ELSE {}]
          /\ wal' = [g \in Gens |-> IF g \in manifest.pending \cup {manifest.active} THEN wal[g] ELSE {}]
          /\ view' = RebuildSources(engineSeq', imm', segs')
        BY <1>1 DEF Open, flushVars, compVars
    <1>3. Items(<<>>) = {} /\ Len(<<>>) = 0
        BY DEF Items
    <1>4. Unpublished' = {} /\ Published' = {} /\ Adopting' = {} /\ Items(built)' = {} /\ Items(workQ)' = {}
        BY <1>2, <1>3 DEF Unpublished, Published, Adopting
    <1>5. /\ manifest.active \in Gens /\ manifest.pending \subseteq Gens
          /\ \A g \in manifest.pending \cup {manifest.active} : wal'[g] = wal[g]
          /\ \A g \in manifest.pending : frozen'[g] = wal[g]
          /\ \A g \in Gens : wal'[g] \subseteq wal[g]
        BY <1>2, ViewTypes
    <1>6. Durable = committed /\ Durable' = committed
        BY <1>1, <1>2 DEF Durable
    <1>7. HistoryKept'
        <2>1. \A v : v \in Replayed' <=> v \in Replayed
            BY <1>2, <1>5, ReplayedMembers, ReplayedMembersNext
        <2>2. \A v \in committed : v.id < nextId'
            <3>1. IsMax(nextId', {manifest.nextId} \cup {v.id + 1 : v \in Replayed}) /\ nextId' \in Nat
                BY DEF Open
            <3>2. nextId' >= manifest.nextId /\ \A w \in Replayed : nextId' >= w.id + 1
                BY <3>1 DEF IsMax
            <3>3. Replayed \subseteq Versions /\ committed \subseteq Versions
                BY <1>5 DEF Replayed, TypeOK, DiskTypeOK, CountersTypeOK
            <3>4. \A v \in committed : v.id < manifest.nextId \/ \E w \in Replayed : v.id <= w.id
                BY <1>6 DEF DataInv, HistoryKept
            <3>5. QED
                BY <3>1, <3>2, <3>3, <3>4, CountersAreNat DEF Versions, Ids
        <2>3. Newer(unsynced', Durable')
            BY <1>2 DEF Newer
        <2>4. QED
            BY <1>2, <1>6, <2>1, <2>2, <2>3 DEF DataInv, HistoryKept
    <1>8. OrderKept'
        BY <1>2, <1>4 DEF OrderKept, GensOf, SegsOf
    <1>9. CopiesAgree'
        <2>1. \A g \in Gens : g >= manifest'.nextGen => wal'[g] = {}
            BY <1>2, <1>5 DEF DataInv, CopiesAgree
        <2>2. QED
            BY <1>2, <1>4, <1>5, <2>1 DEF CopiesAgree
    <1>10. DiskSegments' = DiskSegments /\ DiskEpochs' = DiskEpochs /\ DiskEpochs.ids = manifest.pending
           /\ DiskSegments.ids = manifest.segments.ids
        BY <1>2, DiskSegmentsListed, DiskSegmentsListedNext DEF PipelineInv, DirectoriesExist, DiskEpochs
    <1>11. Snapshot(wal[manifest.active], wal, DiskEpochs, segData, DiskSegments, MaxSeq, committed)
        BY <1>6 DEF DataInv, DiskSound
    <1>12. DiskSound'
        <2>1. \A g \in DiskEpochs.ids : wal'[g] = wal[g]
            BY <1>5, <1>10
        <2>2. Snapshot(wal[manifest.active], wal', DiskEpochs, segData, DiskSegments, MaxSeq, committed)
            BY <1>11, <2>1, SnapshotSame
        <2>3. wal'[manifest'.active] = wal[manifest.active]
            BY <1>2, <1>5
        <2>4. QED
            BY <1>2, <1>6, <1>10, <2>2, <2>3 DEF DiskSound
    <1>13. Snapshot(mem', frozen', imm', segData', segs', engineSeq', committed')
        <2>1. \A v \in committed : v.seq <= MaxSeq /\ v.seq <= engineSeq'
            <3>1. \A v \in committed' : v.seq <= engineSeq'
                BY <1>1 DEF RecoveryInv, RunningIsAhead
            <3>2. QED
                BY <1>2, <3>1, ConstantsAssumption DEF TypeOK, CountersTypeOK, Versions, Seqs
        <2>2. engineSeq' \in Nat /\ MaxSeq \in Nat /\ committed \in SUBSET Versions
            BY ConstantsAssumption DEF TypeOK, CountersTypeOK
        <2>3. Snapshot(wal[manifest.active], wal, DiskEpochs, segData, DiskSegments, engineSeq', committed)
            BY <1>11, <2>1, <2>2, SnapshotEnd
        <2>4. \A g \in DiskEpochs.ids : frozen'[g] = wal[g]
            BY <1>5, <1>10
        <2>5. Snapshot(wal[manifest.active], frozen', DiskEpochs, segData, DiskSegments, engineSeq', committed)
            BY <2>3, <2>4, SnapshotSame
        <2>6. QED
            BY <1>2, <2>5
    <1>14. CoreSound'
        BY <1>13 DEF CoreSound
    <1>15. ViewSound'
        <2>1. view'.seq = engineSeq' /\ view'.imm = imm' /\ view'.segs = segs'
            BY <1>2 DEF RebuildSources
        <2>2. \A g \in imm'.ids : g < activeGen'
            BY <1>2, <1>10 DEF PipelineInv, EpochsAccounted
        <2>3. \A x \in segs'.ids : x < nextSeg'
            BY <1>1, <1>2, <1>10 DEF PipelineInv, SegmentsAccounted
        <2>4. \A x \in segs'.ids : Written(x)'
            BY <1>4, <2>3 DEF Written, SegsOf
        <2>5. QED
            BY <1>13, <2>1, <2>2, <2>4 DEF ViewSound, Kept
    <1>16. PinsSound'
        BY <1>1, <1>2 DEF DataInv, PinsSound
    <1>17. QED
        BY <1>2, <1>7, <1>8, <1>9, <1>12, <1>14, <1>15, <1>16 DEF DataInv, PlainOptions

\* compact(): one segment takes the place of all, on disk, in the core and in the view.
LEMMA DataCompact ==
    ASSUME TypeOK, RecoveryInv, PipelineInv, DataInv, TypeOK', PipelineInv', Compact
    PROVE  DataInv'
    <1>1. /\ CompactEnabled /\ status = "open" /\ mem = {} /\ imm.ids = {}
          /\ segData' = [segData EXCEPT ![nextSeg] = Compacted(segs)]
          /\ manifest' = CompactedManifest(segs, nextSeg) /\ segs' = [ids |-> {nextSeg}, before |-> {}]
          /\ view' = RebuildSources(engineSeq, imm, segs') /\ nextSeg' = nextSeg + 1 /\ nextSeg <= MaxSeg
          /\ UNCHANGED <<wal, engineSeq, nextId, committed, mem, unsynced, activeGen, imm, frozen, worker,
                         workQ, built, events, publisher, inflight, compact, status, pins>>
        BY DEF Compact, CompactEnabled, CoordinatorFree, seqVars, memVars, flushVars, ctlVars
    <1>2. /\ status # "closed" /\ Unpublished = {} /\ Published = {} /\ compact = {}
          /\ manifest.segments.ids = segs.ids
        BY <1>1, QuietPipeline
    <1>3. /\ Unpublished' = {} /\ Published' = {} /\ Items(built)' = {} /\ Items(workQ)' = {}
          /\ publisher' = {} /\ Adopting' = {}
        <2>1. /\ Unpublished' = Unpublished /\ Published' = Published /\ Items(built)' = Items(built)
              /\ publisher' = publisher /\ Items(workQ)' = Items(workQ) /\ Adopting' = Adopting
            BY <1>1 DEF Unpublished, Published, Adopting, Items
        <2>2. Items(built) = {} /\ Items(workQ) = {} /\ publisher = {} /\ Adopting = {}
            BY <1>2 DEF Unpublished, Published
        <2>3. QED
            BY <1>2, <2>1, <2>2
    <1>4. nextSeg \in SegIds /\ nextSeg \in Nat /\ segData \in [SegIds -> SUBSET Versions]
        BY <1>1, ConstantsAssumption DEF TypeOK, CountersTypeOK, DiskTypeOK, SegIds
    <1>5. segData'[nextSeg] = Compacted(segs) /\ \A x \in SegIds : x < nextSeg => segData'[x] = segData[x]
        BY <1>1, <1>4
    <1>6. /\ manifest'.pending = manifest.pending /\ manifest'.active = manifest.active
          /\ manifest'.nextGen = manifest.nextGen /\ manifest'.nextId = Larger(manifest.nextId, nextId)
          /\ manifest'.segments = ReplaceInputs(manifest.segments, segs, nextSeg)
        BY <1>1, ManifestFields, ReplacedIds
    <1>7. mem = {} /\ unsynced = {} /\ wal[manifest.active] = {} /\ manifest.pending = {}
        BY <1>1, <1>2 DEF DataInv, CopiesAgree, RecoveryInv, RunningIsAhead, PipelineInv, EpochsAccounted
    <1>8. HistoryKept'
        <2>1. \A v \in committed : v.id < nextId /\ v.id \in Nat
            BY <1>2 DEF DataInv, HistoryKept, TypeOK, CountersTypeOK, Versions, Ids
        <2>2. manifest'.nextId >= nextId /\ manifest'.nextId \in Nat /\ nextId \in Nat
            BY <1>6, CountersAreNat, LargerIsMax
        <2>3. Durable' = Durable /\ Durable \subseteq committed
            BY <1>1 DEF Durable
        <2>4. \A v \in Durable' : v.id < manifest'.nextId
            BY <2>1, <2>2, <2>3
        <2>5. QED
            BY <1>1, <2>3, <2>4 DEF DataInv, HistoryKept
    <1>9. OrderKept'
        BY <1>1, <1>3, <1>6, <1>7 DEF DataInv, OrderKept, GensOf, SegsOf
    <1>10. CopiesAgree'
        BY <1>1, <1>3, <1>6, <1>7 DEF DataInv, CopiesAgree
    <1>11. Snapshot({}, frozen, imm, segData', segs', engineSeq, committed)
        <2>1. Snapshot({}, frozen, imm, segData, segs, engineSeq, committed) /\ History(committed)
            BY <1>2, <1>7 DEF DataInv, CoreSound, HistoryKept
        <2>2. \A v \in committed : v.seq <= engineSeq
            BY <1>2 DEF RecoveryInv, RunningIsAhead
        <2>3. QED
            BY <1>1, <1>4, <1>5, <2>1, <2>2, ViewTypes, SnapshotCompact
    <1>12. DiskSound'
        <2>1. DiskSegments' = [ids |-> {nextSeg}, before |-> {}]
            <3>1. Descending(DiskSegments) /\ DiskSegments = Reversed(manifest.segments)
                BY DiskSegmentsListed DEF DataInv, DiskSound, Snapshot, PipelineInv, DirectoriesExist
            <3>2. \A p \in manifest.segments.before : p[2] \in segs.ids
                <4>1. \A p \in manifest.segments.before : <<p[2], p[1]>> \in segs.ids \X segs.ids
                    BY <1>2, <3>1 DEF Reversed, Descending
                <4>2. QED
                    BY <4>1
            <3>3. Without(manifest.segments, segs.ids) = EmptyIds
                BY <1>2, <3>2 DEF Without, EmptyIds
            <3>4. PushBack(EmptyIds, nextSeg) = [ids |-> {nextSeg}, before |-> {}]
                BY DEF PushBack, EmptyIds
            <3>5. Reversed([ids |-> {nextSeg}, before |-> {}]) = [ids |-> {nextSeg}, before |-> {}]
                BY DEF Reversed
            <3>6. DiskSegments' = Reversed(manifest'.segments)
                BY DiskSegmentsListedNext DEF PipelineInv, DirectoriesExist
            <3>7. QED
                BY <1>6, <3>3, <3>4, <3>5, <3>6 DEF ReplaceInputs
        <2>2. DiskSegments = segs
            <3>1. Descending(DiskSegments) /\ DiskSegments.ids = segs.ids
                BY <1>2, DiskSegmentsListed DEF DataInv, DiskSound, Snapshot, PipelineInv, DirectoriesExist
            <3>2. Descending(segs)
                BY <1>2 DEF DataInv, CoreSound, Snapshot
            <3>3. DiskSegments.before = segs.before
                BY <3>1, <3>2 DEF Descending
            <3>4. segs = [ids |-> segs.ids, before |-> segs.before]
                BY DEF TypeOK, CompactTypeOK, IdLists
            <3>5. DiskSegments = [ids |-> DiskSegments.ids, before |-> DiskSegments.before]
                BY DEF DiskSegments, Reversed
            <3>6. QED
                BY <3>1, <3>3, <3>4, <3>5
        <2>3. DiskEpochs' = DiskEpochs /\ DiskEpochs.ids = {} /\ Durable' = Durable
            BY <1>1, <1>6, <1>7 DEF DiskEpochs, Durable
        <2>4. Snapshot({}, wal, DiskEpochs, segData, segs, MaxSeq, Durable)
            BY <1>7, <2>2 DEF DataInv, DiskSound
        <2>5. History(Durable) /\ \A v \in Durable : v.seq <= MaxSeq
            BY ConstantsAssumption DEF DataInv, HistoryKept, History, Durable, Versions, Seqs
        <2>6. Snapshot({}, wal, DiskEpochs, segData', DiskSegments', MaxSeq, Durable)
            BY <1>4, <1>5, <2>1, <2>3, <2>4, <2>5, ViewTypes, SnapshotCompact
        <2>7. wal'[manifest'.active] = {} /\ wal' = wal
            BY <1>1, <1>6, <1>7
        <2>8. QED
            BY <2>3, <2>6, <2>7 DEF DiskSound
    <1>13. CoreSound'
        BY <1>1, <1>7, <1>11 DEF CoreSound
    <1>14. ViewSound'
        <2>1. view'.seq = engineSeq /\ view'.imm = imm /\ view'.segs = segs' /\ segs'.ids = {nextSeg}
            BY <1>1 DEF RebuildSources
        <2>2. \A x \in segs'.ids : Written(x)'
            BY <1>1, <1>3, <1>4, <2>1 DEF Written, SegsOf
        <2>3. QED
            BY <1>1, <1>7, <1>11, <2>1, <2>2 DEF ViewSound, Kept
    <1>15. \A x \in SegIds : Written(x) => Written(x)' /\ segData'[x] = segData[x]
        BY <1>1, <1>3, <1>4, <1>5 DEF Written, SegsOf, SegIds
    <1>16. PinsSound'
        <2>1. SUFFICES ASSUME NEW r \in Readers, NEW p \in pins[r] PROVE PinSound(p)'
            BY <1>1 DEF PinsSound
        <2>2. /\ Kept(p.imm, p.segs) /\ p.seq <= engineSeq
              /\ Snapshot(PinMem(p), frozen, p.imm, segData, p.segs, p.seq, committed)
            BY DEF DataInv, PinsSound, PinSound
        <2>3. /\ Snapshot(PinMem(p), frozen', p.imm, segData', p.segs, p.seq, committed')
              /\ \A x \in p.segs.ids : Written(x)'
            BY <1>1, <1>15, <2>2, KeptSame, ViewTypes DEF Kept
        <2>4. PinMem(p)' = PinMem(p)
            BY <1>1 DEF PinMem
        <2>5. QED
            BY <1>1, <2>2, <2>3, <2>4 DEF PinSound, Kept
    <1>17. QED
        BY <1>1, <1>2, <1>8, <1>9, <1>10, <1>12, <1>13, <1>14, <1>16 DEF DataInv, PlainOptions


-----------------------------------------------------------------------------
(* Commits and freezes *)

\* A commit extends the history: only records that are live, or new, are put, so a deleted
\* one is never written again.
LEMMA CommitExtends ==
    ASSUME TypeOK, RecoveryInv, PipelineInv, DataInv, status # "closed", engineSeq < MaxSeq,
           NEW P \in SUBSET Ids, NEW D \in SUBSET Ids, NEW n \in nextId..(MaxId + 1), Planned(P, D, n)
    PROVE  /\ NewVersions(P, D) \subseteq Versions /\ NewVersions(P, D) \cap committed = {}
           /\ Newer(NewVersions(P, D), committed) /\ History(committed \cup NewVersions(P, D))
           /\ \A v \in NewVersions(P, D) : v.seq = engineSeq + 1 /\ v.id < n
    <1> DEFINE N == NewVersions(P, D)
    <1>1. N \subseteq Versions /\ N \cap committed = {} /\ \A v \in N : v.seq = engineSeq + 1
        BY NewVersionsFresh
    <1>2. engineSeq \in Nat /\ n \in Nat /\ nextId \in Nat /\ n >= nextId
        BY CountersAreNat, ConstantsAssumption
    <1>3. \A v \in committed : v.seq <= engineSeq /\ v.seq \in Nat /\ v.id < nextId /\ v.id \in Nat
        BY DEF RecoveryInv, RunningIsAhead, DataInv, HistoryKept, TypeOK, CountersTypeOK, Versions, Seqs, Ids
    <1>4. \A v \in N : \/ v.id \in P /\ v = [id |-> v.id, seq |-> engineSeq + 1, del |-> FALSE]
                       \/ v.id \in D /\ v = [id |-> v.id, seq |-> engineSeq + 1, del |-> TRUE]
        BY DEF NewVersions
    <1>5. P \cap D = {} /\ P \ LiveIds = nextId..(n - 1) /\ \A i \in D : i < nextId
        BY DEF Planned, DataInv, PlainOptions
    <1> HIDE DEF N
    <1>6. Newer(N, committed)
        BY <1>1, <1>2, <1>3 DEF Newer
    <1>7. \A v \in N : v.id < n
        <2>1. \A i \in P : i < n /\ i \in Nat
            <3>1. \A i \in P : i \in LiveIds => i < nextId
                BY LiveIdsKnown
            <3>2. QED
                BY <1>2, <1>5, <3>1 DEF Ids
        <2>2. \A i \in D : i < n
            BY <1>2, <1>5 DEF Ids
        <2>3. QED
            BY <1>4, <2>1, <2>2
    <1>8. \A i \in P : \A v \in committed : v.id = i => ~v.del
        <2>1. SUFFICES ASSUME NEW i \in P, NEW v \in committed, v.id = i, v.del PROVE FALSE
            OBVIOUS
        <2>2. i \in LiveIds
            BY <1>2, <1>3, <1>5, <2>1
        <2>3. Live(CoreFind(i)) # {}
            BY <2>2 DEF LiveIds
        <2>4. Live(CoreFind(i)) = Live(Latest(committed, i, engineSeq))
            BY SnapshotReads, ViewTypes DEF CoreFind, DataInv, CoreSound, HistoryKept
        <2>5. PICK u \in Latest(committed, i, engineSeq) : ~u.del
            BY <2>3, <2>4 DEF Live
        <2>6. u \in committed /\ u.id = i /\ v.seq <= u.seq
            BY <1>3, <2>1, <2>5 DEF Latest
        <2>7. u.seq < v.seq
            BY <2>1, <2>5, <2>6 DEF DataInv, HistoryKept, History
        <2>8. QED
            BY <1>3, <2>6, <2>7
    <1>9. History(committed \cup N)
        <2>1. History(committed)
            BY DEF DataInv, HistoryKept
        <2>2. ASSUME NEW v \in committed \cup N, NEW w \in committed \cup N, v.id = w.id, v.seq = w.seq
              PROVE  v = w
            <3>1. CASE v \in N /\ w \in N
                BY <1>4, <1>5, <2>2, <3>1
            <3>2. CASE v \in committed /\ w \in committed
                BY <2>1, <2>2, <3>2 DEF History
            <3>3. ~(v \in N /\ w \in committed) /\ ~(w \in N /\ v \in committed)
                BY <1>1, <1>2, <1>3, <2>2
            <3>4. QED
                BY <3>1, <3>2, <3>3
        <2>3. ASSUME NEW v \in committed \cup N, NEW w \in committed \cup N, v.id = w.id, v.del, ~w.del
              PROVE  w.seq < v.seq
            <3>1. CASE v \in N
                <4>1. w \notin N
                    BY <1>4, <1>5, <2>3, <3>1
                <4>2. QED
                    BY <1>6, <3>1, <4>1 DEF Newer
            <3>2. CASE v \in committed
                <4>1. w \notin N
                    BY <1>4, <1>8, <2>3, <3>2
                <4>2. QED
                    BY <2>1, <2>3, <3>2, <4>1 DEF History
            <3>3. QED
                BY <3>1, <3>2
        <2>4. committed \cup N \subseteq Versions
            BY <1>1 DEF TypeOK, CountersTypeOK
        <2>5. QED
            BY <2>2, <2>3, <2>4 DEF History
    <1>10. QED
        BY <1>1, <1>6, <1>7, <1>9 DEF N

\* The pins of a step that commits the versions N: none of them sees one.
LEMMA PinsStay ==
    ASSUME TypeOK, DataInv, NEW N, N \subseteq Versions, Newer(N, committed), \A v \in N : engineSeq < v.seq,
           NEW r \in Readers, NEW p \in pins[r], NEW A, A \subseteq N
    PROVE  /\ Kept(p.imm, p.segs) /\ p.seq <= engineSeq
           /\ Snapshot(PinMem(p) \cup A, frozen, p.imm, segData, p.segs, p.seq, committed \cup N)
    <1>1. /\ Kept(p.imm, p.segs) /\ p.seq <= engineSeq
          /\ Snapshot(PinMem(p), frozen, p.imm, segData, p.segs, p.seq, committed)
        BY DEF DataInv, PinsSound, PinSound
    <1>2. p.seq \in Nat /\ engineSeq \in Nat /\ committed \cup N \subseteq Versions
        BY ViewTypes DEF TypeOK, CountersTypeOK
    <1>3. \A v \in N : p.seq < v.seq
        BY <1>1, <1>2 DEF Versions, Seqs
    <1>4. QED
        BY <1>1, <1>2, <1>3, SnapshotStays

\* The versions N continue the history up to sequence number s and ids below n.
Continues(N, s, n) ==
    /\ N \subseteq Versions /\ N \cap committed = {}
    /\ Newer(N, committed) /\ History(committed \cup N)
    /\ s \in Nat /\ n \in Nat /\ engineSeq <= s
    /\ \A v \in N : engineSeq < v.seq
    /\ \A v \in committed \cup N : v.seq <= s /\ v.id < n

LEMMA SmallerDiffer ==
    ASSUME NEW S, NEW a \in Nat, S \subseteq Gens, \A g \in S : g < a
    PROVE  \A g \in S : g \in Nat /\ g # a
    BY ConstantsAssumption DEF Gens

\* The list k with epoch g, which holds M, in front of l, whose epochs keep their versions.
EpochInFront(M, F, l, G, k, g) ==
    /\ l.ids \subseteq Gens /\ g \in Gens /\ \A h \in l.ids : h < g
    /\ G[g] = M /\ \A h \in l.ids : G[h] = F[h]
    /\ k.ids = l.ids \cup {g} /\ Descending(k)

LEMMA SnapshotFrozen ==
    ASSUME NEW M, NEW F, NEW l, NEW S, NEW t, NEW s, NEW V, NEW G, NEW k, NEW g,
           EpochInFront(M, F, l, G, k, g), Snapshot(M, F, l, S, t, s, V)
    PROVE  Snapshot({}, G, k, S, t, s, V)
    BY SnapshotFreeze DEF EpochInFront

\* freeze_memtable, with the versions N committed just before (none, if the freeze is not the
\* end of a commit): on disk and in the core the memtable becomes the newest epoch.
LEMMA DataFreeze ==
    ASSUME TypeOK, RecoveryInv, PipelineInv, DataInv, TypeOK', PipelineInv',
           status # "closed", status' # "closed", status' = "open" => status = "open",
           NEW N, NEW s, NEW n, Continues(N, s, n),
           NEW M, M = mem \cup N, FreezeMemtable(M, s, n),
           engineSeq' = s, nextId' = n, committed' = committed \cup N,
           UNCHANGED <<segData, segs, nextSeg, flushVars, compact>>
    PROVE  DataInv'
    <1>1. /\ wal' = [wal EXCEPT ![activeGen] = @ \cup unsynced \cup (M \ mem)]
          /\ unsynced' = {} /\ activeGen' = manifest.nextGen /\ mem' = {}
          /\ frozen' = [frozen EXCEPT ![activeGen] = M] /\ imm' = PushFront(imm, activeGen)
          /\ view' = RebuildSources(s, imm', segs)
          /\ pins' = [r \in Readers |->
                        {IF p.live THEN [p EXCEPT !.live = FALSE, !.mem = M] ELSE p : p \in pins[r]}]
          /\ UNCHANGED <<segData, segs, nextSeg, worker, workQ, built, events, publisher, inflight, compact>>
        BY DEF FreezeMemtable, flushVars
    <1>2. /\ manifest'.pending = manifest.pending \cup {activeGen} /\ manifest'.active = manifest.nextGen
          /\ manifest'.nextGen = manifest.nextGen + 1 /\ manifest'.segments = manifest.segments
          /\ manifest'.nextId = Larger(manifest.nextId, n)
        BY DEF FreezeMemtable, TypeOK, DiskTypeOK, Manifests
    <1>3. /\ manifest.active = activeGen /\ activeGen \notin manifest.pending /\ activeGen < manifest.nextGen
          /\ activeGen \in Gens /\ manifest.nextGen \in Gens /\ manifest.pending \subseteq Gens
          /\ manifest.nextGen \in Nat /\ activeGen \in Nat /\ Gens \subseteq Nat
        <2>1. /\ manifest.active = activeGen /\ activeGen \notin manifest.pending
              /\ manifest.active < manifest.nextGen
            BY DEF RecoveryInv, RunningIsAhead, GenerationsDistinct
        <2>2. manifest.nextGen \in Nat /\ manifest.active \in Nat /\ manifest.active \in Gens
              /\ manifest.pending \subseteq Gens
            BY ViewTypes, CountersAreNat
        <2>3. manifest.nextGen <= MaxGen
            BY DEF FreezeMemtable
        <2>4. manifest.nextGen \in Gens /\ Gens \subseteq Nat
            BY <2>1, <2>2, <2>3, ConstantsAssumption DEF Gens
        <2>5. QED
            BY <2>1, <2>2, <2>4
    <1>4. mem = wal[activeGen] \cup unsynced /\ mem \subseteq committed /\ unsynced \subseteq committed
        BY DEF DataInv, CopiesAgree, RecoveryInv, StoredIsCommitted
    <1>5. /\ wal'[activeGen] = M /\ \A g \in Gens : g # activeGen => wal'[g] = wal[g]
          /\ frozen'[activeGen] = M /\ \A g \in Gens : g # activeGen => frozen'[g] = frozen[g]
        <2>1. wal \in [Gens -> SUBSET Versions] /\ frozen \in [Gens -> SUBSET Versions]
            BY DEF TypeOK, DiskTypeOK, MemTypeOK
        <2>2. wal[activeGen] \cup unsynced \cup (M \ mem) = M
            BY <1>4
        <2>3. QED
            BY <1>1, <1>3, <2>1, <2>2
    <1>6. /\ Items(workQ)' = Items(workQ) /\ Items(built)' = Items(built) /\ Adopting' = Adopting
          /\ Unpublished' = Unpublished /\ Published' = Published
        BY <1>1 DEF Unpublished, Published, Adopting, Items
    <1>7. \A x \in SegIds : Written(x)' <=> Written(x)
        BY <1>1, <1>6 DEF Written
    <1>8. Durable' = committed \cup N /\ Durable \subseteq committed
          /\ committed \cup N = Durable \cup (unsynced \cup N)
        BY <1>1, <1>4 DEF Durable
    <1>9. HistoryKept'
        <2>1. manifest'.nextId >= n /\ manifest'.nextId \in Nat
            BY <1>2, CountersAreNat, LargerIsMax DEF Continues
        <2>2. \A v \in committed \cup N : v.id \in Nat
            BY DEF TypeOK, CountersTypeOK, Continues, Versions, Ids
        <2>3. \A v \in Durable' : v.id < manifest'.nextId
            BY <1>8, <2>1, <2>2 DEF Continues
        <2>4. Newer(unsynced', Durable')
            BY <1>1 DEF Newer
        <2>5. QED
            BY <2>3, <2>4 DEF HistoryKept, Continues
    <1>10. OrderKept'
        <2>1. \A g \in imm.ids : g < activeGen /\ g # activeGen
            BY <1>3, JobTypes DEF PipelineInv, EpochsAccounted
        <2>2. inflight \cap manifest'.pending \subseteq inflight \cap manifest.pending
            BY <1>2, <2>1 DEF PipelineInv, EpochsAccounted
        <2>3. \A w \in publisher : w.gen \in imm.ids /\ w.gen \in Nat
            BY JobTypes DEF PipelineInv, EpochsAccounted, Unpublished, Published, GensOf
        <2>4. \A g \in GensOf(Published) : g \in imm.ids
            BY DEF PipelineInv, EpochsAccounted
        <2>5. \A w \in publisher : ~w.published => \A h \in manifest'.pending : w.gen <= h
            BY <1>2, <1>3, <2>1, <2>3 DEF DataInv, OrderKept
        <2>6. \A g \in GensOf(Published) : \A h \in manifest'.pending : g < h
            BY <1>2, <2>1, <2>4 DEF DataInv, OrderKept
        <2>7. QED
            BY <1>1, <1>6, <2>2, <2>5, <2>6 DEF DataInv, OrderKept
    <1>11. CopiesAgree'
        <2>1. \A g \in Gens : g >= manifest'.nextGen => wal'[g] = {}
            BY <1>2, <1>3, <1>5 DEF DataInv, CopiesAgree
        <2>2. wal'[activeGen'] = {}
            <3>1. manifest.nextGen # activeGen /\ manifest.nextGen >= manifest.nextGen
                BY <1>3
            <3>2. wal[manifest.nextGen] = {}
                BY <1>3, <3>1 DEF DataInv, CopiesAgree
            <3>3. QED
                BY <1>1, <1>3, <1>5, <3>1, <3>2
        <2>3. \A g \in manifest'.pending : frozen'[g] = wal'[g]
            BY <1>2, <1>3, <1>5 DEF DataInv, CopiesAgree
        <2>4. ASSUME NEW j \in Items(built) \cup publisher \cup Adopting
              PROVE  segData[j.seg] = Winners(frozen'[j.gen])
            <3>1. j.gen \in Gens /\ j.gen # activeGen
                BY <1>3, SegmentsWritten
            <3>2. QED
                BY <1>5, <3>1 DEF DataInv, CopiesAgree
        <2>5. QED
            BY <1>1, <1>6, <2>1, <2>2, <2>3, <2>4 DEF CopiesAgree
    <1>12. DiskSound'
        <2>1. DiskSegments' = DiskSegments
            BY <1>2, DiskSegmentsListed, DiskSegmentsListedNext DEF PipelineInv, DirectoriesExist
        <2>2. /\ DiskEpochs.ids = manifest.pending /\ DiskEpochs'.ids = manifest.pending \cup {activeGen}
              /\ Descending(DiskEpochs')
            BY <1>2 DEF DiskEpochs, Descending
        <2>3. Snapshot(wal[activeGen], wal, DiskEpochs, segData, DiskSegments, MaxSeq, Durable)
            BY <1>3 DEF DataInv, DiskSound
        <2>4. Newer(unsynced \cup N, Durable)
            BY <1>8 DEF DataInv, HistoryKept, Newer, Continues
        <2>5. Durable \cup (unsynced \cup N) \subseteq Versions /\ MaxSeq \in Nat /\ MaxSeq <= MaxSeq
            BY <1>8, ConstantsAssumption DEF TypeOK, CountersTypeOK, MemTypeOK, Continues
        <2>6. \A v \in Durable \cup (unsynced \cup N) : v.seq <= MaxSeq
            BY <2>5, ConstantsAssumption DEF Versions, Seqs
        <2>7. Snapshot(wal[activeGen] \cup (unsynced \cup N), wal, DiskEpochs, segData, DiskSegments, MaxSeq,
                       Durable \cup (unsynced \cup N))
            BY <2>3, <2>4, <2>5, <2>6, SnapshotGrows
        <2>8. wal[activeGen] \cup (unsynced \cup N) = M
            BY <1>4
        <2>9. Snapshot(M, wal, DiskEpochs, segData, DiskSegments, MaxSeq, committed \cup N)
            BY <1>8, <2>7, <2>8
        <2>10. \A h \in DiskEpochs.ids : h < activeGen /\ wal'[h] = wal[h]
            BY <1>3, <1>5, <2>2 DEF PipelineInv, EpochsAccounted
        <2>11. Snapshot({}, wal', DiskEpochs', segData, DiskSegments, MaxSeq, committed \cup N)
            <3>1. EpochInFront(M, wal, DiskEpochs, wal', DiskEpochs', activeGen)
                BY <1>3, <1>5, <2>2, <2>10 DEF EpochInFront
            <3>2. QED
                BY <2>9, <3>1, SnapshotFrozen
        <2>12. wal'[manifest'.active] = {}
            BY <1>2, <1>3, <1>5 DEF DataInv, CopiesAgree
        <2>13. QED
            BY <1>1, <1>8, <2>1, <2>11, <2>12 DEF DiskSound
    <1>13. Snapshot({}, frozen', imm', segData, segs, s, committed \cup N)
        <2>1. Snapshot(mem, frozen, imm, segData, segs, engineSeq, committed) /\ engineSeq \in Nat
            BY ViewTypes DEF DataInv, CoreSound
        <2>2. committed \cup N \subseteq Versions /\ \A v \in committed : v.seq <= engineSeq
            BY DEF TypeOK, CountersTypeOK, RecoveryInv, RunningIsAhead, Continues
        <2>3. Snapshot(M, frozen, imm, segData, segs, s, committed \cup N)
            BY <2>1, <2>2, SnapshotGrows DEF Continues
        <2>4. imm.ids \subseteq Gens /\ imm.ids \subseteq Nat /\ \A h \in imm.ids : h < activeGen
            BY <1>3, ViewTypes DEF PipelineInv, EpochsAccounted
        <2>5. \A h \in imm.ids : frozen'[h] = frozen[h]
            BY <1>3, <1>5, <2>4
        <2>6. imm'.ids = imm.ids \cup {activeGen} /\ Descending(imm')
            <3>1. Descending(imm)
                BY <2>1 DEF Snapshot
            <3>2. QED
                BY <1>1, <1>3, <2>4, <3>1, FrontDescending
        <2>7. QED
            <3>1. EpochInFront(M, frozen, imm, frozen', imm', activeGen)
                BY <1>3, <1>5, <2>4, <2>5, <2>6 DEF EpochInFront
            <3>2. QED
                BY <2>3, <3>1, SnapshotFrozen
    <1>14. CoreSound'
        BY <1>1, <1>13 DEF CoreSound
    <1>15. ViewSound'
        <2>1. view'.seq = s /\ view'.imm = imm' /\ view'.segs = segs
            BY <1>1 DEF RebuildSources
        <2>2. \A g \in imm'.ids : g < activeGen'
            BY DEF PipelineInv, EpochsAccounted
        <2>3. \A x \in segs.ids : Written(x)'
            BY <1>7, SegmentsWritten, ViewTypes
        <2>4. QED
            BY <1>1, <1>13, <2>1, <2>2, <2>3 DEF ViewSound, Kept
    <1>16. PinsSound'
        <2>1. SUFFICES ASSUME NEW r \in Readers, NEW q \in pins'[r] PROVE PinSound(q)'
            BY DEF PinsSound
        <2>2. PICK p \in pins[r] : q = IF p.live THEN [p EXCEPT !.live = FALSE, !.mem = M] ELSE p
            BY <1>1, <2>1
        <2>3. p \in Pins
            BY DEF TypeOK, ReaderTypeOK
        <2>4. PICK A : A \subseteq N /\ q.mem = PinMem(p) \cup A
            <3>1. CASE p.live
                <4>1. q.mem = mem \cup N /\ PinMem(p) = mem
                    BY <2>2, <2>3, <3>1 DEF PinMem, Pins
                <4>2. QED
                    BY <4>1
            <3>2. CASE ~p.live
                <4>1. q.mem = PinMem(p) \cup {}
                    BY <2>2, <3>2 DEF PinMem
                <4>2. QED
                    BY <4>1
            <3>3. QED
                BY <3>1, <3>2
        <2>5. q.imm = p.imm /\ q.segs = p.segs /\ q.seq = p.seq /\ ~q.live
            BY <2>2, <2>3 DEF Pins
        <2>6. /\ Kept(p.imm, p.segs) /\ p.seq <= engineSeq
              /\ Snapshot(PinMem(p) \cup A, frozen, p.imm, segData, p.segs, p.seq, committed \cup N)
            BY <2>4, PinsStay DEF Continues
        <2>7. p.imm.ids \subseteq Gens /\ p.segs.ids \subseteq SegIds /\ p.seq \in Nat /\ engineSeq \in Nat
            BY ViewTypes
        <2>8. \A g \in p.imm.ids : g \in Nat /\ g < activeGen /\ frozen'[g] = frozen[g]
            <3>1. \A g \in p.imm.ids : g \in Gens /\ g < activeGen
                BY <2>6, <2>7 DEF Kept
            <3>2. \A g \in p.imm.ids : g \in Nat /\ g # activeGen
                BY <1>3, <2>7, <3>1, SmallerDiffer
            <3>3. QED
                BY <1>5, <3>1, <3>2
        <2>9. Snapshot(PinMem(p) \cup A, frozen', p.imm, segData, p.segs, p.seq, committed \cup N)
            BY <2>6, <2>8, SnapshotSame
        <2>10. PinMem(q)' = PinMem(p) \cup A
            BY <2>4, <2>5 DEF PinMem
        <2>11. \A g \in p.imm.ids : g < activeGen'
            <3>1. activeGen' = manifest.nextGen
                BY <1>1
            <3>2. \A g \in p.imm.ids : g < manifest.nextGen
                BY <1>3, <2>8
            <3>3. QED
                BY <3>1, <3>2
        <2>12. \A x \in p.segs.ids : Written(x)'
            BY <1>7, <2>6, <2>7 DEF Kept
        <2>13. p.seq <= engineSeq'
            BY <2>6, <2>7 DEF Continues
        <2>14. QED
            BY <1>1, <2>5, <2>9, <2>10, <2>11, <2>12, <2>13 DEF PinSound, Kept
    <1>17. QED
        BY <1>1, <1>9, <1>10, <1>11, <1>12, <1>14, <1>15, <1>16 DEF DataInv, PlainOptions

\* A commit that does not freeze: it is in the memtable and in the log or, under group commit,
\* still in the log's buffer.
LEMMA DataAppend ==
    ASSUME TypeOK, RecoveryInv, PipelineInv, DataInv, TypeOK', PipelineInv', status # "closed",
           NEW N, NEW s, NEW n, Continues(N, s, n),
           engineSeq' = s, nextId' = n, committed' = committed \cup N, mem' = mem \cup N,
           unsynced' = IF GroupCommit THEN unsynced \cup N ELSE {},
           wal' = IF GroupCommit THEN wal ELSE [wal EXCEPT ![activeGen] = @ \cup N],
           view' = [view EXCEPT !.seq = s],
           UNCHANGED <<manifest, activeGen, imm, frozen, pins, segData, segs, nextSeg, flushVars, compact,
                       status>>
    PROVE  DataInv'
    <1>1. UNCHANGED <<manifest, activeGen, imm, frozen, pins, segData, segs, nextSeg, worker, workQ, built,
                      events, publisher, inflight, compact, status>>
        BY DEF flushVars
    <1>2. /\ N \subseteq Versions /\ committed \cup N \subseteq Versions /\ N \cap committed = {}
          /\ unsynced \subseteq committed /\ ListedSegmentsExist'
        BY DEF Continues, TypeOK, CountersTypeOK, RecoveryInv, StoredIsCommitted, PipelineInv, DirectoriesExist
    <1>3. Newer(N, committed) /\ Newer(unsynced, Durable) /\ Durable \subseteq committed
        BY DEF Continues, DataInv, HistoryKept, Durable
    <1>4. \A v \in Durable : v.id < manifest.nextId \/ \E w \in Replayed : v.id <= w.id
        BY DEF DataInv, HistoryKept
    <1>5. /\ DiskSound' /\ Newer(unsynced', Durable')
          /\ wal'[activeGen] \cup unsynced' = wal[activeGen] \cup unsynced \cup N
          /\ \A g \in Gens : g # activeGen => wal'[g] = wal[g]
          /\ \A v \in Durable' : v.id < manifest'.nextId \/ \E w \in Replayed' : v.id <= w.id
        <2>1. CASE GroupCommit
            <3>1. wal' = wal /\ unsynced' = unsynced \cup N
                BY <2>1
            <3>2. Durable' = Durable
                BY <1>2, <3>1 DEF Durable
            <3>3. Newer(unsynced', Durable')
                BY <1>3, <3>1, <3>2 DEF Newer
            <3>4. DiskSegments' = DiskSegments /\ DiskEpochs' = DiskEpochs /\ Replayed' = Replayed
                BY <1>1, <1>2, <3>1, DiskSegmentsListed, DiskSegmentsListedNext
                DEF DiskEpochs, Replayed, PipelineInv, DirectoriesExist
            <3>5. DiskSound'
                BY <1>1, <3>1, <3>2, <3>4 DEF DataInv, DiskSound
            <3>6. QED
                BY <1>1, <1>4, <3>1, <3>2, <3>3, <3>4, <3>5
        <2>2. CASE ~GroupCommit
            <3>1. wal' = [wal EXCEPT ![activeGen] = @ \cup N] /\ unsynced' = {} /\ unsynced = {}
                BY <2>2 DEF RecoveryInv, StoredIsCommitted
            <3>2. Durable' = Durable \cup N /\ Newer(N, Durable) /\ Newer(unsynced', Durable')
                BY <1>3, <3>1 DEF Durable, Newer
            <3>3. /\ DiskSound' /\ wal'[activeGen] = wal[activeGen] \cup N
                  /\ \A g \in Gens : g # activeGen => wal'[g] = wal[g]
                BY <1>1, <1>2, <3>1, <3>2, DiskGrows
            <3>4. \A v : v \in Replayed' <=> v \in Replayed \/ v \in N
                BY <1>1, <3>1, ReplayedGrows
            <3>5. \A v \in N : v.id <= v.id
                BY <1>2 DEF Versions, Ids
            <3>6. \A v \in Durable' : v.id < manifest'.nextId \/ \E w \in Replayed' : v.id <= w.id
                BY <1>1, <1>4, <3>2, <3>4, <3>5
            <3>7. QED
                BY <3>1, <3>2, <3>3, <3>6
        <2>3. QED
            BY <2>1, <2>2
    <1>6. HistoryKept'
        BY <1>5 DEF HistoryKept, Continues
    <1>7. /\ Items(workQ)' = Items(workQ) /\ Items(built)' = Items(built) /\ Adopting' = Adopting
          /\ Unpublished' = Unpublished /\ Published' = Published
        BY <1>1 DEF Unpublished, Published, Adopting, Items
    <1>8. OrderKept'
        BY <1>1, <1>7 DEF DataInv, OrderKept, GensOf, SegsOf
    <1>9. CopiesAgree'
        <2>1. activeGen < manifest.nextGen /\ activeGen \notin manifest.pending
              /\ manifest.pending \subseteq Gens /\ activeGen \in Nat /\ manifest.nextGen \in Nat
            BY <1>1, ViewTypes, CountersAreNat DEF RecoveryInv, RunningIsAhead, GenerationsDistinct, Gens
        <2>2. \A g \in Gens : g >= manifest.nextGen => wal'[g] = {}
            BY <1>5, <2>1 DEF DataInv, CopiesAgree
        <2>3. mem' = wal'[activeGen] \cup unsynced' /\ \A g \in manifest.pending : frozen[g] = wal'[g]
            BY <1>5, <2>1 DEF DataInv, CopiesAgree
        <2>4. QED
            BY <1>1, <1>7, <2>2, <2>3 DEF DataInv, CopiesAgree
    <1>10. \A x : Written(x)' <=> Written(x)
        BY <1>1, <1>7 DEF Written
    <1>11. /\ engineSeq \in Nat /\ s \in Nat /\ engineSeq <= s /\ \A v \in N : v.seq <= s
           /\ \A v \in committed : v.seq <= engineSeq
        BY CountersAreNat DEF Continues, RecoveryInv, RunningIsAhead
    <1>12. CoreSound'
        <2>1. Snapshot(mem, frozen, imm, segData, segs, engineSeq, committed)
            BY DEF DataInv, CoreSound
        <2>2. Snapshot(mem \cup N, frozen, imm, segData, segs, s, committed \cup N)
            BY <1>2, <1>3, <1>11, <2>1, SnapshotGrows
        <2>3. QED
            BY <1>1, <2>2 DEF CoreSound
    <1>13. ViewSound'
        <2>1. SUFFICES ASSUME status' = "open"
                       PROVE  /\ view'.seq = engineSeq' /\ Kept(view.imm, view.segs)'
                              /\ Snapshot(mem', frozen', view'.imm, segData', view'.segs, engineSeq', committed')
            BY DEF ViewSound
        <2>2. /\ Kept(view.imm, view.segs)
              /\ Snapshot(mem, frozen, view.imm, segData, view.segs, engineSeq, committed)
            BY <1>1, <2>1 DEF DataInv, ViewSound
        <2>3. view'.seq = s /\ view'.imm = view.imm /\ view'.segs = view.segs
            BY DEF TypeOK, ReaderTypeOK, Views
        <2>4. Snapshot(mem \cup N, frozen, view.imm, segData, view.segs, s, committed \cup N)
            BY <1>2, <1>3, <1>11, <2>2, SnapshotGrows
        <2>5. Kept(view.imm, view.segs)'
            BY <1>1, <1>10, <2>2, <2>3 DEF Kept
        <2>6. QED
            BY <1>1, <2>3, <2>4, <2>5
    <1>14. PinsSound'
        <2>1. SUFFICES ASSUME NEW r \in Readers, NEW p \in pins[r] PROVE PinSound(p)'
            BY <1>1 DEF PinsSound
        <2>2. PICK A : A \subseteq N /\ PinMem(p)' = PinMem(p) \cup A
            <3>1. CASE p.live
                BY <3>1 DEF PinMem
            <3>2. CASE ~p.live
                <4>1. PinMem(p)' = PinMem(p) \cup {}
                    BY <3>2 DEF PinMem
                <4>2. QED
                    BY <4>1
            <3>3. QED
                BY <3>1, <3>2
        <2>3. /\ Kept(p.imm, p.segs) /\ p.seq <= engineSeq
              /\ Snapshot(PinMem(p) \cup A, frozen, p.imm, segData, p.segs, p.seq, committed \cup N)
            BY <2>2, PinsStay DEF Continues
        <2>4. p.seq \in Nat
            BY ViewTypes
        <2>5. p.seq <= engineSeq'
            BY <1>11, <2>3, <2>4
        <2>6. Kept(p.imm, p.segs)'
            BY <1>1, <1>10, <2>3 DEF Kept
        <2>7. QED
            BY <1>1, <2>2, <2>3, <2>5, <2>6 DEF PinSound
    <1>15. QED
        BY <1>1, <1>5, <1>6, <1>8, <1>9, <1>12, <1>13, <1>14 DEF DataInv, PlainOptions

\* One write command.
LEMMA DataWrite ==
    ASSUME TypeOK, RecoveryInv, PipelineInv, DataInv, TypeOK', PipelineInv',
           NEW P \in SUBSET Ids, NEW D \in SUBSET Ids, NEW n \in nextId..(MaxId + 1), Write(P, D, n)
    PROVE  DataInv'
    <1> DEFINE N == NewVersions(P, D)
               s == engineSeq + 1
    <1>1. /\ status = "open" /\ engineSeq < MaxSeq /\ Planned(P, D, n)
          /\ engineSeq' = s /\ nextId' = n /\ committed' = committed \cup N
        BY DEF Write, MayCommit, CoordinatorFree
    <1>2. UNCHANGED <<segData, segs, nextSeg, flushVars, compact, status>>
        BY DEF Write, compVars
    <1>3. engineSeq \in Nat /\ n \in Nat /\ nextId \in Nat /\ nextId <= n /\ s \in Nat
        BY CountersAreNat, ConstantsAssumption
    <1>4. /\ N \subseteq Versions /\ N \cap committed = {}
          /\ Newer(N, committed) /\ History(committed \cup N)
          /\ \A v \in N : v.seq = s /\ v.id < n
        BY <1>1, CommitExtends
    <1>5. \A v \in committed : v.seq <= engineSeq /\ v.seq \in Nat /\ v.id < nextId /\ v.id \in Nat
        BY <1>1 DEF RecoveryInv, RunningIsAhead, DataInv, HistoryKept, TypeOK, CountersTypeOK, Versions, Seqs, Ids
    <1> HIDE DEF N
    <1>6. Continues(N, s, n)
        <2>1. \A v \in N : engineSeq < v.seq
            BY <1>3, <1>4
        <2>2. \A v \in committed : v.seq <= s /\ v.id < n
            BY <1>3, <1>5
        <2>3. \A v \in N : v.seq <= s /\ v.id < n
            BY <1>3, <1>4
        <2>4. QED
            BY <1>3, <1>4, <2>1, <2>2, <2>3 DEF Continues
    <1>7. \/ FreezeMemtable(mem \cup N, s, n)
          \/ /\ mem' = mem \cup N
             /\ unsynced' = IF GroupCommit THEN unsynced \cup N ELSE {}
             /\ wal' = IF GroupCommit THEN wal ELSE [wal EXCEPT ![activeGen] = @ \cup N]
             /\ view' = [view EXCEPT !.seq = s]
             /\ UNCHANGED <<manifest, activeGen, imm, frozen, pins>>
        BY DEF Write, N
    <1> HIDE DEF s
    <1>8. CASE FreezeMemtable(mem \cup N, s, n)
        BY <1>1, <1>2, <1>6, <1>8, DataFreeze
    <1>9. CASE /\ mem' = mem \cup N
               /\ unsynced' = IF GroupCommit THEN unsynced \cup N ELSE {}
               /\ wal' = IF GroupCommit THEN wal ELSE [wal EXCEPT ![activeGen] = @ \cup N]
               /\ view' = [view EXCEPT !.seq = s]
               /\ UNCHANGED <<manifest, activeGen, imm, frozen, pins>>
        BY <1>1, <1>2, <1>6, <1>9, DataAppend
    <1>10. QED
        BY <1>7, <1>8, <1>9

\* Flush barriers, relief of backpressure and close freeze what is in the memtable or only
\* choose what to enqueue.
LEMMA DataBarriers ==
    ASSUME TypeOK, RecoveryInv, PipelineInv, DataInv, TypeOK', PipelineInv',
           RelieveBackpressure \/ FlushBarrier \/ Close
    PROVE  DataInv'
    <1>1. status = "open" /\ status' \in {"open", "closing"}
        BY DEF RelieveBackpressure, FlushBarrier, Close, MayClose, CoordinatorFree
    <1>2. UNCHANGED <<seqVars, segs, nextSeg, flushVars, compact>>
        BY DEF RelieveBackpressure, FlushBarrier, Close, compVars
    <1>3. \/ FreezeMemtable(mem, engineSeq, nextId) /\ UNCHANGED segData
          \/ UNCHANGED <<diskVars, memVars, view, pins>>
        BY DEF RelieveBackpressure, FlushBarrier, Close
    <1>4. CASE FreezeMemtable(mem, engineSeq, nextId) /\ UNCHANGED segData
        <2>1. Continues({}, engineSeq, nextId)
            <3>1. committed \cup {} = committed /\ engineSeq \in Nat /\ nextId \in Nat
                BY CountersAreNat
            <3>2. History(committed) /\ \A v \in committed : v.seq <= engineSeq /\ v.id < nextId
                BY <1>1 DEF DataInv, HistoryKept, RecoveryInv, RunningIsAhead
            <3>3. QED
                BY <3>1, <3>2 DEF Continues, Newer
        <2>2. mem = mem \cup {} /\ committed' = committed \cup {} /\ engineSeq' = engineSeq /\ nextId' = nextId
            BY <1>2 DEF seqVars
        <2>3. QED
            BY <1>1, <1>2, <1>4, <2>1, <2>2, DataFreeze
    <1>5. CASE UNCHANGED <<diskVars, memVars, view, pins>>
        <2>1. UNCHANGED <<manifest, wal, seqVars, memVars, segs, view, workQ, built, events, publisher, inflight,
                          worker, segData, pins, nextSeg>>
            BY <1>2, <1>5 DEF diskVars, flushVars
        <2>2. compact' = {} /\ nextSeg <= nextSeg'
            BY <1>2, ViewTypes DEF DataInv
        <2>3. QED
            BY <1>1, <2>1, <2>2, DataQuiet
    <1>6. QED
        BY <1>3, <1>4, <1>5

\* The empty database.
LEMMA DataInit ==
    ASSUME PlainOptions, Init PROVE DataInv
    <1>1. /\ manifest.segments = EmptyIds /\ manifest.pending = {} /\ manifest.active = 0
          /\ wal = [g \in Gens |-> {}] /\ segData = [x \in SegIds |-> {}] /\ segDirs = {}
          /\ status = "closed" /\ unsynced = {} /\ committed = {} /\ compact = {}
          /\ worker = "none" /\ workQ = <<>> /\ built = <<>> /\ events = <<>> /\ publisher = {}
          /\ inflight = {} /\ pins = [r \in Readers |-> {}]
        BY DEF Init
    <1>2. Items(<<>>) = {}
        BY DEF Items
    <1>3. Unpublished = {} /\ Published = {} /\ Durable = {}
        BY <1>1, <1>2 DEF Unpublished, Published, Adopting, Durable
    <1>4. HistoryKept
        BY <1>1, <1>3 DEF HistoryKept, History, Newer
    <1>5. OrderKept
        BY <1>1, <1>3 DEF OrderKept, GensOf, SegsOf
    <1>6. CopiesAgree /\ CoreSound /\ ViewSound /\ PinsSound
        BY <1>1 DEF CopiesAgree, CoreSound, ViewSound, PinsSound
    <1>7. DiskSound
        <2>1. DiskEpochs.ids = {} /\ Descending(DiskEpochs)
            BY <1>1 DEF DiskEpochs, Descending
        <2>2. DiskSegments.ids = {} /\ DiskSegments.before = {}
            BY <1>1 DEF DiskSegments, Reversed, Without, EmptyIds
        <2>3. Descending(DiskSegments)
            BY <2>2 DEF Descending
        <2>4. wal[manifest.active] = {}
            BY <1>1, ConstantsAssumption DEF Gens
        <2>5. Held({}, wal, DiskEpochs, segData, DiskSegments) = {}
            BY <2>1, <2>2, HeldMembers
        <2>6. Layered({}, wal, DiskEpochs, segData, DiskSegments)
            BY <2>1, <2>2 DEF Layered
        <2>7. QED
            BY <1>3, <2>1, <2>2, <2>3, <2>4, <2>5, <2>6 DEF DiskSound, Snapshot, SegmentsClean, Covers
    <1>8. QED
        BY <1>1, <1>4, <1>5, <1>6, <1>7 DEF DataInv

LEMMA DataStutter ==
    ASSUME DataInv, UNCHANGED vars PROVE DataInv'
    <1>1. UNCHANGED <<manifest, wal, segDirs, segData, engineSeq, nextId, committed, mem, unsynced, activeGen,
                      imm, frozen, segs, nextSeg, worker, workQ, built, events, publisher, inflight, compact,
                      status, view, pins>>
        BY DEF vars, diskVars, seqVars, memVars, flushVars, compVars, ctlVars
    <1>2. /\ Items(workQ)' = Items(workQ) /\ Items(built)' = Items(built) /\ Adopting' = Adopting
          /\ Unpublished' = Unpublished /\ Published' = Published
        BY <1>1 DEF Unpublished, Published, Adopting, Items
    <1>3. /\ DiskSegments' = DiskSegments /\ DiskEpochs' = DiskEpochs /\ Replayed' = Replayed
          /\ Durable' = Durable
        BY <1>1 DEF DiskSegments, DiskEpochs, Replayed, Durable
    <1>4. \A x : Written(x)' <=> Written(x)
        BY <1>1, <1>2 DEF Written
    <1>5. HistoryKept'
        BY <1>1, <1>3 DEF DataInv, HistoryKept
    <1>6. OrderKept'
        BY <1>1, <1>2 DEF DataInv, OrderKept, GensOf, SegsOf
    <1>7. CopiesAgree'
        BY <1>1, <1>2 DEF DataInv, CopiesAgree
    <1>8. DiskSound' /\ CoreSound'
        BY <1>1, <1>3 DEF DataInv, DiskSound, CoreSound
    <1>9. ViewSound'
        BY <1>1, <1>4 DEF DataInv, ViewSound, Kept
    <1>10. PinsSound'
        BY <1>1, <1>4 DEF DataInv, PinsSound, PinSound, PinMem, Kept
    <1>11. QED
        BY <1>1, <1>5, <1>6, <1>7, <1>8, <1>9, <1>10 DEF DataInv, PlainOptions

LEMMA DataStep ==
    ASSUME TypeOK, RecoveryInv, PipelineInv, DataInv, TypeOK', RecoveryInv', PipelineInv', [Next]_vars
    PROVE  DataInv'
    <1>1. CASE Open
        BY <1>1, DataOpen
    <1>2. CASE ClientStep
        <2>1. ASSUME NEW P \in SUBSET Ids, NEW D \in SUBSET Ids, NEW n \in nextId..(MaxId + 1), Write(P, D, n)
              PROVE  DataInv'
            BY <2>1, DataWrite
        <2>2. QED
            BY <1>2, <2>1, DataBarriers, DataCompact, DataCompactFails, DataCloseFast, DataReaders
            DEF ClientStep
    <1>3. CASE CoordinatorStep
        BY <1>3, DataBarriers, DataCoordinator, DataEnqueue, DataAdopt, DataFailed, DataNoCompaction,
           DataCloseFinish
        DEF CoordinatorStep
    <1>4. CASE WorkerStep
        BY <1>4, DataSync, DataBuild, DataDropped, DataReceive, DataPublish, DataRetire, DataNoCompaction,
           DataReaders
        DEF WorkerStep
    <1>5. CASE Crash
        BY <1>5, DataCrash
    <1>6. CASE UNCHANGED vars
        BY <1>6, DataStutter
    <1>7. QED
        BY <1>1, <1>2, <1>3, <1>4, <1>5, <1>6 DEF Next


-----------------------------------------------------------------------------
(* The theorems *)

\* In every reachable state without background compaction, late faults and deletes of ids
\* that were never returned, whatever the threads interleave, the I/O errors and the crashes:
\* memtables, WAL generations, segments, published view and pinned views agree on the history.
THEOREM DataInductive == ~LateFaults /\ CompactAfterN = 0 /\ ~DeleteUnknown /\ Spec => []DataInv
    <1>1. ~LateFaults /\ CompactAfterN = 0 /\ ~DeleteUnknown /\ Init => DataInv
        BY DataInit DEF PlainOptions
    <1>2. TypeOK /\ RecoveryInv /\ PipelineInv /\ DataInv /\ TypeOK' /\ RecoveryInv' /\ PipelineInv'
          /\ [Next]_vars => DataInv'
        BY DataStep
    <1>3. QED
        BY <1>1, <1>2, TypeCorrect, RecoveryInductive, PipelineInductive, PTL DEF Spec

\* At every instant, reopening the database would read exactly what was fsynced: no freeze,
\* flush, publish, retirement of a generation or full compaction leaves a moment at which a
\* crash loses a durable commit or brings a deleted record back.
THEOREM NothingSyncedLost ==
    ~LateFaults /\ CompactAfterN = 0 /\ ~DeleteUnknown /\ Spec => []CrashRecoversSynced
    <1>1. ASSUME TypeOK, PipelineInv, DataInv PROVE CrashRecoversSynced
        <2>1. History(Durable)
            BY <1>1 DEF DataInv, HistoryKept, History, Durable
        <2>2. DiskEpochs.ids \subseteq Gens /\ DiskSegments.ids \subseteq SegIds /\ MaxSeq \in Nat
            BY <1>1, ViewTypes, DiskSegmentsListed DEF DiskEpochs, PipelineInv, DirectoriesExist
        <2>3. Snapshot(wal[manifest.active], wal, DiskEpochs, segData, DiskSegments, MaxSeq, Durable)
            BY <1>1 DEF DataInv, DiskSound
        <2>4. ASSUME NEW i \in Ids
              PROVE  Live(RecoveredFind(i)) = Live(Latest(Durable, i, MaxSeq))
            BY <2>1, <2>2, <2>3, SnapshotReads DEF RecoveredFind
        <2>5. QED
            BY <2>4 DEF CrashRecoversSynced, Durable
    <1>2. QED
        BY <1>1, DataInductive, TypeCorrect, PipelineInductive, PTL

\* A read of the published snapshot returns the committed state.
THEOREM ReadsAreLatest ==
    ~LateFaults /\ CompactAfterN = 0 /\ ~DeleteUnknown /\ Spec => []PublishedReadsLatest
    <1>1. ASSUME TypeOK, DataInv PROVE PublishedReadsLatest
        <2>1. SUFFICES ASSUME status = "open"
                       PROVE  view.seq = engineSeq /\ \A i \in Ids : Live(ViewFind(i)) = Expected(i, engineSeq)
            BY DEF PublishedReadsLatest
        <2>2. /\ History(committed) /\ view.seq = engineSeq
              /\ Snapshot(mem, frozen, view.imm, segData, view.segs, engineSeq, committed)
            BY <1>1, <2>1 DEF DataInv, HistoryKept, ViewSound
        <2>3. view.imm.ids \subseteq Gens /\ view.segs.ids \subseteq SegIds /\ engineSeq \in Nat
            BY <1>1, ViewTypes
        <2>4. \A i \in Ids : Live(Find(mem, frozen, view.imm, view.segs, i, engineSeq))
                               = Live(Latest(committed, i, engineSeq))
            BY <2>2, <2>3, SnapshotReads
        <2>5. QED
            BY <2>2, <2>4 DEF ViewFind, Expected
    <1>2. QED
        BY <1>1, DataInductive, TypeCorrect, PTL

\* A reader that keeps a snapshot sees the state at its sequence number until it lets go.
THEOREM PinsAreStable ==
    ~LateFaults /\ CompactAfterN = 0 /\ ~DeleteUnknown /\ Spec => []PinnedReadsStable
    <1>1. ASSUME TypeOK, DataInv PROVE PinnedReadsStable
        <2>1. SUFFICES ASSUME NEW r \in Readers, NEW p \in pins[r], NEW i \in Ids
                       PROVE  Live(PinFind(p, i)) = Expected(i, p.seq)
            BY DEF PinnedReadsStable
        <2>2. History(committed) /\ Snapshot(PinMem(p), frozen, p.imm, segData, p.segs, p.seq, committed)
            BY <1>1 DEF DataInv, HistoryKept, PinsSound, PinSound
        <2>3. p.imm.ids \subseteq Gens /\ p.segs.ids \subseteq SegIds /\ p.seq \in Nat
            BY <1>1, ViewTypes
        <2>4. Live(Find(PinMem(p), frozen, p.imm, p.segs, i, p.seq)) = Live(Latest(committed, i, p.seq))
            BY <2>2, <2>3, SnapshotReads
        <2>5. QED
            BY <2>4 DEF PinFind, Expected, PinMem
    <1>2. QED
        BY <1>1, DataInductive, TypeCorrect, PTL


-----------------------------------------------------------------------------
(* The engine implements the durable store *)

\* What is read through the published snapshot, in the words of the abstract store.
LEMMA PublishedIsStore ==
    ASSUME TypeOK, RecoveryInv, PublishedReadsLatest
    PROVE  PublishedReads = IF status = "open" THEN Store!Reads(committed) ELSE Store!NoReads
    <1>1. CASE status # "open"
        BY <1>1 DEF PublishedReads, Store!NoReads, Store!Ids, Ids
    <1>2. CASE status = "open"
        <2>1. \A v \in committed : v.seq <= engineSeq
            BY <1>2 DEF RecoveryInv, RunningIsAhead
        <2>2. ASSUME NEW i \in Ids
              PROVE  Live(ViewFind(i)) = Store!Value(committed, i)
            <3>1. Live(ViewFind(i)) = Live(Latest(committed, i, engineSeq))
                BY <1>2 DEF PublishedReadsLatest, Expected
            <3>2. Latest(committed, i, engineSeq)
                    = {v \in committed : v.id = i /\ \A w \in committed : w.id = i => w.seq <= v.seq}
                BY <2>1 DEF Latest
            <3>3. QED
                BY <3>1, <3>2 DEF Live, Store!Value
        <2>3. QED
            BY <1>2, <2>2 DEF PublishedReads, Store!Reads, Store!Ids, Ids
    <1>3. QED
        BY <1>1, <1>2

\* A step that commits nothing and neither opens nor closes the database is an fsync of the
\* abstract store, or no step at all.
LEMMA StoreQuiet ==
    ASSUME PublishedReads = IF status = "open" THEN Store!Reads(committed) ELSE Store!NoReads,
           PublishedReads' = IF status' = "open" THEN Store!Reads(committed') ELSE Store!NoReads,
           (status = "open") = (status' = "open"), committed' = committed, unsynced' \in {unsynced, {}}
    PROVE  [Store!Next]_(Store!vars)
    <1>1. PublishedReads' = PublishedReads
        OBVIOUS
    <1>2. CASE unsynced' = unsynced
        BY <1>1, <1>2 DEF Store!vars
    <1>3. CASE unsynced' = {}
        BY <1>1, <1>3 DEF Store!Next, Store!Sync
    <1>4. QED
        BY <1>2, <1>3


\* The steps of the coordinator, of the background threads and of readers, and the barriers.
LEMMA StepsQuiet ==
    ASSUME TypeOK,
           \/ FlushBarrier \/ Compact \/ CompactFails \/ (\E r \in Readers : PinView(r))
           \/ CoordinatorStep \/ WorkerStep \/ UNCHANGED vars
    PROVE  (status = "open") = (status' = "open") /\ committed' = committed /\ unsynced' \in {unsynced, {}}
    <1>1. CASE FlushBarrier \/ RelieveBackpressure
        <2>1. status' = status /\ committed' = committed
            BY <1>1 DEF FlushBarrier, RelieveBackpressure, seqVars
        <2>2. (\E M, s, n : FreezeMemtable(M, s, n)) \/ UNCHANGED memVars
            BY <1>1 DEF FlushBarrier, RelieveBackpressure
        <2>3. QED
            BY <2>1, <2>2 DEF FreezeMemtable, memVars
    <1>2. CASE Compact \/ CompactFails \/ \E r \in Readers : PinView(r)
        BY <1>2 DEF Compact, CompactFails, PinView, seqVars, memVars, ctlVars
    <1>3. CASE FlushReturns \/ SurfaceFlushError \/ RetryFlush \/ EnqueueFlush \/ EnqueueFails
        BY <1>3 DEF FlushReturns, SurfaceFlushError, RetryFlush, EnqueueFlush, EnqueueFails, seqVars, memVars
    <1>4. CASE AdoptFlush \/ FlushFailed \/ ApplyCompact \/ ApplyCompactFails
        BY <1>4 DEF AdoptFlush, FlushFailed, ApplyCompact, ApplyCompactFails, seqVars, memVars, ctlVars
    <1>5. CASE CloseFinish
        BY <1>5 DEF CloseFinish, MemoryLost
    <1>6. CASE SyncWal \/ BuildSegment \/ BuildFails \/ PublishReceive \/ PublishManifest
        BY <1>6 DEF SyncWal, BuildSegment, BuildFails, PublishReceive, PublishManifest, seqVars, memVars, ctlVars
    <1>7. CASE PublishFails \/ RetireWal \/ CompactBuild \/ CompactBuildFails \/ \E r \in Readers : UnpinView(r)
        BY <1>7 DEF PublishFails, RetireWal, CompactBuild, CompactBuildFails, UnpinView, seqVars, memVars, ctlVars
    <1>8. CASE UNCHANGED vars
        BY <1>8 DEF vars, seqVars, memVars, ctlVars
    <1>9. QED
        BY <1>1, <1>2, <1>3, <1>4, <1>5, <1>6, <1>7, <1>8 DEF CoordinatorStep, WorkerStep

\* A write is one commit of the abstract store: its versions share a sequence number later
\* than all before, and it makes none or all of the history durable.
LEMMA WriteCommits ==
    ASSUME TypeOK, RecoveryInv, NEW P \in SUBSET Ids, NEW D \in SUBSET Ids,
           NEW n \in nextId..(MaxId + 1), Write(P, D, n)
    PROVE  /\ status = "open" /\ status' = status
           /\ \E s \in 1..MaxSeq :
                 /\ \A v \in committed : v.seq < s
                 /\ committed' # committed
                 /\ committed \subseteq committed'
                 /\ committed' \ committed \subseteq {v \in Versions : v.seq = s}
           /\ committed' \ unsynced' \in {committed \ unsynced, committed'}
    <1> DEFINE new == NewVersions(P, D)
    <1>1. /\ status = "open" /\ status' = status /\ committed' = committed \cup new
          /\ Planned(P, D, n) /\ engineSeq < MaxSeq
        BY DEF Write, MayCommit, CoordinatorFree
    <1>2. new \subseteq Versions /\ new \cap committed = {} /\ \A v \in new : v.seq = engineSeq + 1
        BY <1>1, NewVersionsFresh
    <1>3. new # {}
        BY <1>1 DEF Planned, NewVersions
    <1>4. /\ unsynced \subseteq committed /\ (GroupCommit \/ unsynced = {})
          /\ \A v \in committed : v.seq <= engineSeq
        BY <1>1 DEF RecoveryInv, StoredIsCommitted, RunningIsAhead
    <1>5. unsynced' = {} \/ unsynced' = unsynced \cup new
        BY DEF Write, FreezeMemtable
    <1> HIDE DEF new
    <1>6. committed' \ unsynced' \in {committed \ unsynced, committed'}
        BY <1>1, <1>2, <1>4, <1>5
    <1>7. engineSeq + 1 \in 1..MaxSeq /\ \A v \in committed : v.seq < engineSeq + 1
        BY <1>1, <1>4, ConstantsAssumption DEF TypeOK, CountersTypeOK, Versions, Seqs
    <1>8. /\ committed' # committed /\ committed \subseteq committed'
          /\ committed' \ committed \subseteq {v \in Versions : v.seq = engineSeq + 1}
        BY <1>1, <1>2, <1>3
    <1>9. QED
        BY <1>1, <1>6, <1>7, <1>8

\* Every step of the engine is one step of the abstract store, or none.
LEMMA StoreStep ==
    ASSUME TypeOK, RecoveryInv, PublishedReadsLatest, TypeOK', RecoveryInv', PublishedReadsLatest', [Next]_vars
    PROVE  [Store!Next]_(Store!vars)
    <1>1. /\ PublishedReads = IF status = "open" THEN Store!Reads(committed) ELSE Store!NoReads
          /\ PublishedReads' = IF status' = "open" THEN Store!Reads(committed') ELSE Store!NoReads
        <2>1. PublishedReads = IF status = "open" THEN Store!Reads(committed) ELSE Store!NoReads
            BY PublishedIsStore
        <2>2. (PublishedReads = IF status = "open" THEN Store!Reads(committed) ELSE Store!NoReads)'
            BY PublishedIsStore, PTL
        <2>3. QED
            BY <2>1, <2>2 DEF Store!Reads, Store!NoReads, Store!Value
    <1>2. CASE Open
        <2>1. status = "closed" /\ status' = "open" /\ UNCHANGED <<committed, unsynced>>
            BY <1>2 DEF Open
        <2>2. QED
            BY <1>1, <2>1 DEF Store!Next, Store!Open
    <1>3. ASSUME NEW P \in SUBSET Ids, NEW D \in SUBSET Ids, NEW n \in nextId..(MaxId + 1), Write(P, D, n)
          PROVE  [Store!Next]_(Store!vars)
        BY <1>1, <1>3, WriteCommits DEF Store!Next, Store!Commit, Store!Versions, Store!Ids, Versions, Ids, Seqs
    <1>4. CASE Close \/ CloseFast
        <2>1. status = "open" /\ status' # "open" /\ committed' = committed
            BY <1>4 DEF Close, CloseFast, MayClose, CoordinatorFree, seqVars
        <2>2. unsynced' \in {unsynced, {}}
            BY <1>4 DEF Close, CloseFast, FreezeMemtable, memVars
        <2>3. QED
            BY <1>1, <2>1, <2>2 DEF Store!Next, Store!Close
    <1>5. CASE Crash
        <2>1. PICK k \in 0..MaxSeq : committed' = committed \ (unsynced \ {v \in unsynced : v.seq <= k})
            BY <1>5 DEF Crash
        <2>2. committed' = (committed \ unsynced) \cup {v \in committed : v.seq <= k}
            BY <2>1
        <2>3. status' = "closed" /\ unsynced' = {}
            BY <1>5 DEF Crash, MemoryLost
        <2>4. QED
            BY <1>1, <2>2, <2>3 DEF Store!Next, Store!Crash
    <1>6. CASE \/ FlushBarrier \/ Compact \/ CompactFails \/ (\E r \in Readers : PinView(r))
               \/ CoordinatorStep \/ WorkerStep \/ UNCHANGED vars
        BY <1>1, <1>6, StepsQuiet, StoreQuiet
    <1>7. QED
        BY <1>2, <1>3, <1>4, <1>5, <1>6 DEF Next, ClientStep

\* The engine implements the durable store: whatever freezes, flushes, publishes, compacts,
\* fails or is replayed, callers see commits, fsyncs, shutdowns, crashes and reopens of a store
\* that reads its latest commit and loses at most a suffix of what was not yet durable.
THEOREM EngineImplementsStore ==
    ~LateFaults /\ CompactAfterN = 0 /\ ~DeleteUnknown /\ Spec => ImplementsDurableStore
    <1>1. Init => Store!Init
        BY DEF Init, Store!Init, PublishedReads, Store!NoReads, Store!Ids, Ids
    <1>2. TypeOK /\ RecoveryInv /\ PublishedReadsLatest /\ TypeOK' /\ RecoveryInv' /\ PublishedReadsLatest'
          /\ [Next]_vars => [Store!Next]_(Store!vars)
        BY StoreStep
    <1>3. QED
        BY <1>1, <1>2, TypeCorrect, RecoveryInductive, ReadsAreLatest, PTL
        DEF Spec, ImplementsDurableStore, Store!Spec
=============================================================================
