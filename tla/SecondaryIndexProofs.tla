----------------------- MODULE SecondaryIndexProofs -------------------------
(***************************************************************************)
(* A Ready index is complete, for any number of indexes, memtables and     *)
(* segments: in the manifest (ReadyCovered) and through every published    *)
(* view (LookupsComplete).  Excepted is an index whose retry took it out   *)
(* of a memtable that a segment was being written from (overtaken).        *)
(***************************************************************************)
EXTENDS SecondaryIndex, FiniteSetTheorems, NaturalsInduction, WellFoundedInduction, TLAPS

States  == {"ready", "building", "failed"}
Entries == [spec : Specs, state : States]
Idx     == UNION {[D -> Entries] : D \in SUBSET Ids}
Builder == [part : Parts, entries : SUBSET Ids, own : BOOLEAN]
Arrival == [part : Parts, known : SUBSET Ids, rebuild : SUBSET Ids]
Merging == [pc : {"merge", "merged", "swap"}, inputs : SUBSET Parts, out : Parts, idx : Idx,
            failed : SUBSET Ids]
CoreOps == {"idle", "ensure", "retry", "drop", "compacted", "seed", "reseed", "remove", "swap"}

TypeOK ==
    /\ disk \in [segs : SUBSET Parts, idx : Idx, nextId : Nat]
    /\ runtime \in Idx
    /\ active \in Parts /\ frozen \subseteq Parts /\ nextPart \in Nat
    /\ reg \in [Parts -> SUBSET Ids]
    /\ side \in [Parts -> [Ids -> {"none", "full", "empty", "bad"}]]
    /\ DOMAIN readers \subseteq Parts
    /\ jobs \in Seq(ToSet(jobs)) /\ DOMAIN worker = {"pc", "i", "segs", "todo", "ready"}
    /\ builder \subseteq Builder /\ built \in Seq(Builder) /\ events \in Seq(Arrival)
    /\ compact \subseteq Merging
    /\ core \in [pc : CoreOps, i : Ids \cup {0}, idx : Idx]
    /\ core.pc \in {"ensure", "retry", "reseed", "seed"} => core.i \in Ids
    /\ followups \subseteq [i : Ids, next : {"failed", "building"}]

\* A part is a memtable, on its way through the flush, or a segment; the output of a
\* compaction is none of them until it is applied.
PartsApart ==
    /\ \A p \in Mems \cup disk.segs \cup DOMAIN readers : p < nextPart
    /\ active \notin frozen \cup disk.segs \cup DOMAIN readers
    /\ frozen \cap DOMAIN readers = {}
    /\ \A b \in builder : /\ b.part \in frozen \ disk.segs
                          /\ \A c \in builder : b = c
                          /\ \A k \in DOMAIN built : built[k].part # b.part
    /\ \A k \in DOMAIN built : /\ built[k].part \in frozen \ disk.segs
                               /\ \A j \in DOMAIN built : built[j].part = built[k].part => j = k
    /\ \A k \in DOMAIN events : /\ events[k].part \in frozen \cap disk.segs
                                /\ \A j \in DOMAIN events : events[j].part = events[k].part => j = k
    /\ \A c \in compact : /\ c.out < nextPart /\ c.out \notin Mems \cup DOMAIN readers
                          /\ c.inputs \subseteq DOMAIN readers
                          /\ c.pc # "swap" => c.out \notin disk.segs
                          /\ \A d \in compact : c = d

\* Ids are given out once, and whoever has met an id got it from the manifest.
Old == {i \in Ids : i < disk.nextId}

IdsOld ==
    /\ DOMAIN disk.idx \subseteq Old /\ DOMAIN runtime \subseteq Old /\ DOMAIN pub.idx \subseteq Old
    /\ \A s \in Parts : Components(s) \subseteq Old
    /\ \A s \in DOMAIN readers : readers[s] \subseteq Old
    /\ \A b \in builder : b.entries \subseteq Old
    /\ \A k \in DOMAIN built : built[k].entries \subseteq Old
    /\ \A k \in DOMAIN events : events[k].known \subseteq Old
    /\ \A c \in compact : DOMAIN c.idx \subseteq Old

\* The worker builds a declared id; who drops one has taken its declaration away for good.
IdsGone ==
    /\ worker.pc = "build" => worker.i \in Old
    /\ core.pc \in {"drop", "remove"} => core.i \in Old \ DOMAIN disk.idx
    /\ \A j \in ToSet(jobs) : j.kind = "drop" => j.i \in Old \ DOMAIN disk.idx

\* The published view has the readers of the core, and the copies of the declarations differ
\* from the manifest only while a declaration is made or dropped.
CopiesSynced ==
    /\ pub.readers = readers
    /\ core.pc \notin {"ensure", "drop"} => DOMAIN runtime = DOMAIN disk.idx
    /\ core.pc \in {"ensure", "retry", "drop", "compacted"} => DOMAIN core.idx = DOMAIN disk.idx
    /\ core.pc = "ensure" => core.i \notin DOMAIN pub.idx

\* Every memtable maintains every declared index but the one being seeded; so does the one a
\* builder reads.
MemtablesKnow ==
    /\ pub.mems = Mems
    /\ \A m \in Mems : \A i \in DOMAIN disk.idx :
          i \in reg[m] \/ (core.pc \in {"ensure", "seed"} /\ i = core.i)
    /\ \A b \in builder : b.own \/ \A i \in (b.entries \cap DOMAIN disk.idx) \ overtaken : i \in reg[b.part]

\* Segment s has complete sidecars, or damaged ones, for the declared indexes among S.
Covered(s, S) == \A i \in (S \cap DOMAIN disk.idx) \ overtaken : side[s][i] \in {"full", "bad"}

SidecarsComplete ==
    /\ \A s \in Parts : Covered(s, Components(s))
    /\ \A s \in DOMAIN readers : Covered(s, readers[s])
    /\ \A k \in DOMAIN built : Covered(built[k].part, built[k].entries)
    /\ \A k \in DOMAIN events : Covered(events[k].part, events[k].known)
    /\ \A c \in compact : c.pc # "merge" => Covered(c.out, DOMAIN c.idx)

IndexInv ==
    /\ TypeOK
    /\ PartsApart /\ IdsOld /\ IdsGone /\ CopiesSynced /\ MemtablesKnow /\ SidecarsComplete /\ ReadyCovered

-----------------------------------------------------------------------------
(* Sequences, declarations, files *)

LEMMA AppendFacts ==
    ASSUME NEW S, NEW q \in Seq(S), NEW x \in S
    PROVE  /\ Append(q, x) \in Seq(S)
           /\ \A k \in DOMAIN Append(q, x) :
                 (k \in DOMAIN q /\ Append(q, x)[k] = q[k]) \/ (k = Len(q) + 1 /\ Append(q, x)[k] = x)
    OBVIOUS

LEMMA TailFacts ==
    ASSUME NEW S, NEW q \in Seq(S), q # <<>>
    PROVE  /\ Tail(q) \in Seq(S) /\ Head(q) \in S /\ 1 \in DOMAIN q /\ Head(q) = q[1]
           /\ \A k \in DOMAIN Tail(q) : /\ k + 1 \in DOMAIN q /\ k + 1 # 1 /\ k \in Nat
                                        /\ Tail(q)[k] = q[k + 1]
    OBVIOUS

\* Whatever a sequence is made of, it is a sequence of its elements.
LEMMA OwnElements ==
    ASSUME NEW S, NEW q \in Seq(S) PROVE q \in Seq(ToSet(q))
    BY DEF ToSet

LEMMA JobAppended ==
    ASSUME NEW q, q \in Seq(ToSet(q)), NEW j
    PROVE  /\ Append(q, j) \in Seq(ToSet(Append(q, j)))
           /\ ToSet(Append(q, j)) \subseteq ToSet(q) \cup {j}
    <1> DEFINE S == ToSet(q) \cup {j}
    <1>1. q \in Seq(S) /\ j \in S
        OBVIOUS
    <1> HIDE DEF S
    <1>2. /\ Append(q, j) \in Seq(S)
          /\ \A k \in DOMAIN Append(q, j) :
                (k \in DOMAIN q /\ Append(q, j)[k] = q[k]) \/ Append(q, j)[k] = j
        BY <1>1, AppendFacts
    <1>3. ToSet(Append(q, j)) \subseteq ToSet(q) \cup {j}
        BY <1>2 DEF ToSet
    <1>4. QED
        BY <1>2, <1>3, OwnElements

\* A batch of build jobs holds no drop.
LEMMA BuildsFacts ==
    ASSUME NEW S \in SUBSET Ids
    PROVE  Builds(S) \in Seq(ToSet(Builds(S))) /\ \A j \in ToSet(Builds(S)) : j.kind = "build"
    <1> DEFINE n == Cardinality(S)
               Sorted(k) == SetToSortSeq(S, <)[k]
               J == [kind : {"build"}, i : {Sorted(k) : k \in 1..n}]
    <1>1. IsFiniteSet(Ids)
        BY FS_Interval, IndexConstantsAssumption DEF Ids
    <1>2. n \in Nat
        BY <1>1, FS_Subset, FS_CardinalityType
    <1>3. Builds(S) = [k \in 1..n |-> [kind |-> "build", i |-> Sorted(k)]]
        BY DEF Builds
    <1> HIDE DEF n, Sorted
    <1>4. Builds(S) \in [1..n -> J]
        BY <1>3
    <1>5. \A j \in J : j.kind = "build"
        OBVIOUS
    <1> HIDE DEF J
    <1>6. Builds(S) \in Seq(J)
        BY <1>2, <1>4
    <1>7. ToSet(Builds(S)) \subseteq J
        BY <1>6 DEF ToSet
    <1>8. QED
        BY <1>5, <1>6, <1>7, OwnElements

LEMMA JobsAppended ==
    ASSUME NEW q, q \in Seq(ToSet(q)), NEW S \in SUBSET Ids
    PROVE  /\ q \o Builds(S) \in Seq(ToSet(q \o Builds(S)))
           /\ \A j \in ToSet(q \o Builds(S)) : j.kind = "drop" => j \in ToSet(q)
    <1> DEFINE B == Builds(S)
               U == ToSet(q) \cup ToSet(B)
    <1>1. B \in Seq(ToSet(B)) /\ \A j \in ToSet(B) : j.kind = "build"
        BY BuildsFacts
    <1> HIDE DEF B
    <1>2. q \in Seq(U) /\ B \in Seq(U)
        BY <1>1
    <1>3. q \o B \in Seq(U)
        BY <1>2
    <1>4. ToSet(q \o B) \subseteq U
        BY <1>3 DEF ToSet
    <1>5. \A j \in ToSet(q \o B) : j.kind = "drop" => j \in ToSet(q)
        BY <1>1, <1>4
    <1>6. QED
        BY <1>3, <1>5, OwnElements DEF B

LEMMA JobTaken ==
    ASSUME NEW q, q \in Seq(ToSet(q)), q # <<>>
    PROVE  Tail(q) \in Seq(ToSet(Tail(q))) /\ ToSet(Tail(q)) \subseteq ToSet(q) /\ Head(q) \in ToSet(q)
    <1>1. Tail(q) \in Seq(ToSet(q)) /\ Head(q) \in ToSet(q)
        BY TailFacts
    <1>2. ToSet(Tail(q)) \subseteq ToSet(q)
        BY <1>1 DEF ToSet
    <1>3. QED
        BY <1>1, <1>2, OwnElements

LEMMA IdxFacts ==
    ASSUME NEW f \in Idx
    PROVE  DOMAIN f \subseteq Ids /\ \A i \in DOMAIN f : f[i] \in Entries /\ f[i].state \in States
    BY DEF Idx, Entries

LEMMA MarkFacts ==
    ASSUME NEW f \in Idx, NEW S, NEW st \in States
    PROVE  /\ Mark(f, S, st) \in Idx /\ DOMAIN Mark(f, S, st) = DOMAIN f
           /\ \A i \in DOMAIN f : Mark(f, S, st)[i].state = IF i \in S THEN st ELSE f[i].state
    <1> DEFINE m == Mark(f, S, st)
    <1>1. DOMAIN f \subseteq Ids /\ \A i \in DOMAIN f : f[i] \in Entries
        BY IdxFacts
    <1>2. m = [i \in DOMAIN f |-> IF i \in S THEN [f[i] EXCEPT !.state = st] ELSE f[i]]
        BY DEF Mark
    <1> HIDE DEF m
    <1>3. \A i \in DOMAIN f : m[i] \in Entries /\ m[i].state = IF i \in S THEN st ELSE f[i].state
        BY <1>1, <1>2 DEF Entries
    <1>4. m \in [DOMAIN f -> Entries]
        BY <1>2, <1>3
    <1>5. QED
        BY <1>1, <1>3, <1>4 DEF Idx, m

LEMMA ReconcileFacts ==
    ASSUME NEW f \in Idx, NEW S
    PROVE  /\ Reconcile(f, S) \in Idx /\ DOMAIN Reconcile(f, S) = DOMAIN f
           /\ Unmaintained(f, S) \subseteq Ids
           /\ \A i \in DOMAIN f : Reconcile(f, S)[i].state = "ready" => i \in S /\ f[i].state = "ready"
    <1>1. "building" \in States /\ DOMAIN f \subseteq Ids
        BY IdxFacts DEF States
    <1>2. /\ Reconcile(f, S) \in Idx /\ DOMAIN Reconcile(f, S) = DOMAIN f
          /\ \A i \in DOMAIN f : Reconcile(f, S)[i].state =
                                    IF i \in Unmaintained(f, S) THEN "building" ELSE f[i].state
        BY <1>1, MarkFacts DEF Reconcile
    <1>3. QED
        BY <1>1, <1>2 DEF Unmaintained

\* A bounded set of parts has a smallest one.
LEMMA SmallestPart ==
    ASSUME NEW S \in SUBSET Parts, S # {}
    PROVE  Min(S) \in S
    <1>1. S \subseteq Nat
        BY IndexConstantsAssumption DEF Parts
    <1>2. PICK n \in S : \A m \in S : ~(<<m, n>> \in OpToRel(<, Nat))
        BY <1>1, NatLessThanWellFounded, WFMin
    <1>3. \A m \in S : ~(m < n)
        <2>1. \A a, b \in Nat : a < b => <<a, b>> \in OpToRel(<, Nat)
            BY DEF OpToRel
        <2>2. QED
            BY <1>1, <1>2, <2>1
    <1>4. \A m \in S : n <= m
        BY <1>1, <1>3
    <1>5. QED
        BY <1>4 DEF Min

-----------------------------------------------------------------------------
(* What steps have in common *)

LEMMA DiskFacts ==
    ASSUME TypeOK
    PROVE  /\ disk.idx \in Idx /\ DOMAIN disk.idx \subseteq Ids /\ disk.segs \subseteq Parts
           /\ disk.nextId \in Nat /\ Ids \subseteq Nat /\ Parts \subseteq Nat
           /\ \A i \in DOMAIN disk.idx : disk.idx[i] \in Entries /\ disk.idx[i].state \in States
    BY IdxFacts, IndexConstantsAssumption DEF TypeOK, Ids, Parts

\* The declarations are given new states, or written as they are.
LEMMA Rewritten ==
    ASSUME TypeOK, NEW idx \in Idx, DOMAIN idx = DOMAIN disk.idx, disk' = [disk EXCEPT !.idx = idx]
    PROVE  /\ disk' \in [segs : SUBSET Parts, idx : Idx, nextId : Nat]
           /\ disk'.idx = idx /\ disk'.segs = disk.segs /\ disk'.nextId = disk.nextId
           /\ DOMAIN disk'.idx = DOMAIN disk.idx
    BY DEF TypeOK

LEMMA PartsSame ==
    ASSUME PartsApart, disk'.segs = disk.segs,
           UNCHANGED <<active, frozen, nextPart, readers, builder, built, events, compact>>
    PROVE  PartsApart'
    BY DEF PartsApart, Mems

\* No sidecar of a declared index is lost, no id comes back, and an exception stays one.
SidesKeep == \A s \in Parts : \A i \in DOMAIN disk.idx :
                side[s][i] \in {"full", "bad"} => side'[s][i] \in {"full", "bad"}
NoneComesBack == DOMAIN disk'.idx \cap Old \subseteq DOMAIN disk.idx /\ overtaken \subseteq overtaken'

CoveredNext(s, S) == \A i \in (S \cap DOMAIN disk'.idx) \ overtaken' : side'[s][i] \in {"full", "bad"}

LEMMA CoveredKeep ==
    ASSUME SidesKeep, NoneComesBack, NEW s \in Parts, NEW S, S \subseteq Old, Covered(s, S)
    PROVE  CoveredNext(s, S)
    BY DEF SidesKeep, Covered, CoveredNext, NoneComesBack

LEMMA SidesSame ==
    ASSUME UNCHANGED side
    PROVE  SidesKeep /\ \A s : Components(s)' = Components(s)
    BY DEF SidesKeep, Components

LEMMA Elements ==
    ASSUME TypeOK
    PROVE  /\ DOMAIN readers \subseteq Parts
           /\ \A b \in builder : b \in Builder /\ b.part \in Parts
           /\ \A k \in DOMAIN built : built[k] \in Builder /\ built[k].part \in Parts
           /\ \A k \in DOMAIN events : events[k] \in Arrival /\ events[k].part \in Parts
           /\ \A c \in compact : c \in Merging /\ c.out \in Parts /\ c.inputs \subseteq Parts /\ c.idx \in Idx
    <1>1. \A S : \A q \in Seq(S) : \A k \in DOMAIN q : q[k] \in S
        OBVIOUS
    <1>2. /\ \A k \in DOMAIN built : built[k] \in Builder
          /\ \A k \in DOMAIN events : events[k] \in Arrival
        BY <1>1 DEF TypeOK
    <1>3. \A b \in Builder : b.part \in Parts
        BY DEF Builder
    <1>4. \A v \in Arrival : v.part \in Parts
        BY DEF Arrival
    <1>5. \A c \in Merging : c.out \in Parts /\ c.inputs \subseteq Parts /\ c.idx \in Idx
        BY DEF Merging
    <1>6. QED
        BY <1>2, <1>3, <1>4, <1>5 DEF TypeOK

\* What was complete before a step is complete after it.
LEMMA Kept ==
    ASSUME TypeOK, IdsOld, SidecarsComplete, SidesKeep, NoneComesBack
    PROVE  /\ \A s \in DOMAIN readers : CoveredNext(s, readers[s])
           /\ \A k \in DOMAIN built : CoveredNext(built[k].part, built[k].entries)
           /\ \A k \in DOMAIN events : CoveredNext(events[k].part, events[k].known)
           /\ \A c \in compact : c.pc # "merge" => CoveredNext(c.out, DOMAIN c.idx)
    <1> USE Elements, CoveredKeep DEF SidecarsComplete, IdsOld
    <1>1. \A s \in DOMAIN readers : CoveredNext(s, readers[s])
        OBVIOUS
    <1>3. \A k \in DOMAIN built : CoveredNext(built[k].part, built[k].entries)
        OBVIOUS
    <1>4. \A k \in DOMAIN events : CoveredNext(events[k].part, events[k].known)
        OBVIOUS
    <1>5. \A c \in compact : c.pc # "merge" => CoveredNext(c.out, DOMAIN c.idx)
        OBVIOUS
    <1>6. QED
        BY <1>1, <1>3, <1>4, <1>5

\* The sidecars of the parts on their way through flush and compaction, and of the readers.
LEMMA SidecarsSame ==
    ASSUME TypeOK, IdsOld, SidecarsComplete, UNCHANGED <<side, readers, built, events, compact>>,
           NoneComesBack
    PROVE  SidecarsComplete'
    <1>0. SidesKeep /\ \A s : Components(s)' = Components(s)
        BY SidesSame
    <1>1. \A s \in Parts : CoveredNext(s, Components(s))
        BY <1>0, CoveredKeep DEF SidecarsComplete, IdsOld
    <1>2. \A s \in Parts : Covered(s, Components(s))'
        BY <1>0, <1>1 DEF CoveredNext, Covered
    <1>3. QED
        BY <1>0, <1>2, Kept DEF SidecarsComplete, Covered, CoveredNext

\* No index becomes Ready, and no segment is added.
LEMMA ReadySame ==
    ASSUME TypeOK, ReadyCovered, SidesKeep, disk'.segs \subseteq disk.segs, overtaken \subseteq overtaken',
           \A i \in DOMAIN disk'.idx : disk'.idx[i].state = "ready" =>
               i \in DOMAIN disk.idx /\ disk.idx[i].state = "ready"
    PROVE  ReadyCovered'
    BY DiskFacts DEF ReadyCovered, SidesKeep

LEMMA IdsSame ==
    ASSUME IdsOld, disk'.nextId = disk.nextId, UNCHANGED <<side, readers, builder, built, events, compact>>,
           DOMAIN disk'.idx \subseteq Old, DOMAIN runtime' \subseteq Old, DOMAIN pub'.idx \subseteq Old
    PROVE  IdsOld'
    <1>1. Old' = Old /\ \A s : Components(s)' = Components(s)
        BY DEF Old, Components
    <1>2. QED
        BY <1>1 DEF IdsOld

LEMMA MemsSame ==
    ASSUME MemtablesKnow, UNCHANGED <<reg, active, frozen, builder, overtaken>>, pub'.mems = pub.mems \/ pub'.mems = Mems,
           DOMAIN disk'.idx \subseteq DOMAIN disk.idx,
           core.pc \in {"ensure", "seed"} => core'.pc \in {"ensure", "seed"} /\ core'.i = core.i
    PROVE  MemtablesKnow'
    <1>1. Mems' = Mems
        BY DEF Mems
    <1>2. QED
        BY <1>1 DEF MemtablesKnow

LEMMA EmptyIdx == <<>> \in Idx /\ DOMAIN <<>> = {}
    <1>1. <<>> \in [{} -> Entries]
        OBVIOUS
    <1>2. QED
        BY <1>1 DEF Idx

LEMMA NoOpFacts ==
    NoOp \in [pc : CoreOps, i : Ids \cup {0}, idx : Idx] /\ NoOp.pc = "idle"
    BY EmptyIdx DEF NoOp, CoreOps

-----------------------------------------------------------------------------
(* The operations of the core *)

LEMMA EnsureStep ==
    ASSUME IndexInv, NEW spec \in Specs, EnsureIndex(spec) PROVE IndexInv'
    <1>0. UNCHANGED <<runtime, active, frozen, nextPart, reg, side, readers, pub,
                      jobs, worker, builder, built, events, compact, followups, overtaken, troubles>>
        BY DEF EnsureIndex, flushVars
    <1>1. core.pc = "idle" /\ DOMAIN runtime = DOMAIN disk.idx /\ DOMAIN disk.idx \subseteq Old
        BY DEF EnsureIndex, CoreIdle, IndexInv, CopiesSynced, IdsOld
    <1> DEFINE n == disk.nextId
               new == [x \in DOMAIN disk.idx \cup {n} |->
                          IF x = n THEN [spec |-> spec, state |-> "building"] ELSE disk.idx[x]]
    <1>2. CASE n \in Ids /\ disk' = [disk EXCEPT !.idx = new, !.nextId = n + 1]
               /\ core' = [pc |-> "ensure", i |-> n, idx |-> new]
        <2>1. /\ disk.idx \in Idx /\ DOMAIN disk.idx \subseteq Ids /\ n \in Nat /\ Ids \subseteq Nat
              /\ \A i \in DOMAIN disk.idx : disk.idx[i] \in Entries
            BY DiskFacts DEF IndexInv
        <2>2. [spec |-> spec, state |-> "building"] \in Entries
            BY DEF Entries, States
        <2>3. new \in [DOMAIN disk.idx \cup {n} -> Entries]
            BY <2>1, <2>2
        <2>4. new \in Idx /\ DOMAIN new = DOMAIN disk.idx \cup {n} /\ new[n].state = "building"
              /\ \A i \in DOMAIN disk.idx : new[i] = disk.idx[i] \/ new[i].state = "building"
            BY <1>2, <2>1, <2>3 DEF Idx
        <2> HIDE DEF new
        <2>5. /\ disk' \in [segs : SUBSET Parts, idx : Idx, nextId : Nat]
              /\ disk'.segs = disk.segs /\ disk'.idx = new /\ disk'.nextId = n + 1
            <3>1. disk \in [segs : SUBSET Parts, idx : Idx, nextId : Nat] /\ n + 1 \in Nat
                BY <2>1 DEF IndexInv, TypeOK
            <3> HIDE DEF n
            <3>2. QED
                BY <1>2, <2>4, <3>1
        <2>6. core' \in [pc : CoreOps, i : Ids \cup {0}, idx : Idx]
            BY <1>2, <2>4 DEF CoreOps
        <2>7. core'.pc = "ensure" /\ core'.i = n /\ core'.idx = new
            BY <1>2
        <2>8. TypeOK'
            BY <1>0, <1>2, <2>5, <2>6, <2>7 DEF IndexInv, TypeOK
        <2>9. PartsApart'
            BY <1>0, <2>5, PartsSame DEF IndexInv
        <2>10. Old' = Old \cup {n} /\ n \notin Old
            BY <1>2, <2>1, <2>5 DEF Old
        <2>11. \A s : Components(s)' = Components(s)
            BY <1>0, SidesSame
        <2>12. IdsOld'
            BY <1>0, <2>4, <2>5, <2>10, <2>11 DEF IndexInv, IdsOld
        <2>13. IdsGone'
            BY <1>0, <2>4, <2>5, <2>7, <2>10 DEF IndexInv, IdsGone
        <2>14. CopiesSynced'
            BY <1>0, <2>5, <2>7, <2>10 DEF IndexInv, CopiesSynced, IdsOld
        <2>15. MemtablesKnow'
            <3>1. Mems' = Mems
                BY <1>0 DEF Mems
            <3>2. \A b \in builder : b.entries \cap DOMAIN disk'.idx = b.entries \cap DOMAIN disk.idx
                BY <2>4, <2>5, <2>10 DEF IndexInv, IdsOld
            <3>3. QED
                BY <1>0, <1>1, <2>4, <2>5, <2>7, <3>1, <3>2 DEF IndexInv, MemtablesKnow
        <2>16. NoneComesBack
            BY <1>0, <2>4, <2>5, <2>10 DEF NoneComesBack
        <2>17. SidecarsComplete'
            BY <1>0, <2>16, SidecarsSame DEF IndexInv
        <2>18. ReadyCovered'
            <3>1. \A i \in DOMAIN disk'.idx : disk'.idx[i].state = "ready" =>
                      i \in DOMAIN disk.idx /\ disk.idx[i].state = "ready"
                BY <2>4, <2>5
            <3>2. QED
                BY <1>0, <2>5, <3>1, ReadySame, SidesSame DEF IndexInv
        <2>19. QED
            BY <2>8, <2>9, <2>12, <2>13, <2>14, <2>15, <2>17, <2>18 DEF IndexInv
    <1>3. CASE \E i \in DOMAIN disk.idx :
                   /\ disk.idx[i] = [spec |-> spec, state |-> "failed"]
                   /\ disk' = [disk EXCEPT !.idx = Mark(disk.idx, {i}, "building")]
                   /\ core' = [pc |-> "retry", i |-> i, idx |-> Mark(disk.idx, {i}, "building")]
        <2>1. PICK i \in DOMAIN disk.idx :
                   /\ disk' = [disk EXCEPT !.idx = Mark(disk.idx, {i}, "building")]
                   /\ core' = [pc |-> "retry", i |-> i, idx |-> Mark(disk.idx, {i}, "building")]
            BY <1>3
        <2> DEFINE mark == Mark(disk.idx, {i}, "building")
        <2>2. disk.idx \in Idx /\ i \in Ids /\ "building" \in States
            BY DiskFacts DEF IndexInv, States
        <2>3. /\ mark \in Idx /\ DOMAIN mark = DOMAIN disk.idx
              /\ \A x \in DOMAIN mark : mark[x].state = "ready" => disk.idx[x].state = "ready"
            BY <2>2, MarkFacts
        <2> HIDE DEF mark
        <2>4. /\ disk' \in [segs : SUBSET Parts, idx : Idx, nextId : Nat]
              /\ disk'.idx = mark /\ disk'.segs = disk.segs /\ disk'.nextId = disk.nextId
              /\ DOMAIN disk'.idx = DOMAIN disk.idx
            BY <2>1, <2>3, Rewritten DEF IndexInv, mark
        <2>5. core' \in [pc : CoreOps, i : Ids \cup {0}, idx : Idx]
            BY <2>1, <2>2, <2>3 DEF CoreOps, mark
        <2>6. core'.pc = "retry" /\ core'.idx = mark /\ core'.i = i
            BY <2>1 DEF mark
        <2>7. TypeOK'
            BY <1>0, <2>2, <2>4, <2>5, <2>6 DEF IndexInv, TypeOK
        <2>8. PartsApart'
            BY <1>0, <2>4, PartsSame DEF IndexInv
        <2>9. IdsOld'
            BY <1>0, <1>1, <2>4, IdsSame DEF IndexInv, IdsOld
        <2>10. Old' = Old
            BY <2>4 DEF Old
        <2>11. IdsGone'
            BY <1>0, <2>4, <2>6, <2>10 DEF IndexInv, IdsGone
        <2>12. CopiesSynced'
            BY <1>0, <1>1, <2>3, <2>4, <2>6 DEF IndexInv, CopiesSynced
        <2>13. MemtablesKnow'
            BY <1>0, <1>1, <2>4, MemsSame DEF IndexInv
        <2>14. SidecarsComplete'
            BY <1>0, <2>4, SidecarsSame DEF IndexInv, NoneComesBack
        <2>15. ReadyCovered'
            BY <1>0, <2>3, <2>4, ReadySame, SidesSame DEF IndexInv
        <2>16. QED
            BY <2>7, <2>8, <2>9, <2>11, <2>12, <2>13, <2>14, <2>15 DEF IndexInv
    <1>4. \/ n \in Ids /\ disk' = [disk EXCEPT !.idx = new, !.nextId = n + 1]
             /\ core' = [pc |-> "ensure", i |-> n, idx |-> new]
          \/ \E i \in DOMAIN disk.idx :
                /\ disk.idx[i] = [spec |-> spec, state |-> "failed"]
                /\ disk' = [disk EXCEPT !.idx = Mark(disk.idx, {i}, "building")]
                /\ core' = [pc |-> "retry", i |-> i, idx |-> Mark(disk.idx, {i}, "building")]
        BY ZenonT(60) DEF EnsureIndex
    <1>5. QED
        BY <1>2, <1>3, <1>4

LEMMA DropStep ==
    ASSUME IndexInv, NEW spec \in Specs, DropIndex(spec) PROVE IndexInv'
    <1>0. UNCHANGED <<runtime, active, frozen, nextPart, reg, side, readers, pub,
                      jobs, worker, builder, built, events, compact, followups, overtaken, troubles>>
        BY DEF DropIndex, flushVars
    <1>1. core.pc = "idle" /\ DOMAIN runtime = DOMAIN disk.idx /\ DOMAIN disk.idx \subseteq Old
        BY DEF DropIndex, CoreIdle, IndexInv, CopiesSynced, IdsOld
    <1>2. PICK i \in DOMAIN disk.idx :
              /\ disk' = [disk EXCEPT !.idx = Restrict(disk.idx, DOMAIN disk.idx \ {i})]
              /\ core' = [pc |-> "drop", i |-> i, idx |-> Restrict(disk.idx, DOMAIN disk.idx \ {i})]
        BY DEF DropIndex
    <1> DEFINE rest == Restrict(disk.idx, DOMAIN disk.idx \ {i})
    <1>3. /\ disk.idx \in Idx /\ DOMAIN disk.idx \subseteq Ids
          /\ \A x \in DOMAIN disk.idx : disk.idx[x] \in Entries
        BY DiskFacts DEF IndexInv
    <1>4. rest = [x \in DOMAIN disk.idx \ {i} |-> disk.idx[x]]
        BY DEF Restrict
    <1> HIDE DEF rest
    <1>5. /\ rest \in [DOMAIN disk.idx \ {i} -> Entries] /\ DOMAIN rest = DOMAIN disk.idx \ {i}
          /\ \A x \in DOMAIN rest : rest[x] = disk.idx[x]
        BY <1>3, <1>4
    <1>6. rest \in Idx
        BY <1>3, <1>5 DEF Idx
    <1>7. /\ disk' \in [segs : SUBSET Parts, idx : Idx, nextId : Nat]
          /\ disk'.segs = disk.segs /\ disk'.idx = rest /\ disk'.nextId = disk.nextId
        BY <1>2, <1>6 DEF IndexInv, TypeOK, rest
    <1>8. core' \in [pc : CoreOps, i : Ids \cup {0}, idx : Idx]
        BY <1>2, <1>3, <1>6 DEF CoreOps, rest
    <1>9. core'.pc = "drop" /\ core'.i = i /\ core'.idx = rest
        BY <1>2 DEF rest
    <1>10. TypeOK'
        BY <1>0, <1>7, <1>8, <1>9 DEF IndexInv, TypeOK
    <1>11. PartsApart'
        BY <1>0, <1>7, PartsSame DEF IndexInv
    <1>12. Old' = Old /\ DOMAIN disk'.idx \subseteq DOMAIN disk.idx
        BY <1>5, <1>7 DEF Old
    <1>13. IdsOld'
        BY <1>0, <1>1, <1>7, <1>12, IdsSame DEF IndexInv, IdsOld
    <1>14. IdsGone'
        BY <1>0, <1>1, <1>5, <1>7, <1>9, <1>12 DEF IndexInv, IdsGone
    <1>15. CopiesSynced'
        BY <1>0, <1>7, <1>9 DEF IndexInv, CopiesSynced
    <1>16. MemtablesKnow'
        BY <1>0, <1>1, <1>12, MemsSame DEF IndexInv
    <1>17. SidecarsComplete'
        BY <1>0, <1>12, SidecarsSame DEF IndexInv, NoneComesBack
    <1>18. ReadyCovered'
        BY <1>0, <1>5, <1>7, ReadySame, SidesSame DEF IndexInv
    <1>19. QED
        BY <1>10, <1>11, <1>13, <1>14, <1>15, <1>16, <1>17, <1>18 DEF IndexInv

LEMMA SyncStep ==
    ASSUME IndexInv, SyncCatalog PROVE IndexInv'
    <1>0. UNCHANGED <<disk, active, frozen, nextPart, reg, side, readers, pub, jobs,
                      worker, builder, built, events, compact, followups, overtaken, troubles>>
        BY DEF SyncCatalog, flushVars
    <1>1. core.pc \in {"ensure", "retry", "drop", "compacted"} /\ runtime' = core.idx
        BY DEF SyncCatalog
    <1>2. core \in [pc : CoreOps, i : Ids \cup {0}, idx : Idx] /\ DOMAIN core.idx = DOMAIN disk.idx
        BY <1>1 DEF IndexInv, TypeOK, CopiesSynced
    <1> DEFINE next == CASE core.pc = "ensure"    -> "seed"
                         [] core.pc = "retry"     -> "reseed"
                         [] core.pc = "drop"      -> "remove"
                         [] core.pc = "compacted" -> "swap"
    <1>3. core' = [core EXCEPT !.pc = next]
        BY DEF SyncCatalog
    <1>4. /\ core.pc = "ensure" => next = "seed"
          /\ core.pc = "retry" => next = "reseed"
          /\ core.pc = "drop" => next = "remove"
          /\ core.pc = "compacted" => next = "swap"
        OBVIOUS
    <1> HIDE DEF next
    <1>5. next \in CoreOps /\ next \in {"seed", "reseed", "remove", "swap"}
        BY <1>1, <1>4 DEF CoreOps
    <1>6. core' \in [pc : CoreOps, i : Ids \cup {0}, idx : Idx] /\ core'.pc = next /\ core'.i = core.i
        BY <1>2, <1>3, <1>5
    <1>7. core.idx \in Idx
        BY <1>2
    <1>8. TypeOK'
        BY <1>0, <1>1, <1>4, <1>6, <1>7 DEF IndexInv, TypeOK
    <1>9. PartsApart'
        BY <1>0, PartsSame DEF IndexInv
    <1>10. IdsOld'
        BY <1>0, <1>1, <1>2, IdsSame DEF IndexInv, IdsOld
    <1>11. Old' = Old
        BY <1>0 DEF Old
    <1>12. IdsGone'
        BY <1>0, <1>1, <1>4, <1>6, <1>11 DEF IndexInv, IdsGone
    <1>13. CopiesSynced'
        BY <1>0, <1>1, <1>2, <1>5, <1>6 DEF IndexInv, CopiesSynced
    <1>14. MemtablesKnow'
        BY <1>0, <1>1, <1>4, <1>6, MemsSame DEF IndexInv
    <1>15. SidecarsComplete'
        BY <1>0, SidecarsSame DEF IndexInv, NoneComesBack
    <1>16. ReadyCovered'
        BY <1>0, ReadySame, SidesSame DEF IndexInv
    <1>17. QED
        BY <1>8, <1>9, <1>10, <1>12, <1>13, <1>14, <1>15, <1>16 DEF IndexInv

\* The memtables forget an index, or learn one.
LEMMA RegFacts ==
    ASSUME TypeOK, NEW i
    PROVE  /\ Unregister(i) \in [Parts -> SUBSET Ids]
           /\ i \in Ids => Register(i) \in [Parts -> SUBSET Ids]
           /\ Mems \subseteq Parts
           /\ \A m \in Parts : /\ \A x \in reg[m] : x # i => x \in Unregister(i)[m]
                               /\ \A x \in reg[m] : x \in Register(i)[m]
           /\ \A m \in Mems : i \in Register(i)[m]
    <1>1. reg \in [Parts -> SUBSET Ids] /\ Mems \subseteq Parts
        BY DEF TypeOK, Mems
    <1>2. QED
        BY <1>1 DEF Register, Unregister

LEMMA ForgetStep ==
    ASSUME IndexInv, ForgetRetried PROVE IndexInv'
    <1>0. UNCHANGED <<disk, runtime, active, frozen, nextPart, side, readers, pub,
                      jobs, worker, builder, built, events, compact, followups, troubles>>
        BY DEF ForgetRetried, flushVars
    <1>1. /\ core.pc = "reseed" /\ reg' = Unregister(core.i) /\ core' = [core EXCEPT !.pc = "seed"]
          /\ overtaken \subseteq overtaken'
          /\ \A b \in builder : ~b.own /\ core.i \in b.entries => core.i \in overtaken'
        BY DEF ForgetRetried
    <1>2. core' \in [pc : CoreOps, i : Ids \cup {0}, idx : Idx] /\ core'.pc = "seed" /\ core'.i = core.i
        BY <1>1 DEF IndexInv, TypeOK, CoreOps
    <1>3. TypeOK'
        BY <1>0, <1>1, <1>2, RegFacts DEF IndexInv, TypeOK
    <1>4. PartsApart'
        BY <1>0, PartsSame DEF IndexInv
    <1>5. IdsOld'
        BY <1>0, IdsSame DEF IndexInv, IdsOld
    <1>6. Old' = Old
        BY <1>0 DEF Old
    <1>7. IdsGone'
        BY <1>0, <1>2, <1>6 DEF IndexInv, IdsGone
    <1>8. CopiesSynced'
        BY <1>0, <1>1, <1>2 DEF IndexInv, CopiesSynced
    <1>9. MemtablesKnow'
        <2>1. Mems' = Mems
            BY <1>0 DEF Mems
        <2>2. \A m \in Mems : \A i \in DOMAIN disk.idx : i \in reg'[m] \/ i = core.i
            BY <1>1, RegFacts DEF IndexInv, MemtablesKnow
        <2>3. \A b \in builder : b.own \/ \A i \in (b.entries \cap DOMAIN disk.idx) \ overtaken' : i \in reg'[b.part]
            BY <1>1, RegFacts, Elements DEF IndexInv, MemtablesKnow
        <2>4. QED
            BY <1>0, <1>1, <1>2, <2>1, <2>2, <2>3 DEF IndexInv, MemtablesKnow
    <1>10. SidecarsComplete'
        BY <1>0, <1>1, SidecarsSame DEF IndexInv, NoneComesBack
    <1>11. ReadyCovered'
        BY <1>0, <1>1, ReadySame, SidesSame DEF IndexInv
    <1>12. QED
        BY <1>3, <1>4, <1>5, <1>7, <1>8, <1>9, <1>10, <1>11 DEF IndexInv

LEMMA PublishFacts ==
    ASSUME NEW mems, NEW opened, NEW idx, pub' = [mems |-> mems, readers |-> opened, idx |-> idx]
    PROVE  pub'.mems = mems /\ pub'.readers = opened /\ pub'.idx = idx
    OBVIOUS

LEMMA SeedStep ==
    ASSUME IndexInv, SeedMemtables PROVE IndexInv'
    <1>0. UNCHANGED <<disk, runtime, active, frozen, nextPart, side, readers,
                      worker, builder, built, events, compact, followups, overtaken, troubles>>
        BY DEF SeedMemtables, flushVars
    <1>1. core.pc = "seed" /\ reg' = Register(core.i) /\ core' = NoOp
          /\ jobs' = Append(jobs, [kind |-> "build", i |-> core.i])
        BY DEF SeedMemtables
    <1>2. pub'.mems = Mems /\ pub'.readers = readers /\ pub'.idx = runtime
        BY PublishFacts DEF SeedMemtables, Publish
    <1>3. core.i \in Ids /\ DOMAIN runtime = DOMAIN disk.idx /\ jobs \in Seq(ToSet(jobs))
        BY <1>1 DEF IndexInv, TypeOK, CopiesSynced
    <1>4. /\ jobs' \in Seq(ToSet(jobs')) /\ \A j \in ToSet(jobs') : j.kind = "drop" => j \in ToSet(jobs)
        BY <1>1, <1>3, JobAppended
    <1>5. core' \in [pc : CoreOps, i : Ids \cup {0}, idx : Idx] /\ core'.pc = "idle"
        BY <1>1, NoOpFacts
    <1>6. TypeOK'
        BY <1>0, <1>1, <1>3, <1>4, <1>5, RegFacts DEF IndexInv, TypeOK
    <1>7. PartsApart'
        BY <1>0, PartsSame DEF IndexInv
    <1>8. IdsOld'
        BY <1>0, <1>2, IdsSame DEF IndexInv, IdsOld
    <1>9. Old' = Old
        BY <1>0 DEF Old
    <1>10. IdsGone'
        BY <1>0, <1>4, <1>5, <1>9 DEF IndexInv, IdsGone
    <1>11. CopiesSynced'
        BY <1>0, <1>2, <1>3, <1>5 DEF CopiesSynced
    <1>12. MemtablesKnow'
        <2>1. Mems' = Mems
            BY <1>0 DEF Mems
        <2>2. \A m \in Mems : \A i \in DOMAIN disk.idx : i \in reg'[m]
            BY <1>1, RegFacts DEF IndexInv, MemtablesKnow
        <2>3. \A b \in builder : b.part \in Parts
            BY Elements DEF IndexInv
        <2>4. QED
            BY <1>0, <1>1, <1>2, <2>1, <2>2, <2>3, RegFacts DEF IndexInv, MemtablesKnow
    <1>13. SidecarsComplete'
        BY <1>0, SidecarsSame DEF IndexInv, NoneComesBack
    <1>14. ReadyCovered'
        BY <1>0, ReadySame, SidesSame DEF IndexInv
    <1>15. QED
        BY <1>6, <1>7, <1>8, <1>10, <1>11, <1>12, <1>13, <1>14 DEF IndexInv

LEMMA RemoveStep ==
    ASSUME IndexInv, RemoveFromMemtables PROVE IndexInv'
    <1>0. UNCHANGED <<disk, runtime, active, frozen, nextPart, side, readers,
                      worker, builder, built, events, compact, followups, overtaken, troubles>>
        BY DEF RemoveFromMemtables, flushVars
    <1>1. core.pc = "remove" /\ reg' = Unregister(core.i) /\ core' = NoOp
          /\ jobs' = Append(jobs, [kind |-> "drop", i |-> core.i])
        BY DEF RemoveFromMemtables
    <1>2. pub'.mems = Mems /\ pub'.readers = readers /\ pub'.idx = runtime
        BY PublishFacts DEF RemoveFromMemtables, Publish
    <1>3. /\ core.i \in Old \ DOMAIN disk.idx /\ DOMAIN runtime = DOMAIN disk.idx
          /\ jobs \in Seq(ToSet(jobs))
        BY <1>1 DEF IndexInv, TypeOK, CopiesSynced, IdsGone
    <1>4. /\ jobs' \in Seq(ToSet(jobs'))
          /\ \A j \in ToSet(jobs') : j \in ToSet(jobs) \/ j.i = core.i
        BY <1>1, <1>3, JobAppended
    <1>5. core' \in [pc : CoreOps, i : Ids \cup {0}, idx : Idx] /\ core'.pc = "idle"
        BY <1>1, NoOpFacts
    <1>6. TypeOK'
        BY <1>0, <1>1, <1>4, <1>5, RegFacts DEF IndexInv, TypeOK
    <1>7. PartsApart'
        BY <1>0, PartsSame DEF IndexInv
    <1>8. IdsOld'
        BY <1>0, <1>2, IdsSame DEF IndexInv, IdsOld
    <1>9. Old' = Old
        BY <1>0 DEF Old
    <1>10. IdsGone'
        BY <1>0, <1>3, <1>4, <1>5, <1>9 DEF IndexInv, IdsGone
    <1>11. CopiesSynced'
        BY <1>0, <1>2, <1>3, <1>5 DEF CopiesSynced
    <1>12. MemtablesKnow'
        <2>1. Mems' = Mems
            BY <1>0 DEF Mems
        <2>2. \A m \in Parts : \A i \in DOMAIN disk.idx : i \in reg[m] => i \in reg'[m]
            BY <1>1, <1>3, RegFacts DEF IndexInv
        <2>3. \A b \in builder : b.part \in Parts
            BY Elements DEF IndexInv
        <2>4. QED
            BY <1>0, <1>1, <1>2, <2>1, <2>2, <2>3, RegFacts DEF IndexInv, MemtablesKnow
    <1>13. SidecarsComplete'
        BY <1>0, SidecarsSame DEF IndexInv, NoneComesBack
    <1>14. ReadyCovered'
        BY <1>0, ReadySame, SidesSame DEF IndexInv
    <1>15. QED
        BY <1>6, <1>7, <1>8, <1>10, <1>11, <1>12, <1>13, <1>14 DEF IndexInv

-----------------------------------------------------------------------------
(* Freeze, flush, adoption *)

LEMMA FreezeStep ==
    ASSUME IndexInv, Freeze PROVE IndexInv'
    <1>0. UNCHANGED <<disk, runtime, side, readers, jobs, worker, builder, built, events, compact,
                      core, followups, overtaken, troubles>>
        BY DEF Freeze, flushVars
    <1>1. /\ core.pc = "idle" /\ nextPart \in Parts /\ active' = nextPart /\ nextPart' = nextPart + 1
          /\ frozen' = Mems /\ reg' = [reg EXCEPT ![nextPart] = DOMAIN runtime]
        BY DEF Freeze, CoreIdle
    <1>2. pub'.mems = Mems \cup {nextPart} /\ pub'.readers = readers /\ pub'.idx = runtime
        BY PublishFacts DEF Freeze, Publish
    <1>3. DOMAIN runtime = DOMAIN disk.idx /\ DOMAIN disk.idx \subseteq Ids /\ Parts \subseteq Nat
          /\ Mems \subseteq Parts /\ disk.segs \subseteq Parts
        BY <1>1, DiskFacts DEF IndexInv, CopiesSynced, TypeOK, Mems
    <1>4. reg' \in [Parts -> SUBSET Ids] /\ reg'[nextPart] = DOMAIN disk.idx
          /\ \A m \in Parts : m # nextPart => reg'[m] = reg[m]
        BY <1>1, <1>3 DEF IndexInv, TypeOK
    <1>5. nextPart \in Nat /\ nextPart + 1 \in Nat /\ \A p \in Parts : p < nextPart => p < nextPart + 1 /\ p # nextPart
        BY <1>1, <1>3
    <1>6. TypeOK'
        BY <1>0, <1>1, <1>3, <1>4, <1>5 DEF IndexInv, TypeOK
    <1>7. Mems' = Mems \cup {nextPart} /\ nextPart \notin Mems \cup disk.segs \cup DOMAIN readers
        <2>1. Mems' = Mems \cup {nextPart}
            BY <1>1 DEF Mems
        <2>2. \A p \in Mems \cup disk.segs \cup DOMAIN readers : p \in Parts /\ p < nextPart
            BY <1>3, Elements DEF IndexInv, PartsApart
        <2>3. QED
            BY <1>5, <2>1, <2>2
    <1>8. PartsApart'
        <2>1. \A p \in (Mems \cup disk.segs \cup DOMAIN readers)' : p < nextPart'
            <3>1. \A p \in Mems \cup disk.segs \cup DOMAIN readers : p \in Parts /\ p < nextPart
                BY <1>3, Elements DEF IndexInv, PartsApart
            <3>2. nextPart < nextPart + 1
                BY <1>5
            <3>3. QED
                BY <1>0, <1>1, <1>5, <1>7, <3>1, <3>2
        <2>2. active' \notin (frozen \cup disk.segs \cup DOMAIN readers)' /\ (frozen \cap DOMAIN readers)' = {}
            BY <1>0, <1>1, <1>7 DEF IndexInv, PartsApart, Mems
        <2>3. \A b \in builder' : b.part \in frozen' \ disk'.segs
            BY <1>0, <1>1 DEF IndexInv, PartsApart, Mems
        <2>4. \A k \in DOMAIN built' : built'[k].part \in frozen' \ disk'.segs
            BY <1>0, <1>1 DEF IndexInv, PartsApart, Mems
        <2>5. \A k \in DOMAIN events' : events'[k].part \in frozen' \cap disk'.segs
            BY <1>0, <1>1 DEF IndexInv, PartsApart, Mems
        <2>6. \A c \in compact' : c.out < nextPart' /\ c.out \notin (Mems \cup DOMAIN readers)'
            <3>1. \A c \in compact : c.out < nextPart /\ c.out \notin Mems \cup DOMAIN readers /\ c.out \in Parts
                BY Elements DEF IndexInv, PartsApart
            <3>2. QED
                BY <1>0, <1>1, <1>5, <1>7, <3>1
        <2>7. QED
            BY <1>0, <2>1, <2>2, <2>3, <2>4, <2>5, <2>6 DEF IndexInv, PartsApart
    <1>9. IdsOld'
        BY <1>0, <1>2, IdsSame DEF IndexInv, IdsOld
    <1>10. Old' = Old
        BY <1>0 DEF Old
    <1>11. IdsGone'
        BY <1>0, <1>10 DEF IndexInv, IdsGone
    <1>12. CopiesSynced'
        BY <1>0, <1>1, <1>2 DEF IndexInv, CopiesSynced
    <1>13. MemtablesKnow'
        <2>1. \A m \in Mems : reg'[m] = reg[m]
            BY <1>3, <1>4, <1>7
        <2>2. \A b \in builder : b.part \in Mems
            BY DEF IndexInv, PartsApart, Mems
        <2>3. QED
            BY <1>0, <1>1, <1>2, <1>4, <1>7, <2>1, <2>2 DEF IndexInv, MemtablesKnow
    <1>14. SidecarsComplete'
        BY <1>0, SidecarsSame DEF IndexInv, NoneComesBack
    <1>15. ReadyCovered'
        BY <1>0, ReadySame, SidesSame DEF IndexInv
    <1>16. QED
        BY <1>6, <1>8, <1>9, <1>11, <1>12, <1>13, <1>14, <1>15 DEF IndexInv

LEMMA StartBuildStep ==
    ASSUME IndexInv, StartBuild PROVE IndexInv'
    <1>0. UNCHANGED <<disk, runtime, active, frozen, nextPart, reg, side, readers,
                      pub, jobs, worker, built, events, compact, core, followups, overtaken, troubles>>
        BY DEF StartBuild
    <1> DEFINE m == Min(frozen \ InPipeline)
               b == [part |-> m, entries |-> DOMAIN runtime, own |-> ~(DOMAIN runtime \subseteq reg[m])]
    <1>1. builder = {} /\ frozen \ InPipeline # {} /\ builder' = {b}
        BY DEF StartBuild
    <1>2. m \in frozen /\ m \notin InPipeline
        <2> DEFINE waiting == frozen \ InPipeline
        <2>1. waiting \in SUBSET Parts /\ waiting # {} /\ m = Min(waiting)
            BY <1>1 DEF IndexInv, TypeOK
        <2> HIDE DEF waiting, m
        <2>2. m \in waiting
            BY <2>1, SmallestPart
        <2>3. QED
            BY <2>2 DEF waiting
    <1> HIDE DEF m
    <1>3. DOMAIN runtime \subseteq Ids /\ DOMAIN runtime \subseteq Old /\ m \in Parts
        BY <1>2, IdxFacts DEF IndexInv, TypeOK, IdsOld
    <1>4. b \in Builder /\ b.part = m /\ b.entries = DOMAIN runtime /\ (b.own \/ DOMAIN runtime \subseteq reg[m])
        BY <1>3 DEF Builder
    <1> HIDE DEF b
    <1>5. m \notin disk.segs /\ \A k \in DOMAIN built : built[k].part # m
        <2>1. m \notin {c.part : c \in builder \cup ToSet(built)} /\ m \notin disk.segs
            BY <1>2 DEF InPipeline
        <2>2. \A k \in DOMAIN built : built[k] \in ToSet(built)
            BY DEF IndexInv, TypeOK, ToSet
        <2>3. QED
            BY <2>1, <2>2
    <1>6. TypeOK'
        BY <1>0, <1>1, <1>4 DEF IndexInv, TypeOK
    <1>7. PartsApart'
        <2>1. Mems' = Mems
            BY <1>0 DEF Mems
        <2>2. \A c \in builder' : c = b
            BY <1>1
        <2>3. QED
            BY <1>0, <1>2, <1>4, <1>5, <2>1, <2>2 DEF IndexInv, PartsApart
    <1>8. Old' = Old /\ \A s : Components(s)' = Components(s)
        BY <1>0, SidesSame DEF Old
    <1>9. IdsOld'
        BY <1>0, <1>1, <1>3, <1>4, <1>8 DEF IndexInv, IdsOld
    <1>10. IdsGone'
        BY <1>0, <1>8 DEF IndexInv, IdsGone
    <1>11. CopiesSynced'
        BY <1>0 DEF IndexInv, CopiesSynced
    <1>12. MemtablesKnow'
        <2>1. Mems' = Mems
            BY <1>0 DEF Mems
        <2>2. \A c \in builder' : c.own \/ \A i \in c.entries \cap DOMAIN disk.idx : i \in reg[c.part]
            BY <1>1, <1>4
        <2>3. QED
            BY <1>0, <2>1, <2>2 DEF IndexInv, MemtablesKnow
    <1>13. SidecarsComplete'
        BY <1>0, SidecarsSame DEF IndexInv, NoneComesBack
    <1>14. ReadyCovered'
        BY <1>0, ReadySame, SidesSame DEF IndexInv
    <1>15. QED
        BY <1>6, <1>7, <1>9, <1>10, <1>11, <1>12, <1>13, <1>14 DEF IndexInv

LEMMA WriteStep ==
    ASSUME IndexInv, WriteSegment PROVE IndexInv'
    <1>0. UNCHANGED <<disk, runtime, active, frozen, nextPart, reg, readers, pub,
                      jobs, worker, events, compact, core, followups, overtaken, troubles>>
        BY DEF WriteSegment
    <1>1. PICK b \in builder :
              /\ side' = [side EXCEPT ![b.part] = [i \in Ids |->
                    IF i \notin b.entries THEN "none"
                    ELSE IF b.own \/ i \in reg[b.part] THEN "full" ELSE "empty"]]
              /\ built' = Append(built, b) /\ builder' = {}
        BY DEF WriteSegment
    <1>2. b \in Builder /\ b.part \in Parts /\ built \in Seq(Builder)
        BY Elements DEF IndexInv, TypeOK
    <1>3. /\ side' \in [Parts -> [Ids -> {"none", "full", "empty", "bad"}]]
          /\ \A s \in Parts : s # b.part => side'[s] = side[s]
          /\ \A i \in Ids : /\ i \notin b.entries => side'[b.part][i] = "none"
                            /\ side'[b.part][i] = "empty" => ~b.own /\ i \notin reg[b.part]
                            /\ side'[b.part][i] # "bad"
                            /\ i \in b.entries => side'[b.part][i] # "none"
        BY <1>1, <1>2 DEF IndexInv, TypeOK
    <1>4. /\ built' \in Seq(Builder)
          /\ \A k \in DOMAIN built' :
                (k \in DOMAIN built /\ built'[k] = built[k]) \/ (k = Len(built) + 1 /\ built'[k] = b)
        BY <1>1, <1>2, AppendFacts
    <1>5. b.part \in frozen \ disk.segs /\ \A k \in DOMAIN built : built[k].part # b.part
        BY DEF IndexInv, PartsApart
    <1>6. TypeOK'
        BY <1>0, <1>1, <1>3, <1>4 DEF IndexInv, TypeOK
    <1>7. PartsApart'
        <2>1. Mems' = Mems
            BY <1>0 DEF Mems
        <2>2. \A k \in DOMAIN built' : built'[k].part \in frozen \ disk.segs
            BY <1>4, <1>5 DEF IndexInv, PartsApart
        <2>3. \A k \in DOMAIN built' : \A j \in DOMAIN built' : built'[j].part = built'[k].part => j = k
            BY <1>4, <1>5 DEF IndexInv, PartsApart
        <2>4. QED
            BY <1>0, <1>1, <2>1, <2>2, <2>3 DEF IndexInv, PartsApart
    <1>8. Old' = Old /\ Old \subseteq Ids /\ b.entries \subseteq Old
        BY <1>0 DEF Old, IndexInv, IdsOld
    <1>9. \A s \in Parts : Components(s)' \subseteq Old
        <2>1. \A s \in Parts : s # b.part => Components(s)' = Components(s)
            BY <1>3 DEF Components
        <2>2. Components(b.part)' \subseteq b.entries
            BY <1>1, <1>2, <1>3 DEF Components
        <2>3. QED
            BY <1>8, <2>1, <2>2 DEF IndexInv, IdsOld
    <1>10. IdsOld'
        BY <1>0, <1>1, <1>4, <1>8, <1>9 DEF IndexInv, IdsOld
    <1>11. IdsGone'
        BY <1>0, <1>8 DEF IndexInv, IdsGone
    <1>12. CopiesSynced'
        BY <1>0 DEF IndexInv, CopiesSynced
    <1>13. MemtablesKnow'
        <2>1. Mems' = Mems
            BY <1>0 DEF Mems
        <2>2. QED
            BY <1>0, <1>1, <2>1 DEF IndexInv, MemtablesKnow
    <1>14. \A s \in Parts : \A S : s # b.part /\ Covered(s, S) => CoveredNext(s, S)
        BY <1>0, <1>3 DEF Covered, CoveredNext
    <1>15. DOMAIN disk.idx \subseteq Ids /\ \A i \in DOMAIN disk.idx \ overtaken : side'[b.part][i] # "empty"
        <2>1. DOMAIN disk.idx \subseteq Ids
            BY DiskFacts DEF IndexInv
        <2>2. \A i \in (b.entries \cap DOMAIN disk.idx) \ overtaken : b.own \/ i \in reg[b.part]
            BY DEF IndexInv, MemtablesKnow
        <2>3. QED
            BY <1>3, <2>1, <2>2
    <1>16. \A S : CoveredNext(b.part, S \cap b.entries)
        BY <1>0, <1>2, <1>3, <1>15 DEF CoveredNext, IndexInv, TypeOK
    <1>17. SidecarsComplete'
        <2>1. \A s \in Parts : Covered(s, Components(s))'
            BY <1>0, <1>3, <1>15 DEF IndexInv, TypeOK, SidecarsComplete, Covered, Components
        <2>2. \A s \in DOMAIN readers : CoveredNext(s, readers[s])
            BY <1>5, <1>14, Elements DEF IndexInv, SidecarsComplete, PartsApart
        <2>3. \A k \in DOMAIN built : CoveredNext(built[k].part, built[k].entries)
            BY <1>5, <1>14, Elements DEF IndexInv, SidecarsComplete
        <2>4. \A k \in DOMAIN events : CoveredNext(events[k].part, events[k].known)
            BY <1>5, <1>14, Elements DEF IndexInv, SidecarsComplete, PartsApart
        <2>5. \A c \in compact : c.pc # "merge" => CoveredNext(c.out, DOMAIN c.idx)
            BY <1>5, <1>14, Elements DEF IndexInv, SidecarsComplete, PartsApart, Mems
        <2>6. CoveredNext(b.part, b.entries)
            BY <1>16 DEF CoveredNext
        <2>7. \A k \in DOMAIN built' : CoveredNext(built'[k].part, built'[k].entries)
            BY <1>4, <2>3, <2>6
        <2>8. QED
            BY <1>0, <2>1, <2>2, <2>4, <2>5, <2>7 DEF SidecarsComplete, Covered, CoveredNext
    <1>18. ReadyCovered'
        BY <1>0, <1>3, <1>5, DiskFacts DEF IndexInv, ReadyCovered
    <1>19. QED
        BY <1>6, <1>7, <1>10, <1>11, <1>12, <1>13, <1>17, <1>18 DEF IndexInv

LEMMA PublishStep ==
    ASSUME IndexInv, PublishSegment PROVE IndexInv'
    <1>0. UNCHANGED <<active, frozen, nextPart, reg, side, readers, pub, jobs, worker,
                      builder, compact, core, followups, overtaken, troubles>>
        BY DEF PublishSegment
    <1> DEFINE b   == Head(built)
               idx == Reconcile(disk.idx, b.entries)
               ev  == [part |-> b.part, known |-> b.entries, rebuild |-> Unmaintained(disk.idx, b.entries)]
    <1>1. /\ built # <<>> /\ disk' = [disk EXCEPT !.segs = @ \cup {b.part}, !.idx = idx]
          /\ runtime' = idx /\ events' = Append(events, ev) /\ built' = Tail(built)
        BY DEF PublishSegment
    <1>2. /\ built' \in Seq(Builder) /\ b \in Builder /\ 1 \in DOMAIN built /\ b = built[1]
          /\ \A k \in DOMAIN built' : k + 1 \in DOMAIN built /\ k + 1 # 1 /\ k \in Nat /\ built'[k] = built[k + 1]
        BY <1>1, TailFacts DEF IndexInv, TypeOK
    <1> HIDE DEF b
    <1>3. b.part \in Parts /\ b.entries \subseteq Ids
        BY <1>2 DEF Builder
    <1>4. disk.idx \in Idx /\ disk \in [segs : SUBSET Parts, idx : Idx, nextId : Nat]
        BY DEF IndexInv, TypeOK
    <1>5. /\ idx \in Idx /\ DOMAIN idx = DOMAIN disk.idx /\ Unmaintained(disk.idx, b.entries) \subseteq Ids
          /\ \A i \in DOMAIN disk.idx : idx[i].state = "ready" => i \in b.entries /\ disk.idx[i].state = "ready"
        BY <1>4, ReconcileFacts
    <1>6. ev \in Arrival /\ ev.part = b.part /\ ev.known = b.entries
        BY <1>3, <1>5 DEF Arrival
    <1> HIDE DEF idx, ev
    <1>7. /\ disk' \in [segs : SUBSET Parts, idx : Idx, nextId : Nat]
          /\ disk'.segs = disk.segs \cup {b.part} /\ disk'.idx = idx /\ disk'.nextId = disk.nextId
        BY <1>1, <1>3, <1>4, <1>5
    <1>8. /\ events' \in Seq(Arrival)
          /\ \A k \in DOMAIN events' :
                (k \in DOMAIN events /\ events'[k] = events[k]) \/ (k = Len(events) + 1 /\ events'[k] = ev)
        BY <1>1, <1>6, AppendFacts DEF IndexInv, TypeOK
    <1>9. TypeOK'
        BY <1>0, <1>1, <1>2, <1>5, <1>7, <1>8 DEF IndexInv, TypeOK
    <1>10. b.part \in frozen \ disk.segs
        BY <1>2 DEF IndexInv, PartsApart
    <1>11. PartsApart'
        <2>1. Mems' = Mems
            BY <1>0 DEF Mems
        <2>2. \A c \in builder : c.part \in frozen \ disk'.segs
            BY <1>2, <1>7 DEF IndexInv, PartsApart
        <2>3. \A k \in DOMAIN built' : built'[k].part \in frozen \ disk'.segs
            BY <1>2, <1>7 DEF IndexInv, PartsApart
        <2>4. \A k \in DOMAIN built' : \A j \in DOMAIN built' : built'[j].part = built'[k].part => j = k
            <3>1. \A k, j \in Nat : k + 1 = j + 1 => j = k
                OBVIOUS
            <3>2. QED
                BY <1>2, <3>1 DEF IndexInv, PartsApart
        <2>5. \A c \in builder : \A k \in DOMAIN built' : built'[k].part # c.part
            BY <1>2 DEF IndexInv, PartsApart
        <2>6. \A k \in DOMAIN events' : events'[k].part \in frozen \cap disk'.segs
            BY <1>6, <1>7, <1>8, <1>10 DEF IndexInv, PartsApart
        <2>7. \A k \in DOMAIN events' : \A j \in DOMAIN events' : events'[j].part = events'[k].part => j = k
            BY <1>6, <1>8, <1>10 DEF IndexInv, PartsApart
        <2>8. \A c \in compact : c.pc # "swap" => c.out \notin disk'.segs
            BY <1>7, <1>10 DEF IndexInv, PartsApart, Mems
        <2>9. /\ \A p \in Mems \cup disk'.segs \cup DOMAIN readers : p < nextPart
              /\ active \notin frozen \cup disk'.segs \cup DOMAIN readers
            BY <1>7, <1>10 DEF IndexInv, PartsApart, Mems
        <2>10. QED
            BY <1>0, <2>1, <2>2, <2>3, <2>4, <2>5, <2>6, <2>7, <2>8, <2>9 DEF IndexInv, PartsApart
    <1>12. Old' = Old /\ \A s : Components(s)' = Components(s)
        BY <1>0, <1>7, SidesSame DEF Old
    <1>13. IdsOld'
        BY <1>0, <1>1, <1>2, <1>5, <1>6, <1>7, <1>8, <1>12 DEF IndexInv, IdsOld
    <1>14. IdsGone'
        BY <1>0, <1>5, <1>7, <1>12 DEF IndexInv, IdsGone
    <1>15. CopiesSynced'
        BY <1>0, <1>1, <1>5, <1>7 DEF IndexInv, CopiesSynced
    <1>16. MemtablesKnow'
        BY <1>0, <1>5, <1>7, MemsSame DEF IndexInv
    <1>17. SidesKeep /\ NoneComesBack
        BY <1>0, <1>5, <1>7, SidesSame DEF NoneComesBack
    <1>18. SidecarsComplete'
        <2>1. \A s \in Parts : Covered(s, Components(s))'
            BY <1>0, <1>5, <1>7, <1>12 DEF IndexInv, SidecarsComplete, Covered
        <2>2. \A k \in DOMAIN built : CoveredNext(built[k].part, built[k].entries)
            BY <1>17, Kept DEF IndexInv
        <2>3. \A k \in DOMAIN events' : CoveredNext(events'[k].part, events'[k].known)
            BY <1>2, <1>6, <1>8, <1>17, <2>2, Kept DEF IndexInv
        <2>4. \A k \in DOMAIN built' : CoveredNext(built'[k].part, built'[k].entries)
            BY <1>2, <2>2
        <2>5. QED
            BY <1>0, <1>17, <2>1, <2>3, <2>4, Kept DEF IndexInv, SidecarsComplete, Covered, CoveredNext
    <1>19. ReadyCovered'
        <2>1. Covered(b.part, b.entries)
            BY <1>2 DEF IndexInv, SidecarsComplete
        <2>2. QED
            BY <1>0, <1>5, <1>7, <2>1 DEF IndexInv, ReadyCovered, Covered
    <1>20. QED
        BY <1>9, <1>11, <1>13, <1>14, <1>15, <1>16, <1>18, <1>19 DEF IndexInv

LEMMA AdoptStep ==
    ASSUME IndexInv, Adopt PROVE IndexInv'
    <1>0. UNCHANGED <<disk, runtime, active, nextPart, reg, side, worker, builder,
                      built, compact, core, followups, overtaken, troubles>>
        BY DEF Adopt
    <1> DEFINE ev == Head(events)
               opened == [s \in DOMAIN readers \cup {ev.part} |-> IF s = ev.part THEN ev.known ELSE readers[s]]
    <1>1. /\ core.pc = "idle" /\ events # <<>> /\ readers' = opened /\ frozen' = frozen \ {ev.part}
          /\ jobs' = jobs \o Builds(ev.rebuild) /\ events' = Tail(events)
        BY DEF Adopt, CoreIdle
    <1>2. pub'.mems = {active} \cup frozen' /\ pub'.readers = opened /\ pub'.idx = runtime
        BY PublishFacts DEF Adopt, Publish
    <1>3. /\ events' \in Seq(Arrival) /\ ev \in Arrival /\ 1 \in DOMAIN events /\ ev = events[1]
          /\ \A k \in DOMAIN events' : k + 1 \in DOMAIN events /\ k + 1 # 1 /\ k \in Nat
                                       /\ events'[k] = events[k + 1]
        BY <1>1, TailFacts DEF IndexInv, TypeOK
    <1> HIDE DEF ev
    <1>4. ev.part \in Parts /\ ev.rebuild \in SUBSET Ids
        BY <1>3 DEF Arrival
    <1>5. DOMAIN opened = DOMAIN readers \cup {ev.part}
          /\ \A s \in DOMAIN opened : (s = ev.part /\ opened[s] = ev.known)
                                      \/ (s \in DOMAIN readers /\ opened[s] = readers[s])
        OBVIOUS
    <1> HIDE DEF opened
    <1>6. /\ jobs' \in Seq(ToSet(jobs')) /\ \A j \in ToSet(jobs') : j.kind = "drop" => j \in ToSet(jobs)
        BY <1>1, <1>4, JobsAppended DEF IndexInv, TypeOK
    <1>7. ev.part \in frozen \cap disk.segs
        BY <1>3 DEF IndexInv, PartsApart
    <1>8. TypeOK'
        BY <1>0, <1>1, <1>3, <1>4, <1>5, <1>6 DEF IndexInv, TypeOK
    <1>9. PartsApart'
        <2>1. Mems' \subseteq Mems /\ ev.part \in Mems
            BY <1>0, <1>1, <1>7 DEF Mems
        <2>2. \A p \in Mems' \cup disk.segs \cup DOMAIN readers' : p < nextPart
            BY <1>1, <1>5, <2>1 DEF IndexInv, PartsApart
        <2>3. active \notin frozen' \cup disk.segs \cup DOMAIN readers' /\ frozen' \cap DOMAIN readers' = {}
            BY <1>1, <1>5, <1>7 DEF IndexInv, PartsApart
        <2>4. \A c \in builder : c.part \in frozen' \ disk.segs
            BY <1>1, <1>7 DEF IndexInv, PartsApart
        <2>5. \A k \in DOMAIN built : built[k].part \in frozen' \ disk.segs
            BY <1>1, <1>7 DEF IndexInv, PartsApart
        <2>6. \A k \in DOMAIN events' : events'[k].part \in frozen' \cap disk.segs
            BY <1>1, <1>3 DEF IndexInv, PartsApart
        <2>7. \A k \in DOMAIN events' : \A j \in DOMAIN events' : events'[j].part = events'[k].part => j = k
            <3>1. \A k, j \in Nat : k + 1 = j + 1 => j = k
                OBVIOUS
            <3>2. QED
                BY <1>3, <3>1 DEF IndexInv, PartsApart
        <2>8. \A c \in compact : c.out \notin Mems' \cup DOMAIN readers' /\ c.inputs \subseteq DOMAIN readers'
            BY <1>1, <1>5, <2>1 DEF IndexInv, PartsApart
        <2>9. QED
            BY <1>0, <2>2, <2>3, <2>4, <2>5, <2>6, <2>7, <2>8 DEF IndexInv, PartsApart
    <1>10. Old' = Old /\ \A s : Components(s)' = Components(s)
        BY <1>0, SidesSame DEF Old
    <1>11. IdsOld'
        <2>1. \A s \in DOMAIN readers' : readers'[s] \subseteq Old
            BY <1>1, <1>3, <1>5 DEF IndexInv, IdsOld
        <2>2. QED
            BY <1>0, <1>2, <1>3, <1>10, <2>1 DEF IndexInv, IdsOld
    <1>12. IdsGone'
        BY <1>0, <1>6, <1>10 DEF IndexInv, IdsGone
    <1>13. CopiesSynced'
        BY <1>0, <1>1, <1>2 DEF IndexInv, CopiesSynced
    <1>14. MemtablesKnow'
        BY <1>0, <1>1, <1>2 DEF IndexInv, MemtablesKnow, Mems
    <1>15. SidesKeep /\ NoneComesBack
        BY <1>0, SidesSame DEF NoneComesBack
    <1>16. SidecarsComplete'
        <2>1. \A s \in Parts : Covered(s, Components(s))'
            BY <1>0, <1>10 DEF IndexInv, SidecarsComplete, Covered
        <2>2. \A k \in DOMAIN events : CoveredNext(events[k].part, events[k].known)
            BY <1>15, Kept DEF IndexInv
        <2>3. \A k \in DOMAIN events' : CoveredNext(events'[k].part, events'[k].known)
            BY <1>3, <2>2
        <2>4. \A s \in DOMAIN readers' : CoveredNext(s, readers'[s])
            BY <1>1, <1>3, <1>5, <1>15, <2>2, Kept DEF IndexInv
        <2>5. QED
            BY <1>0, <1>15, <2>1, <2>3, <2>4, Kept DEF IndexInv, SidecarsComplete, Covered, CoveredNext
    <1>17. ReadyCovered'
        BY <1>0, ReadySame, SidesSame DEF IndexInv
    <1>18. QED
        BY <1>8, <1>9, <1>11, <1>12, <1>13, <1>14, <1>16, <1>17 DEF IndexInv

-----------------------------------------------------------------------------
(* Compaction *)

LEMMA StartCompactStep ==
    ASSUME IndexInv, StartCompact PROVE IndexInv'
    <1>0. UNCHANGED <<disk, runtime, active, frozen, reg, side, readers, pub, jobs,
                      worker, builder, built, events, core, followups, overtaken, troubles>>
        BY DEF StartCompact, flushVars
    <1> DEFINE c == [pc |-> "merge", inputs |-> DOMAIN readers, out |-> nextPart, idx |-> runtime, failed |-> {}]
    <1>1. nextPart \in Parts /\ compact' = {c} /\ nextPart' = nextPart + 1
        BY DEF StartCompact
    <1>2. runtime \in Idx /\ DOMAIN readers \subseteq Parts /\ Parts \subseteq Nat
        BY DiskFacts DEF IndexInv, TypeOK
    <1>3. c \in Merging /\ c.pc = "merge" /\ c.inputs = DOMAIN readers /\ c.out = nextPart /\ c.idx = runtime
        BY <1>1, <1>2 DEF Merging
    <1> HIDE DEF c
    <1>4. nextPart \in Nat /\ nextPart + 1 \in Nat /\ nextPart < nextPart + 1
          /\ \A p \in Parts : p < nextPart => p < nextPart + 1 /\ p # nextPart
        BY <1>1, <1>2
    <1>5. TypeOK'
        BY <1>0, <1>1, <1>3, <1>4 DEF IndexInv, TypeOK
    <1>6. PartsApart'
        <2>1. Mems' = Mems /\ Mems \subseteq Parts /\ disk.segs \subseteq Parts
            BY <1>0, DiskFacts DEF Mems, IndexInv, TypeOK
        <2>2. \A p \in Mems \cup disk.segs \cup DOMAIN readers : p \in Parts /\ p < nextPart
            BY <1>2, <2>1 DEF IndexInv, PartsApart
        <2>3. nextPart \notin Mems \cup disk.segs \cup DOMAIN readers
              /\ \A p \in Mems \cup disk.segs \cup DOMAIN readers : p < nextPart'
            BY <1>1, <1>4, <2>2
        <2>4. \A d \in compact' : d = c
            BY <1>1
        <2>5. \A d \in compact' : /\ d.out < nextPart' /\ d.out \notin Mems \cup DOMAIN readers
                                  /\ d.inputs \subseteq DOMAIN readers /\ d.out \notin disk.segs
            BY <1>1, <1>3, <1>4, <2>3, <2>4
        <2>6. QED
            BY <1>0, <2>1, <2>3, <2>4, <2>5 DEF IndexInv, PartsApart
    <1>7. Old' = Old /\ \A s : Components(s)' = Components(s)
        BY <1>0, SidesSame DEF Old
    <1>8. IdsOld'
        BY <1>0, <1>1, <1>3, <1>7 DEF IndexInv, IdsOld
    <1>9. IdsGone'
        BY <1>0, <1>7 DEF IndexInv, IdsGone
    <1>10. CopiesSynced'
        BY <1>0 DEF IndexInv, CopiesSynced
    <1>11. MemtablesKnow'
        BY <1>0, MemsSame DEF IndexInv
    <1>12. SidecarsComplete'
        <2>1. \A s \in Parts : Covered(s, Components(s))'
            BY <1>0, <1>7 DEF IndexInv, SidecarsComplete, Covered
        <2>2. QED
            BY <1>0, <1>1, <1>3, <2>1 DEF IndexInv, SidecarsComplete, Covered
    <1>13. ReadyCovered'
        BY <1>0, ReadySame, SidesSame DEF IndexInv
    <1>14. QED
        BY <1>5, <1>6, <1>8, <1>9, <1>10, <1>11, <1>12, <1>13 DEF IndexInv

LEMMA MergeStep ==
    ASSUME IndexInv, NEW c \in compact, c.pc = "merge", NEW failed \in SUBSET DOMAIN c.idx, Merge(c, failed),
           UNCHANGED <<disk, runtime, active, frozen, nextPart, reg, readers, pub, jobs, worker,
                       builder, built, events, core, followups, overtaken, troubles>>
    PROVE  IndexInv'
    <1> DEFINE d == [c EXCEPT !.pc = "merged", !.failed = failed]
    <1>1. c \in Merging /\ c.out \in Parts /\ c.inputs \subseteq Parts /\ c.idx \in Idx
        BY Elements DEF IndexInv
    <1>2. compact' = {d}
        BY DEF Merge
    <1>3. failed \subseteq Ids
        BY <1>1, IdxFacts
    <1>4. /\ d \in Merging /\ d.out = c.out /\ d.inputs = c.inputs /\ d.idx = c.idx /\ d.pc = "merged"
        BY <1>1, <1>3 DEF Merging
    <1> HIDE DEF d
    <1>5. /\ side' \in [Parts -> [Ids -> {"none", "full", "empty", "bad"}]]
          /\ \A s \in Parts : s # c.out => side'[s] = side[s]
          /\ \A i \in Ids : /\ i \notin DOMAIN c.idx => side'[c.out][i] = "none"
                            /\ side'[c.out][i] = "empty" => \E s \in c.inputs : side[s][i] = "empty"
                            /\ side'[c.out][i] # "bad"
                            /\ i \in DOMAIN c.idx => side'[c.out][i] # "none"
        BY <1>1 DEF Merge, IndexInv, TypeOK
    <1>6. c.out \notin disk.segs \cup Mems \cup DOMAIN readers
        BY DEF IndexInv, PartsApart
    <1>7. TypeOK'
        BY <1>2, <1>4, <1>5 DEF IndexInv, TypeOK
    <1>8. PartsApart'
        <2>1. Mems' = Mems
            BY DEF Mems
        <2>2. \A e \in compact' : e = d
            BY <1>2
        <2>3. \A e \in compact' : /\ e.out < nextPart /\ e.out \notin Mems \cup DOMAIN readers
                                  /\ e.inputs \subseteq DOMAIN readers /\ e.out \notin disk.segs
            BY <1>2, <1>4, <1>6 DEF IndexInv, PartsApart
        <2>4. QED
            BY <2>1, <2>2, <2>3 DEF IndexInv, PartsApart
    <1>9. Old' = Old /\ Old \subseteq Ids /\ DOMAIN c.idx \subseteq Old
        BY DEF Old, IndexInv, IdsOld
    <1>10. \A s \in Parts : Components(s)' \subseteq Old
        <2>1. \A s \in Parts : s # c.out => Components(s)' = Components(s)
            BY <1>5 DEF Components
        <2>2. {i \in Ids : side'[c.out][i] # "none"} \subseteq Old
            BY <1>5, <1>9
        <2>3. QED
            BY <2>1, <2>2 DEF IndexInv, IdsOld, Components
    <1>11. IdsOld'
        BY <1>2, <1>4, <1>9, <1>10 DEF IndexInv, IdsOld
    <1>12. IdsGone'
        BY <1>9 DEF IndexInv, IdsGone
    <1>13. CopiesSynced'
        BY DEF IndexInv, CopiesSynced
    <1>14. MemtablesKnow'
        BY MemsSame DEF IndexInv
    <1>15. \A s \in Parts : \A S : s # c.out /\ Covered(s, S) => CoveredNext(s, S)
        BY <1>5 DEF Covered, CoveredNext
    <1>16. DOMAIN disk.idx \subseteq Ids /\ \A i \in DOMAIN disk.idx \ overtaken : side'[c.out][i] # "empty"
        <2>1. DOMAIN disk.idx \subseteq Ids
            BY DiskFacts DEF IndexInv
        <2>2. \A s \in Parts : \A i \in DOMAIN disk.idx \ overtaken : side[s][i] # "empty"
            BY <2>1 DEF IndexInv, SidecarsComplete, Covered, Components
        <2>3. QED
            BY <1>1, <1>5, <2>1, <2>2
    <1>17. CoveredNext(c.out, DOMAIN c.idx)
        BY <1>1, <1>5, <1>16 DEF CoveredNext, IndexInv, TypeOK
    <1>18. SidecarsComplete'
        <2>1. \A s \in Parts : Covered(s, Components(s))'
            BY <1>5, <1>16 DEF IndexInv, TypeOK, SidecarsComplete, Covered, Components
        <2>2. \A s \in DOMAIN readers : CoveredNext(s, readers[s])
            BY <1>6, <1>15, Elements DEF IndexInv, SidecarsComplete
        <2>3. \A k \in DOMAIN built : CoveredNext(built[k].part, built[k].entries)
            BY <1>6, <1>15, Elements DEF IndexInv, SidecarsComplete, PartsApart, Mems
        <2>4. \A k \in DOMAIN events : CoveredNext(events[k].part, events[k].known)
            BY <1>6, <1>15, Elements DEF IndexInv, SidecarsComplete, PartsApart, Mems
        <2>5. \A e \in compact' : CoveredNext(e.out, DOMAIN e.idx)
            BY <1>2, <1>4, <1>17
        <2>6. QED
            BY <2>1, <2>2, <2>3, <2>4, <2>5 DEF SidecarsComplete, Covered, CoveredNext
    <1>19. ReadyCovered'
        BY <1>5, <1>6, DiskFacts DEF IndexInv, ReadyCovered
    <1>20. QED
        BY <1>7, <1>8, <1>11, <1>12, <1>13, <1>14, <1>18, <1>19 DEF IndexInv

LEMMA RunCompactStep ==
    ASSUME IndexInv, RunCompact PROVE IndexInv'
    <1>0. UNCHANGED <<disk, runtime, active, frozen, nextPart, reg, readers, pub,
                      jobs, worker, builder, built, events, core, followups, overtaken, troubles>>
        BY DEF RunCompact, flushVars
    <1>1. \/ \E c \in compact : c.pc = "merge" /\ \E failed \in SUBSET DOMAIN c.idx : Merge(c, failed)
          \/ compact' = {} /\ UNCHANGED side
        <2>1. PICK c \in compact : /\ c.pc = "merge"
                                   /\ LET damaged == {i \in DOMAIN c.idx : c.idx[i].state # "failed" /\
                                                         \E s \in c.inputs : side[s][i] = "bad"}
                                          ready   == {i \in damaged : c.idx[i].state = "ready"}
                                      IN \/ \E failed \in SUBSET ready : Merge(c, failed)
                                         \/ damaged # {} /\ compact' = {} /\ UNCHANGED side
            BY DEF RunCompact
        <2>2. QED
            BY <2>1
    <1>2. CASE compact' = {} /\ UNCHANGED side
        <2>1. TypeOK'
            BY <1>0, <1>2 DEF IndexInv, TypeOK
        <2>2. PartsApart'
            BY <1>0, <1>2 DEF IndexInv, PartsApart, Mems
        <2>3. Old' = Old /\ \A s : Components(s)' = Components(s)
            BY <1>0, <1>2, SidesSame DEF Old
        <2>4. IdsOld'
            BY <1>0, <1>2, <2>3 DEF IndexInv, IdsOld
        <2>5. IdsGone'
            BY <1>0, <2>3 DEF IndexInv, IdsGone
        <2>6. CopiesSynced'
            BY <1>0 DEF IndexInv, CopiesSynced
        <2>7. MemtablesKnow'
            BY <1>0, MemsSame DEF IndexInv
        <2>8. SidecarsComplete'
            BY <1>0, <1>2, <2>3 DEF IndexInv, SidecarsComplete, Covered
        <2>9. ReadyCovered'
            BY <1>0, <1>2, ReadySame, SidesSame DEF IndexInv
        <2>10. QED
            BY <2>1, <2>2, <2>4, <2>5, <2>6, <2>7, <2>8, <2>9 DEF IndexInv
    <1>3. QED
        BY <1>0, <1>1, <1>2, MergeStep

LEMMA ApplyCompactStep ==
    ASSUME IndexInv, ApplyCompact PROVE IndexInv'
    <1>0. UNCHANGED <<runtime, active, frozen, nextPart, reg, side, readers, pub,
                      jobs, worker, builder, built, events, followups, overtaken, troubles>>
        BY DEF ApplyCompact, flushVars
    <1>1. PICK c \in compact :
              /\ core.pc = "idle" /\ c.pc = "merged"
              /\ LET marked == Mark(disk.idx, c.failed, "failed")
                     idx    == Reconcile(marked, DOMAIN c.idx)
                 IN /\ disk' = [disk EXCEPT !.segs = (@ \ c.inputs) \cup {c.out}, !.idx = idx]
                    /\ core' = [pc |-> "compacted", i |-> 0, idx |-> idx]
                    /\ compact' = {[c EXCEPT !.pc = "swap",
                                      !.failed = Unmaintained(marked, DOMAIN c.idx)]}
        BY DEF ApplyCompact, CoreIdle
    <1> DEFINE marked == Mark(disk.idx, c.failed, "failed")
               idx    == Reconcile(marked, DOMAIN c.idx)
               un     == Unmaintained(marked, DOMAIN c.idx)
               d      == [c EXCEPT !.pc = "swap", !.failed = un]
    <1>2. /\ disk.idx \in Idx /\ disk \in [segs : SUBSET Parts, idx : Idx, nextId : Nat]
          /\ c \in Merging /\ c.out \in Parts /\ "failed" \in States
        BY Elements DEF IndexInv, TypeOK, States
    <1>3. /\ marked \in Idx /\ DOMAIN marked = DOMAIN disk.idx
          /\ \A i \in DOMAIN disk.idx : marked[i].state = "ready" => disk.idx[i].state = "ready"
        BY <1>2, MarkFacts
    <1> HIDE DEF marked
    <1>4. /\ idx \in Idx /\ DOMAIN idx = DOMAIN disk.idx /\ un \subseteq Ids
          /\ \A i \in DOMAIN disk.idx : idx[i].state = "ready" => i \in DOMAIN c.idx /\ disk.idx[i].state = "ready"
        BY <1>3, ReconcileFacts
    <1> HIDE DEF idx, un
    <1>5. d \in Merging /\ d.out = c.out /\ d.inputs = c.inputs /\ d.idx = c.idx /\ d.pc = "swap"
        BY <1>2, <1>4 DEF Merging
    <1> HIDE DEF d
    <1>6. compact' = {d} /\ core' = [pc |-> "compacted", i |-> 0, idx |-> idx]
        BY <1>1 DEF d, un, idx, marked
    <1>7. /\ disk' \in [segs : SUBSET Parts, idx : Idx, nextId : Nat]
          /\ disk'.segs = (disk.segs \ c.inputs) \cup {c.out} /\ disk'.idx = idx /\ disk'.nextId = disk.nextId
        <2>1. disk' = [disk EXCEPT !.segs = (@ \ c.inputs) \cup {c.out}, !.idx = idx]
            BY <1>1 DEF idx, marked
        <2>2. QED
            BY <1>2, <1>4, <2>1
    <1>8. core' \in [pc : CoreOps, i : Ids \cup {0}, idx : Idx] /\ core'.pc = "compacted" /\ core'.idx = idx
        BY <1>4, <1>6 DEF CoreOps
    <1>9. TypeOK'
        BY <1>0, <1>5, <1>6, <1>7, <1>8 DEF IndexInv, TypeOK
    <1>10. /\ c.out \notin disk.segs \cup Mems \cup DOMAIN readers /\ c.out < nextPart
           /\ c.inputs \subseteq DOMAIN readers
        BY <1>1 DEF IndexInv, PartsApart
    <1>11. PartsApart'
        <2>1. Mems' = Mems
            BY <1>0 DEF Mems
        <2>2. /\ \A p \in Mems \cup disk'.segs \cup DOMAIN readers : p < nextPart
              /\ active \notin frozen \cup disk'.segs \cup DOMAIN readers
            BY <1>7, <1>10 DEF IndexInv, PartsApart, Mems
        <2>3. \A b \in builder : b.part \in frozen \ disk'.segs
            BY <1>7, <1>10 DEF IndexInv, PartsApart, Mems
        <2>4. \A k \in DOMAIN built : built[k].part \in frozen \ disk'.segs
            BY <1>7, <1>10 DEF IndexInv, PartsApart, Mems
        <2>5. \A k \in DOMAIN events : events[k].part \in frozen \cap disk'.segs
            BY <1>7, <1>10 DEF IndexInv, PartsApart
        <2>6. \A e \in compact' : e = d
            BY <1>6
        <2>7. QED
            BY <1>0, <1>5, <1>10, <2>1, <2>2, <2>3, <2>4, <2>5, <2>6 DEF IndexInv, PartsApart
    <1>12. Old' = Old /\ \A s : Components(s)' = Components(s)
        BY <1>0, <1>7, SidesSame DEF Old
    <1>13. IdsOld'
        BY <1>0, <1>4, <1>5, <1>6, <1>7, <1>12 DEF IndexInv, IdsOld
    <1>14. IdsGone'
        BY <1>0, <1>4, <1>7, <1>8, <1>12 DEF IndexInv, IdsGone
    <1>15. CopiesSynced'
        BY <1>0, <1>1, <1>4, <1>7, <1>8 DEF IndexInv, CopiesSynced
    <1>16. MemtablesKnow'
        BY <1>0, <1>1, <1>4, <1>7, MemsSame DEF IndexInv
    <1>17. SidesKeep /\ NoneComesBack
        BY <1>0, <1>4, <1>7, SidesSame DEF NoneComesBack
    <1>18. SidecarsComplete'
        <2>1. \A s \in Parts : Covered(s, Components(s))'
            BY <1>0, <1>4, <1>7, <1>12 DEF IndexInv, SidecarsComplete, Covered
        <2>2. CoveredNext(c.out, DOMAIN c.idx)
            BY <1>1, <1>17, Kept DEF IndexInv
        <2>3. \A e \in compact' : CoveredNext(e.out, DOMAIN e.idx)
            BY <1>5, <1>6, <2>2
        <2>4. QED
            BY <1>0, <1>17, <2>1, <2>3, Kept DEF IndexInv, SidecarsComplete, Covered, CoveredNext
    <1>19. ReadyCovered'
        <2>1. Covered(c.out, DOMAIN c.idx)
            BY <1>1 DEF IndexInv, SidecarsComplete
        <2>2. QED
            BY <1>0, <1>4, <1>7, <2>1 DEF IndexInv, ReadyCovered, Covered
    <1>20. QED
        BY <1>9, <1>11, <1>13, <1>14, <1>15, <1>16, <1>18, <1>19 DEF IndexInv

LEMMA SwapStep ==
    ASSUME IndexInv, SwapReaders PROVE IndexInv'
    <1>0. UNCHANGED <<disk, runtime, active, frozen, nextPart, reg, side, worker,
                      builder, built, events, followups, overtaken, troubles>>
        BY DEF SwapReaders, flushVars
    <1>1. PICK c \in compact :
              LET opened == [s \in (DOMAIN readers \ c.inputs) \cup {c.out} |->
                                IF s = c.out THEN Components(s) ELSE readers[s]]
              IN /\ readers' = opened
                 /\ jobs' = jobs \o Builds(c.failed)
                 /\ pub' = [mems |-> Mems, readers |-> opened, idx |-> runtime]
        BY DEF SwapReaders, Publish
    <1>2. core.pc = "swap" /\ compact' = {} /\ core' = NoOp
        BY DEF SwapReaders
    <1>3. pub'.mems = Mems /\ pub'.readers = readers' /\ pub'.idx = runtime
        BY <1>1, PublishFacts
    <1>4. \A s \in DOMAIN readers' : (s = c.out /\ readers'[s] = Components(s))
                                     \/ (s \in DOMAIN readers /\ readers'[s] = readers[s])
        BY <1>1
    <1>5. c.out \in Parts /\ c.failed \in SUBSET Ids
        BY Elements DEF IndexInv, Merging
    <1>6. /\ jobs' \in Seq(ToSet(jobs')) /\ \A j \in ToSet(jobs') : j.kind = "drop" => j \in ToSet(jobs)
        BY <1>1, <1>5, JobsAppended DEF IndexInv, TypeOK
    <1>7. core' \in [pc : CoreOps, i : Ids \cup {0}, idx : Idx] /\ core'.pc = "idle"
        BY <1>2, NoOpFacts
    <1>8. TypeOK'
        BY <1>0, <1>2, <1>4, <1>5, <1>6, <1>7 DEF IndexInv, TypeOK
    <1>9. PartsApart'
        <2>1. Mems' = Mems
            BY <1>0 DEF Mems
        <2>2. c.out \notin Mems \cup DOMAIN readers /\ c.out < nextPart
            BY DEF IndexInv, PartsApart
        <2>3. /\ \A p \in Mems \cup disk.segs \cup DOMAIN readers' : p < nextPart
              /\ active \notin frozen \cup disk.segs \cup DOMAIN readers'
              /\ frozen \cap DOMAIN readers' = {}
            BY <1>4, <2>2 DEF IndexInv, PartsApart, Mems
        <2>4. QED
            BY <1>0, <1>2, <2>1, <2>3 DEF IndexInv, PartsApart
    <1>10. Old' = Old /\ \A s : Components(s)' = Components(s)
        BY <1>0, SidesSame DEF Old
    <1>11. IdsOld'
        <2>1. \A s \in DOMAIN readers' : readers'[s] \subseteq Old
            BY <1>4, <1>5 DEF IndexInv, IdsOld
        <2>2. QED
            BY <1>0, <1>2, <1>3, <1>10, <2>1 DEF IndexInv, IdsOld
    <1>12. IdsGone'
        BY <1>0, <1>6, <1>7, <1>10 DEF IndexInv, IdsGone
    <1>13. CopiesSynced'
        BY <1>0, <1>2, <1>3, <1>7 DEF IndexInv, CopiesSynced
    <1>14. MemtablesKnow'
        BY <1>0, <1>2, <1>3, MemsSame DEF IndexInv
    <1>15. SidecarsComplete'
        <2>1. \A s \in Parts : Covered(s, Components(s))'
            BY <1>0, <1>10 DEF IndexInv, SidecarsComplete, Covered
        <2>2. \A s \in DOMAIN readers' : Covered(s, readers'[s])
            BY <1>4, <1>5 DEF IndexInv, SidecarsComplete
        <2>3. QED
            BY <1>0, <1>2, <2>1, <2>2 DEF IndexInv, SidecarsComplete, Covered
    <1>16. ReadyCovered'
        BY <1>0, ReadySame, SidesSame DEF IndexInv
    <1>17. QED
        BY <1>8, <1>9, <1>11, <1>12, <1>13, <1>14, <1>15, <1>16 DEF IndexInv

-----------------------------------------------------------------------------
(* The worker, the queries and the faults: most steps change only the states of the          *)
(* declarations, or only sidecars                                                            *)

OpsNext ==
    /\ jobs' \in Seq(ToSet(jobs')) /\ \A j \in ToSet(jobs') : j.kind = "drop" => j \in ToSet(jobs)
    /\ DOMAIN worker' = {"pc", "i", "segs", "todo", "ready"} /\ (worker'.pc = "build" => worker'.i \in Old)
    /\ followups' \subseteq [i : Ids, next : {"failed", "building"}]

StatesOnly ==
    /\ UNCHANGED <<active, frozen, nextPart, reg, side, readers, builder, built, events, compact, core,
                   overtaken>>
    /\ disk' \in [segs : SUBSET Parts, idx : Idx, nextId : Nat]
    /\ disk'.segs = disk.segs /\ disk'.nextId = disk.nextId /\ DOMAIN disk'.idx = DOMAIN disk.idx
    /\ \A i \in DOMAIN disk.idx \ overtaken : disk'.idx[i].state = "ready" =>
          disk.idx[i].state = "ready" \/ \A s \in disk.segs : side[s][i] \in {"full", "bad"}
    /\ runtime' \in Idx /\ (runtime' = runtime \/ DOMAIN runtime' = DOMAIN disk.idx)
    /\ \/ pub' = pub
       \/ core.pc = "idle" /\ pub'.mems = Mems /\ pub'.readers = readers /\ pub'.idx = runtime'

SidesOnly ==
    /\ UNCHANGED <<disk, runtime, active, frozen, nextPart, reg, readers, pub, builder, built, events,
                   compact, core, overtaken>>
    /\ side' \in [Parts -> [Ids -> {"none", "full", "empty", "bad"}]] /\ SidesKeep
    /\ \A s \in Parts : \A i \in Ids : side'[s][i] # "none" => i \in Old
    /\ \A s \in Parts : \A i \in DOMAIN disk.idx \ overtaken : side'[s][i] # "empty"

LEMMA StatesStep ==
    ASSUME IndexInv, StatesOnly, OpsNext PROVE IndexInv'
    <1>0. UNCHANGED <<active, frozen, nextPart, reg, side, readers, builder, built, events, compact, core, overtaken>>
        BY DEF StatesOnly
    <1>1. /\ disk' \in [segs : SUBSET Parts, idx : Idx, nextId : Nat]
          /\ disk'.segs = disk.segs /\ disk'.nextId = disk.nextId /\ DOMAIN disk'.idx = DOMAIN disk.idx
        BY DEF StatesOnly
    <1>2. /\ runtime' \in Idx /\ (runtime' = runtime \/ DOMAIN runtime' = DOMAIN disk.idx)
          /\ \/ pub' = pub
             \/ core.pc = "idle" /\ pub'.mems = Mems /\ pub'.readers = readers /\ pub'.idx = runtime'
        BY DEF StatesOnly
    <1>3. TypeOK'
        BY <1>0, <1>1, <1>2 DEF IndexInv, TypeOK, OpsNext
    <1>4. PartsApart'
        BY <1>0, <1>1, PartsSame DEF IndexInv
    <1>5. IdsOld'
        BY <1>0, <1>1, <1>2, IdsSame DEF IndexInv, IdsOld
    <1>6. Old' = Old
        BY <1>1 DEF Old
    <1>7. IdsGone'
        BY <1>0, <1>1, <1>6 DEF IndexInv, IdsGone, OpsNext
    <1>8. CopiesSynced'
        BY <1>0, <1>1, <1>2 DEF IndexInv, CopiesSynced
    <1>9. MemtablesKnow'
        BY <1>0, <1>1, <1>2, MemsSame DEF IndexInv
    <1>10. SidecarsComplete'
        BY <1>0, <1>1, SidecarsSame DEF IndexInv, NoneComesBack
    <1>11. ReadyCovered'
        BY <1>0, <1>1 DEF IndexInv, ReadyCovered, StatesOnly
    <1>12. QED
        BY <1>3, <1>4, <1>5, <1>7, <1>8, <1>9, <1>10, <1>11 DEF IndexInv

LEMMA SidesStep ==
    ASSUME IndexInv, SidesOnly, OpsNext PROVE IndexInv'
    <1>0. /\ UNCHANGED <<disk, runtime, active, frozen, nextPart, reg, readers, pub, builder, built, events,
                         compact, core, overtaken>>
          /\ side' \in [Parts -> [Ids -> {"none", "full", "empty", "bad"}]] /\ SidesKeep
        BY DEF SidesOnly
    <1>1. TypeOK'
        BY <1>0 DEF IndexInv, TypeOK, OpsNext
    <1>2. PartsApart'
        BY <1>0, PartsSame DEF IndexInv
    <1>3. Old' = Old
        BY <1>0 DEF Old
    <1>4. \A s \in Parts : Components(s)' \subseteq Old
        BY <1>0 DEF SidesOnly, Components
    <1>5. IdsOld'
        BY <1>0, <1>3, <1>4 DEF IndexInv, IdsOld
    <1>6. IdsGone'
        BY <1>0, <1>3 DEF IndexInv, IdsGone, OpsNext
    <1>7. CopiesSynced'
        BY <1>0 DEF IndexInv, CopiesSynced
    <1>8. MemtablesKnow'
        BY <1>0, MemsSame DEF IndexInv
    <1>9. SidecarsComplete'
        <2>1. DOMAIN disk.idx \subseteq Ids
            BY DiskFacts DEF IndexInv
        <2>2. \A s \in Parts : Covered(s, Components(s))'
            BY <1>0, <2>1 DEF SidesOnly, Covered, Components
        <2>3. NoneComesBack
            BY <1>0 DEF NoneComesBack
        <2>4. QED
            BY <1>0, <2>2, <2>3, Kept DEF IndexInv, SidecarsComplete, Covered, CoveredNext
    <1>10. ReadyCovered'
        BY <1>0, ReadySame DEF IndexInv
    <1>11. QED
        BY <1>1, <1>2, <1>5, <1>6, <1>7, <1>8, <1>9, <1>10 DEF IndexInv

LEMMA QuietFacts ==
    ASSUME IndexInv
    PROVE  /\ jobs \in Seq(ToSet(jobs)) /\ DOMAIN worker = {"pc", "i", "segs", "todo", "ready"}
           /\ followups \subseteq [i : Ids, next : {"failed", "building"}]
           /\ (worker.pc = "build" => worker.i \in Old) /\ Old \subseteq Ids /\ DOMAIN disk.idx \subseteq Old
           /\ disk \in [segs : SUBSET Parts, idx : Idx, nextId : Nat] /\ runtime \in Idx
           /\ side \in [Parts -> [Ids -> {"none", "full", "empty", "bad"}]]
           /\ \A s \in Parts : \A i \in Ids : side[s][i] # "none" => i \in Old
           /\ \A s \in Parts : \A i \in DOMAIN disk.idx \ overtaken : side[s][i] # "empty"
    <1>1. Old \subseteq Ids /\ DOMAIN disk.idx \subseteq Old
        BY DEF IndexInv, IdsOld, Old
    <1>2. \A s \in Parts : \A i \in Ids : side[s][i] # "none" => i \in Old
        BY DEF IndexInv, IdsOld, Components
    <1>3. \A s \in Parts : \A i \in DOMAIN disk.idx \ overtaken : side[s][i] # "empty"
        BY <1>1 DEF IndexInv, SidecarsComplete, Covered, Components
    <1>4. QED
        BY <1>1, <1>2, <1>3 DEF IndexInv, TypeOK, IdsGone

\* Nothing but the jobs, the worker and the repairs that were asked for changes.
LEMMA QuietStep ==
    ASSUME IndexInv, OpsNext,
           UNCHANGED <<disk, runtime, active, frozen, nextPart, reg, side, readers, pub,
                       builder, built, events, compact, core, overtaken>>
    PROVE  IndexInv'
    <1>1. StatesOnly
        BY QuietFacts DEF StatesOnly
    <1>2. QED
        BY <1>1, StatesStep

LEMMA TakeStep ==
    ASSUME IndexInv, TakeJob PROVE IndexInv'
    <1>0. UNCHANGED <<disk, runtime, active, frozen, nextPart, reg, readers, pub,
                      builder, built, events, compact, core, followups, overtaken, troubles>>
        BY DEF TakeJob, flushVars
    <1> DEFINE j == Head(jobs)
    <1>1. /\ jobs # <<>> /\ jobs' = Tail(jobs)
          /\ \/ /\ worker' = [worker EXCEPT !.pc = "load", !.i = j.i, !.ready = FALSE]
                /\ UNCHANGED side
             \/ /\ j.kind = "drop"
                /\ side' = [s \in Parts |-> IF s \in disk.segs
                               THEN [side[s] EXCEPT ![j.i] = "none"] ELSE side[s]]
                /\ UNCHANGED worker
        BY DEF TakeJob
    <1>2. jobs' \in Seq(ToSet(jobs')) /\ ToSet(jobs') \subseteq ToSet(jobs) /\ j \in ToSet(jobs)
        BY <1>1, JobTaken, QuietFacts
    <1> HIDE DEF j
    <1>3. CASE /\ worker' = [worker EXCEPT !.pc = "load", !.i = j.i, !.ready = FALSE]
               /\ UNCHANGED side
        <2>1. DOMAIN worker' = {"pc", "i", "segs", "todo", "ready"} /\ worker'.pc = "load"
            BY <1>3, QuietFacts
        <2>2. OpsNext
            BY <1>0, <1>2, <2>1, QuietFacts DEF OpsNext
        <2>3. QED
            BY <1>0, <1>3, <2>2, QuietStep
    <1>4. CASE /\ j.kind = "drop"
               /\ side' = [s \in Parts |-> IF s \in disk.segs
                              THEN [side[s] EXCEPT ![j.i] = "none"] ELSE side[s]]
               /\ UNCHANGED worker
        <2>1. OpsNext
            BY <1>0, <1>2, <1>4, QuietFacts DEF OpsNext
        <2>2. j.i \in Ids /\ j.i \notin DOMAIN disk.idx
            BY <1>2, <1>4, QuietFacts DEF IndexInv, IdsGone
        <2>3. side' \in [Parts -> [Ids -> {"none", "full", "empty", "bad"}]]
              /\ \A s \in Parts : \A i \in Ids : side'[s][i] = side[s][i] \/ (i = j.i /\ side'[s][i] = "none")
            BY <1>4, <2>2, QuietFacts
        <2>4. DOMAIN disk.idx \subseteq Ids
            BY QuietFacts
        <2>5. SidesKeep
            BY <2>2, <2>3, <2>4 DEF SidesKeep
        <2>6. /\ \A s \in Parts : \A i \in Ids : side'[s][i] # "none" => i \in Old
              /\ \A s \in Parts : \A i \in DOMAIN disk.idx \ overtaken : side'[s][i] # "empty"
            BY <2>3, <2>4, QuietFacts
        <2>7. SidesOnly
            BY <1>0, <2>3, <2>5, <2>6 DEF SidesOnly
        <2>8. QED
            BY <2>1, <2>7, SidesStep
    <1>5. QED
        BY <1>1, <1>3, <1>4

LEMMA LoadStep ==
    ASSUME IndexInv, LoadSnapshot PROVE IndexInv'
    <1>0. UNCHANGED <<disk, runtime, active, frozen, nextPart, reg, side, readers, pub,
                      jobs, builder, built, events, compact, core, followups, overtaken, troubles>>
        BY DEF LoadSnapshot, flushVars
    <1>1. DOMAIN worker' = {"pc", "i", "segs", "todo", "ready"} /\ (worker'.pc = "build" => worker'.i \in Old)
        <2>1. CASE Declared(worker.i) /\ disk.idx[worker.i].state = "building"
            <3>1. worker' = [worker EXCEPT !.pc = "build", !.segs = disk.segs, !.todo = disk.segs]
                BY <2>1 DEF LoadSnapshot
            <3>2. worker.i \in Old
                BY <2>1, QuietFacts DEF Declared
            <3>3. QED
                BY <3>1, <3>2, QuietFacts
        <2>2. CASE ~(Declared(worker.i) /\ disk.idx[worker.i].state = "building")
            <3>1. worker' = [worker EXCEPT !.pc = "republish"]
                BY <2>2 DEF LoadSnapshot
            <3>2. QED
                BY <3>1, QuietFacts
        <2>3. QED
            BY <2>1, <2>2
    <1>2. OpsNext
        BY <1>0, <1>1, QuietFacts DEF OpsNext
    <1>3. QED
        BY <1>0, <1>2, QuietStep

LEMMA BuildStep ==
    ASSUME IndexInv, BuildSidecar PROVE IndexInv'
    <1>0. UNCHANGED <<disk, runtime, active, frozen, nextPart, reg, readers, pub,
                      jobs, builder, built, events, compact, core, followups, overtaken, troubles>>
        BY DEF BuildSidecar, flushVars
    <1>1. PICK s \in worker.todo :
              /\ side' = IF Valid(s, worker.i) \/ s \notin disk.segs THEN side
                         ELSE [side EXCEPT ![s][worker.i] = "full"]
              /\ worker' = [worker EXCEPT !.todo = @ \ {s}]
        BY DEF BuildSidecar
    <1>2. worker.i \in Old /\ worker.i \in Ids
        BY QuietFacts DEF BuildSidecar
    <1>3. DOMAIN worker' = {"pc", "i", "segs", "todo", "ready"} /\ worker'.i = worker.i
        BY <1>1, QuietFacts
    <1>4. OpsNext
        BY <1>0, <1>2, <1>3, QuietFacts DEF OpsNext
    <1>5. CASE Valid(s, worker.i) \/ s \notin disk.segs
        BY <1>0, <1>1, <1>4, <1>5, QuietStep
    <1>6. CASE ~(Valid(s, worker.i) \/ s \notin disk.segs)
        <2>1. side' = [side EXCEPT ![s][worker.i] = "full"] /\ s \in Parts
            BY <1>1, <1>6, QuietFacts
        <2>2. side' \in [Parts -> [Ids -> {"none", "full", "empty", "bad"}]]
              /\ \A p \in Parts : \A i \in Ids : side'[p][i] = side[p][i] \/ (i = worker.i /\ side'[p][i] = "full")
            BY <1>2, <2>1, QuietFacts
        <2>3. DOMAIN disk.idx \subseteq Ids
            BY QuietFacts
        <2>4. SidesKeep
            BY <2>2, <2>3 DEF SidesKeep
        <2>5. /\ \A p \in Parts : \A i \in Ids : side'[p][i] # "none" => i \in Old
              /\ \A p \in Parts : \A i \in DOMAIN disk.idx \ overtaken : side'[p][i] # "empty"
            BY <1>2, <2>2, <2>3, QuietFacts
        <2>6. SidesOnly
            BY <1>0, <2>2, <2>4, <2>5 DEF SidesOnly
        <2>7. QED
            BY <1>4, <2>6, SidesStep
    <1>7. QED
        BY <1>5, <1>6

\* The declarations get new states; who becomes Ready is covered.
LEMMA WrittenStep ==
    ASSUME IndexInv, OpsNext, NEW idx \in Idx, DOMAIN idx = DOMAIN disk.idx, WriteIdx(idx),
           \A i \in DOMAIN disk.idx \ overtaken : idx[i].state = "ready" =>
               disk.idx[i].state = "ready" \/ \A s \in disk.segs : side[s][i] \in {"full", "bad"},
           UNCHANGED <<active, frozen, nextPart, reg, side, readers, builder, built, events, compact, core,
                       overtaken>>,
           \/ pub' = pub
           \/ core.pc = "idle" /\ pub'.mems = Mems /\ pub'.readers = readers /\ pub'.idx = runtime'
    PROVE  IndexInv'
    <1>1. /\ disk' \in [segs : SUBSET Parts, idx : Idx, nextId : Nat]
          /\ disk'.idx = idx /\ disk'.segs = disk.segs /\ disk'.nextId = disk.nextId
          /\ DOMAIN disk'.idx = DOMAIN disk.idx /\ runtime' = idx
        BY Rewritten DEF WriteIdx, IndexInv
    <1>2. StatesOnly
        BY <1>1 DEF StatesOnly
    <1>3. QED
        BY <1>2, StatesStep

LEMMA FailStep ==
    ASSUME IndexInv, FailBuild PROVE IndexInv'
    <1>0. UNCHANGED <<active, frozen, nextPart, reg, side, readers, pub, jobs,
                      builder, built, events, compact, core, followups, overtaken>>
        BY DEF FailBuild, flushVars
    <1> DEFINE idx == Mark(disk.idx, {worker.i}, "failed")
    <1>1. WriteIdx(idx) /\ worker' = [worker EXCEPT !.pc = "republish"]
        BY DEF FailBuild
    <1>2. disk.idx \in Idx /\ "failed" \in States
        BY QuietFacts DEF States
    <1>3. /\ idx \in Idx /\ DOMAIN idx = DOMAIN disk.idx
          /\ \A i \in DOMAIN disk.idx : idx[i].state = "ready" => disk.idx[i].state = "ready"
        BY <1>2, MarkFacts
    <1> HIDE DEF idx
    <1>4. DOMAIN worker' = {"pc", "i", "segs", "todo", "ready"} /\ worker'.pc = "republish"
        BY <1>1, QuietFacts
    <1>5. OpsNext
        BY <1>0, <1>4, QuietFacts DEF OpsNext
    <1>6. QED
        BY <1>0, <1>1, <1>3, <1>5, WrittenStep

LEMMA FinalizeStep ==
    ASSUME IndexInv, Finalize PROVE IndexInv'
    <1>0. UNCHANGED <<active, frozen, nextPart, reg, side, readers, pub, jobs,
                      builder, built, events, compact, core, followups, overtaken, troubles>>
        BY DEF Finalize, flushVars
    <1> DEFINE idx == Mark(disk.idx, {worker.i}, Coverage)
    <1>1. /\ worker' = [worker EXCEPT !.pc = "load"] \/ worker' = [worker EXCEPT !.pc = "republish"]
             \/ worker' = [worker EXCEPT !.pc = "republish", !.ready = Coverage = "ready"]
          /\ \/ WriteIdx(disk.idx)
             \/ Declared(worker.i) /\ disk.segs = worker.segs /\ WriteIdx(idx)
        BY DEF Finalize
    <1>2. DOMAIN worker' = {"pc", "i", "segs", "todo", "ready"} /\ worker'.pc # "build"
        BY <1>1, QuietFacts
    <1>3. OpsNext
        BY <1>0, <1>2, QuietFacts DEF OpsNext
    <1>4. CASE WriteIdx(disk.idx)
        <2>1. disk.idx \in Idx
            BY QuietFacts
        <2>2. QED
            BY <1>0, <1>3, <1>4, <2>1, WrittenStep
    <1>5. CASE Declared(worker.i) /\ disk.segs = worker.segs /\ WriteIdx(idx)
        <2>1. disk.idx \in Idx /\ Coverage \in States
            BY QuietFacts DEF States, Coverage
        <2>2. /\ idx \in Idx /\ DOMAIN idx = DOMAIN disk.idx
              /\ \A i \in DOMAIN disk.idx : idx[i].state = IF i \in {worker.i} THEN Coverage ELSE disk.idx[i].state
            BY <2>1, MarkFacts
        <2>3. Coverage = "ready" /\ worker.i \notin overtaken => \A s \in disk.segs : side[s][worker.i] \in {"full", "bad"}
            <3>1. worker.i \notin overtaken => \A s \in disk.segs : s \in Parts /\ side[s][worker.i] # "empty"
                BY <1>5, QuietFacts DEF Declared
            <3>2. Coverage = "ready" => \A s \in disk.segs : side[s][worker.i] \in {"full", "empty"}
                BY <1>5 DEF Coverage, Valid
            <3>3. QED
                BY <3>1, <3>2
        <2> HIDE DEF idx
        <2>4. \A i \in DOMAIN disk.idx \ overtaken : idx[i].state = "ready" =>
                 disk.idx[i].state = "ready" \/ \A s \in disk.segs : side[s][i] \in {"full", "bad"}
            BY <2>2, <2>3
        <2>5. QED
            BY <1>0, <1>3, <1>5, <2>2, <2>4, WrittenStep
    <1>6. QED
        BY <1>1, <1>4, <1>5

LEMMA RepublishStep ==
    ASSUME IndexInv, Republish PROVE IndexInv'
    <1>0. UNCHANGED <<disk, runtime, active, frozen, nextPart, reg, side, jobs,
                      builder, built, events, compact, core, followups, overtaken, troubles>>
        BY DEF Republish, flushVars
    <1> DEFINE current == /\ worker.ready
                          /\ worker.i \in DOMAIN runtime
                          /\ runtime[worker.i].state = "ready"
               opened  == [s \in DOMAIN readers |->
                             IF current /\ s \in worker.segs /\ Valid(s, worker.i)
                             THEN Components(s) ELSE readers[s]]
    <1>1. /\ core.pc = "idle" /\ readers' = opened /\ worker' = AtRest
          /\ pub' = [mems |-> Mems, readers |-> opened, idx |-> runtime]
        BY DEF Republish, Publish, CoreIdle
    <1>2. pub'.mems = Mems /\ pub'.readers = readers' /\ pub'.idx = runtime
        BY <1>1, PublishFacts
    <1>3. DOMAIN readers' = DOMAIN readers
          /\ \A s \in DOMAIN readers : readers'[s] = Components(s) \/ readers'[s] = readers[s]
        BY <1>1
    <1>4. DOMAIN worker' = {"pc", "i", "segs", "todo", "ready"} /\ worker'.pc = "idle"
        BY <1>1 DEF AtRest
    <1> HIDE DEF current, opened
    <1>5. TypeOK'
        BY <1>0, <1>3, <1>4 DEF IndexInv, TypeOK
    <1>6. PartsApart'
        BY <1>0, <1>3 DEF IndexInv, PartsApart, Mems
    <1>7. Old' = Old /\ \A s : Components(s)' = Components(s)
        BY <1>0, SidesSame DEF Old
    <1>8. DOMAIN readers \subseteq Parts
        BY DEF IndexInv, TypeOK
    <1>9. IdsOld'
        <2>1. \A s \in DOMAIN readers' : readers'[s] \subseteq Old
            BY <1>3, <1>8 DEF IndexInv, IdsOld
        <2>2. QED
            BY <1>0, <1>2, <1>7, <2>1 DEF IndexInv, IdsOld
    <1>10. IdsGone'
        BY <1>0, <1>4, <1>7 DEF IndexInv, IdsGone
    <1>11. CopiesSynced'
        BY <1>0, <1>1, <1>2 DEF IndexInv, CopiesSynced
    <1>12. MemtablesKnow'
        BY <1>0, <1>1, <1>2, MemsSame DEF IndexInv
    <1>13. SidecarsComplete'
        <2>1. \A s \in Parts : Covered(s, Components(s))'
            BY <1>0, <1>7 DEF IndexInv, SidecarsComplete, Covered
        <2>2. \A s \in DOMAIN readers' : Covered(s, readers'[s])
            BY <1>3, <1>8 DEF IndexInv, SidecarsComplete
        <2>3. QED
            BY <1>0, <2>1, <2>2 DEF IndexInv, SidecarsComplete, Covered
    <1>14. ReadyCovered'
        BY <1>0, ReadySame, SidesSame DEF IndexInv
    <1>15. QED
        BY <1>5, <1>6, <1>9, <1>10, <1>11, <1>12, <1>13, <1>14 DEF IndexInv

LEMMA QueryStep ==
    ASSUME IndexInv, NEW i \in Ids, Query(i) PROVE IndexInv'
    <1>0. UNCHANGED <<disk, runtime, active, frozen, nextPart, reg, side, readers, pub,
                      jobs, worker, builder, built, events, compact, core, overtaken, troubles>>
        BY DEF Query, flushVars
    <1>1. PICK s : followups' = followups \cup {[i |-> i, next |-> IF i \in pub.readers[s] THEN "failed"
                                                                                       ELSE "building"]}
        BY DEF Query
    <1>2. OpsNext
        BY <1>0, <1>1, QuietFacts DEF OpsNext
    <1>3. QED
        BY <1>0, <1>2, QuietStep

LEMMA FollowupStep ==
    ASSUME IndexInv, ApplyFollowup PROVE IndexInv'
    <1>0. UNCHANGED <<active, frozen, nextPart, reg, side, readers, worker, builder, built, events,
                      compact, core, overtaken, troubles>>
        BY DEF ApplyFollowup, flushVars
    <1>1. PICK f \in followups :
              /\ core.pc = "idle" /\ followups' = followups \ {f}
              /\ IF f.i \notin DOMAIN runtime \/ runtime[f.i].state = f.next
                 THEN UNCHANGED <<disk, runtime, jobs, pub>>
                 ELSE /\ WriteIdx(Mark(disk.idx, {f.i}, f.next))
                      /\ jobs' = IF f.next = "building" /\ runtime[f.i].state # "building"
                                 THEN Append(jobs, [kind |-> "build", i |-> f.i])
                                 ELSE jobs
                      /\ pub' = [mems |-> Mems, readers |-> readers, idx |-> runtime']
        BY DEF ApplyFollowup, CoreIdle, Publish
    <1>2. f.next \in {"failed", "building"} /\ followups' \subseteq [i : Ids, next : {"failed", "building"}]
        BY <1>1, QuietFacts
    <1>3. CASE UNCHANGED <<disk, runtime, jobs, pub>>
        <2>1. OpsNext
            BY <1>0, <1>2, <1>3, QuietFacts DEF OpsNext
        <2>2. QED
            BY <1>0, <1>3, <2>1, QuietStep
    <1> DEFINE idx == Mark(disk.idx, {f.i}, f.next)
    <1>4. CASE /\ WriteIdx(idx) /\ (jobs' = jobs \/ jobs' = Append(jobs, [kind |-> "build", i |-> f.i]))
               /\ pub' = [mems |-> Mems, readers |-> readers, idx |-> runtime']
        <2>1. /\ jobs' \in Seq(ToSet(jobs')) /\ \A j \in ToSet(jobs') : j.kind = "drop" => j \in ToSet(jobs)
            <3>1. CASE jobs' = jobs
                BY <3>1, QuietFacts
            <3>2. CASE jobs' = Append(jobs, [kind |-> "build", i |-> f.i])
                BY <3>2, QuietFacts, JobAppended
            <3>3. QED
                BY <1>4, <3>1, <3>2
        <2>2. OpsNext
            BY <1>0, <1>2, <2>1, QuietFacts DEF OpsNext
        <2>3. disk.idx \in Idx /\ f.next \in States /\ f.next # "ready"
            BY <1>2, QuietFacts DEF States
        <2>4. /\ idx \in Idx /\ DOMAIN idx = DOMAIN disk.idx
              /\ \A i \in DOMAIN disk.idx : idx[i].state = "ready" => disk.idx[i].state = "ready"
            BY <2>3, MarkFacts
        <2> HIDE DEF idx
        <2>5. pub'.mems = Mems /\ pub'.readers = readers /\ pub'.idx = runtime'
            BY <1>4, PublishFacts
        <2>6. QED
            BY <1>0, <1>1, <1>4, <2>2, <2>4, <2>5, WrittenStep
    <1>5. QED
        BY <1>1, <1>3, <1>4

LEMMA DamageStep ==
    ASSUME IndexInv, Damage PROVE IndexInv'
    <1>0. UNCHANGED <<disk, runtime, active, frozen, nextPart, reg, readers, pub,
                      jobs, worker, builder, built, events, compact, core, followups, overtaken>>
        BY DEF Damage, flushVars
    <1>1. PICK s \in disk.segs, i \in DOMAIN disk.idx :
              side[s][i] = "full" /\ side' = [side EXCEPT ![s][i] = "bad"]
        BY DEF Damage
    <1>2. s \in Parts /\ i \in Old /\ i \in Ids /\ DOMAIN disk.idx \subseteq Ids
        BY QuietFacts
    <1>3. side' \in [Parts -> [Ids -> {"none", "full", "empty", "bad"}]]
          /\ \A p \in Parts : \A x \in Ids : side'[p][x] = side[p][x] \/ (x = i /\ side'[p][x] = "bad")
        BY <1>1, <1>2, QuietFacts
    <1>4. SidesKeep
        BY <1>2, <1>3 DEF SidesKeep
    <1>5. /\ \A p \in Parts : \A x \in Ids : side'[p][x] # "none" => x \in Old
          /\ \A p \in Parts : \A x \in DOMAIN disk.idx \ overtaken : side'[p][x] # "empty"
        <2>1. /\ \A p \in Parts : \A x \in Ids : side[p][x] # "none" => x \in Old
              /\ \A p \in Parts : \A x \in DOMAIN disk.idx \ overtaken : side[p][x] # "empty"
            BY QuietFacts
        <2>2. QED
            BY <1>2, <1>3, <2>1
    <1>6. SidesOnly
        BY <1>0, <1>3, <1>4, <1>5 DEF SidesOnly
    <1>7. OpsNext
        BY <1>0, QuietFacts DEF OpsNext
    <1>8. QED
        BY <1>6, <1>7, SidesStep

LEMMA RestartStep ==
    ASSUME IndexInv, Restart PROVE IndexInv'
    <1>0. /\ UNCHANGED <<active, nextPart, overtaken>> /\ worker' = AtRest /\ core' = NoOp /\ compact' = {}
          /\ followups' = {} /\ builder' = {} /\ built' = <<>> /\ events' = <<>>
          /\ frozen' = frozen \ disk.segs
        BY DEF Restart
    <1>1. /\ reg' = [m \in Parts |-> IF m \in {active} \cup frozen' THEN DOMAIN disk.idx ELSE {}]
          /\ readers' = [s \in disk.segs |-> {i \in Ids : side'[s][i] # "none"}]
          /\ pub' = [mems |-> {active} \cup frozen', readers |-> readers', idx |-> runtime']
        BY DEF Restart, Publish
    <1>2. PICK lost : side' = SidesLeft(lost)
        BY DEF Restart
    <1>3. /\ side' \in [Parts -> [Ids -> {"none", "full", "empty", "bad"}]]
          /\ \A s \in Parts : \A i \in Ids : side'[s][i] = side[s][i] \/ side'[s][i] = "none"
        BY <1>2, QuietFacts DEF SidesLeft
    <1>4. PICK st \in [DOMAIN disk.idx -> {"ready", "building", "failed"}] : WriteRecovered(st)
        BY DEF Restart
    <1> DEFINE idx == [i \in DOMAIN st |-> [disk.idx[i] EXCEPT !.state = st[i]]]
               todo == {i \in DOMAIN st : st[i] = "building"}
    <1>5. /\ disk.idx \in Idx /\ DOMAIN disk.idx \subseteq Ids /\ DOMAIN disk.idx \subseteq Old
          /\ disk.segs \subseteq Parts /\ \A i \in DOMAIN disk.idx : disk.idx[i] \in Entries
        BY QuietFacts, DiskFacts DEF IndexInv
    <1>6. /\ idx \in [DOMAIN disk.idx -> Entries] /\ todo \in SUBSET Ids
          /\ \A i \in DOMAIN disk.idx : idx[i].state = st[i]
        BY <1>5 DEF Entries, States
    <1>7. idx \in Idx /\ DOMAIN idx = DOMAIN disk.idx
        BY <1>5, <1>6 DEF Idx
    <1>8. WriteIdx(idx) /\ jobs' = Builds(todo)
        BY <1>4 DEF WriteRecovered
    <1> HIDE DEF idx, todo
    <1>9. jobs' \in Seq(ToSet(jobs')) /\ \A j \in ToSet(jobs') : j.kind = "build"
        BY <1>6, <1>8, BuildsFacts
    <1>10. /\ disk' \in [segs : SUBSET Parts, idx : Idx, nextId : Nat]
           /\ disk'.idx = idx /\ disk'.segs = disk.segs /\ disk'.nextId = disk.nextId
           /\ DOMAIN disk'.idx = DOMAIN disk.idx /\ runtime' = idx
        BY <1>7, <1>8, Rewritten DEF WriteIdx, IndexInv
    <1>11. pub'.mems = {active} \cup frozen' /\ pub'.readers = readers' /\ pub'.idx = runtime'
        BY <1>1, PublishFacts
    <1>12. DOMAIN worker' = {"pc", "i", "segs", "todo", "ready"} /\ worker'.pc = "idle"
        BY <1>0 DEF AtRest
    <1>13. core' \in [pc : CoreOps, i : Ids \cup {0}, idx : Idx] /\ core'.pc = "idle"
        BY <1>0, NoOpFacts
    <1>14. reg' \in [Parts -> SUBSET Ids] /\ \A m \in {active} \cup frozen' : reg'[m] = DOMAIN disk.idx
        BY <1>0, <1>1, <1>5 DEF IndexInv, TypeOK
    <1>15. DOMAIN readers' = disk.segs /\ \A s \in disk.segs : readers'[s] = Components(s)'
        BY <1>1, <1>5 DEF Components
    <1>16. TypeOK'
        <2>1. built' \in Seq(Builder) /\ DOMAIN built' = {} /\ events' \in Seq(Arrival) /\ DOMAIN events' = {}
            BY <1>0
        <2>2. QED
            BY <1>0, <1>3, <1>5, <1>7, <1>9, <1>10, <1>12, <1>13, <1>14, <1>15, <2>1 DEF IndexInv, TypeOK
    <1>17. DOMAIN built' = {} /\ DOMAIN events' = {} /\ Mems' = {active} \cup frozen'
        BY <1>0 DEF Mems
    <1>18. PartsApart'
        <2>1. \A p \in Mems' \cup disk.segs \cup DOMAIN readers' : p < nextPart
            BY <1>0, <1>15, <1>17 DEF IndexInv, PartsApart, Mems
        <2>2. /\ active \notin frozen' \cup disk.segs \cup DOMAIN readers'
              /\ frozen' \cap DOMAIN readers' = {}
            BY <1>0, <1>15 DEF IndexInv, PartsApart
        <2>3. QED
            BY <1>0, <1>10, <1>17, <2>1, <2>2 DEF PartsApart
    <1>19. Old' = Old
        BY <1>10 DEF Old
    <1>20. \A s \in Parts : Components(s)' \subseteq Components(s)
        BY <1>3 DEF Components
    <1>21. IdsOld'
        BY <1>0, <1>5, <1>10, <1>11, <1>15, <1>17, <1>19, <1>20 DEF IndexInv, IdsOld
    <1>22. IdsGone'
        BY <1>9, <1>12, <1>13 DEF IdsGone
    <1>23. CopiesSynced'
        BY <1>10, <1>11, <1>13 DEF CopiesSynced
    <1>24. MemtablesKnow'
        BY <1>0, <1>10, <1>11, <1>14, <1>17 DEF MemtablesKnow
    <1>25. \A s \in Parts : Covered(s, Components(s))'
        <2>1. \A s \in Parts : \A i \in DOMAIN disk.idx \ overtaken : side[s][i] # "empty"
            BY QuietFacts
        <2>2. \A s \in Parts : \A i \in DOMAIN disk.idx \ overtaken :
                  side'[s][i] \in {"none", "full", "empty", "bad"} /\ side'[s][i] # "empty"
            BY <1>3, <1>5, <2>1
        <2>3. QED
            BY <1>0, <1>10, <2>2 DEF Covered, Components
    <1>26. SidecarsComplete'
        <2>1. \A s \in DOMAIN readers' : Covered(s, readers[s])'
            BY <1>5, <1>15, <1>25 DEF Covered
        <2>2. QED
            BY <1>0, <1>17, <1>25, <2>1 DEF SidecarsComplete
    <1>27. ReadyCovered'
        <2>1. SUFFICES ASSUME NEW i \in DOMAIN disk.idx \ overtaken, idx[i].state = "ready", NEW s \in disk.segs
                       PROVE  side'[s][i] \in {"full", "bad"}
            BY <1>0, <1>10 DEF ReadyCovered
        <2>2. st[i] = "ready" /\ "ready" \in RecoveredState(side', i)
            BY <1>4, <1>6, <2>1 DEF WriteRecovered
        <2>3. disk.idx[i].state = "ready" /\ side'[s][i] # "none"
            BY <2>1, <2>2 DEF RecoveredState
        <2>4. QED
            BY <1>3, <1>5, <2>3 DEF IndexInv, ReadyCovered
    <1>28. QED
        BY <1>16, <1>18, <1>21, <1>22, <1>23, <1>24, <1>26, <1>27 DEF IndexInv

-----------------------------------------------------------------------------
(* The invariant *)

LEMMA IndexInit ==
    ASSUME Init PROVE IndexInv
    <1>0. /\ disk = [segs |-> {}, idx |-> <<>>, nextId |-> 1] /\ runtime = <<>>
          /\ active = 1 /\ frozen = {} /\ nextPart = 2
          /\ reg = [m \in Parts |-> {}] /\ side = [s \in Parts |-> [i \in Ids |-> "none"]]
          /\ readers = <<>> /\ pub = [mems |-> {1}, readers |-> <<>>, idx |-> <<>>]
          /\ jobs = <<>> /\ worker = AtRest /\ builder = {} /\ built = <<>> /\ events = <<>>
          /\ compact = {} /\ core = NoOp /\ followups = {}
        BY DEF Init
    <1>1. <<>> \in Idx /\ DOMAIN <<>> = {}
        BY EmptyIdx
    <1>2. /\ disk \in [segs : SUBSET Parts, idx : Idx, nextId : Nat] /\ disk.segs = {}
          /\ disk.idx = <<>>
        BY <1>0, <1>1
    <1>3. core \in [pc : CoreOps, i : Ids \cup {0}, idx : Idx] /\ core.pc = "idle"
        BY <1>0, NoOpFacts
    <1>4. DOMAIN worker = {"pc", "i", "segs", "todo", "ready"} /\ worker.pc = "idle"
        BY <1>0 DEF AtRest
    <1>5. pub.mems = {1} /\ pub.readers = <<>> /\ pub.idx = <<>> /\ Mems = {1}
        BY <1>0 DEF Mems
    <1>6. 1 \in Parts /\ ToSet(jobs) = {} /\ jobs \in Seq(ToSet(jobs))
        BY <1>0, IndexConstantsAssumption DEF Parts, ToSet
    <1>7. \A s \in Parts : Components(s) = {}
        BY <1>0 DEF Components
    <1>8. TypeOK
        <2>1. /\ built \in Seq(Builder) /\ events \in Seq(Arrival) /\ reg \in [Parts -> SUBSET Ids]
              /\ side \in [Parts -> [Ids -> {"none", "full", "empty", "bad"}]]
            BY <1>0
        <2>2. runtime \in Idx /\ DOMAIN readers \subseteq Parts
            BY <1>0, <1>1
        <2>3. QED
            BY <1>0, <1>2, <1>3, <1>4, <1>6, <2>1, <2>2 DEF TypeOK
    <1>9. PartsApart
        BY <1>0, <1>1, <1>2, <1>5 DEF PartsApart
    <1>10. IdsOld
        BY <1>0, <1>1, <1>2, <1>5, <1>7 DEF IdsOld
    <1>11. IdsGone
        BY <1>3, <1>4, <1>6 DEF IdsGone
    <1>12. CopiesSynced
        BY <1>0, <1>2, <1>3, <1>5 DEF CopiesSynced
    <1>13. MemtablesKnow
        BY <1>0, <1>1, <1>2, <1>5 DEF MemtablesKnow
    <1>14. SidecarsComplete
        BY <1>0, <1>1, <1>2, <1>7 DEF SidecarsComplete, Covered
    <1>15. ReadyCovered
        BY <1>1, <1>2 DEF ReadyCovered
    <1>16. QED
        BY <1>8, <1>9, <1>10, <1>11, <1>12, <1>13, <1>14, <1>15 DEF IndexInv

LEMMA IndexStep ==
    ASSUME IndexInv, [Next]_vars PROVE IndexInv'
    <1>1. CASE UNCHANGED vars
        <2>1. UNCHANGED <<disk, runtime, active, frozen, nextPart, reg, side, readers, pub,
                          jobs, worker, builder, built, events, compact, core, followups, overtaken>>
            BY <1>1 DEF vars
        <2>2. OpsNext
            BY <2>1, QuietFacts DEF OpsNext
        <2>3. QED
            BY <2>1, <2>2, QuietStep
    <1>2. CASE Client
        BY <1>2, EnsureStep, DropStep, QueryStep, FreezeStep DEF Client
    <1>3. CASE CoreStep
        BY <1>3, SyncStep, ForgetStep, SeedStep, RemoveStep, SwapStep DEF CoreStep
    <1>4. CASE FlushStep
        BY <1>4, StartBuildStep, WriteStep, PublishStep, AdoptStep DEF FlushStep
    <1>5. CASE WorkerStep
        BY <1>5, TakeStep, LoadStep, BuildStep, FinalizeStep, RepublishStep DEF WorkerStep
    <1>6. CASE StartCompact \/ RunCompact \/ ApplyCompact
        BY <1>6, StartCompactStep, RunCompactStep, ApplyCompactStep
    <1>7. CASE ApplyFollowup \/ FailBuild \/ Damage \/ Restart
        BY <1>7, FollowupStep, FailStep, DamageStep, RestartStep
    <1>8. QED
        BY <1>1, <1>2, <1>3, <1>4, <1>5, <1>6, <1>7 DEF Next

\* Parts, ids, copies of the declarations, memtables and sidecars stay in step through every
\* interleaving of the core, the flush threads, the compaction, the worker, queries, damage
\* and restarts; what it says of sidecars excepts the indexes whose retry overtook a builder.
THEOREM IndexInductive == Spec => []IndexInv
    <1>1. Init => IndexInv
        BY IndexInit
    <1>2. IndexInv /\ [Next]_vars => IndexInv'
        BY IndexStep
    <1>3. QED
        BY <1>1, <1>2, PTL DEF Spec

\* An index that the manifest calls Ready has a complete (or visibly damaged) sidecar in every
\* segment of the manifest: finalize_*_build_snapshot, the publisher and apply_bg_compact_result
\* never trust a sidecar that misses records, and a reopened database does not either.  The
\* exception is in ReadyCovered: an index whose retry overtook a flush builder.
THEOREM ReadyIndexesCovered == Spec => []ReadyCovered
    <1>1. IndexInv => ReadyCovered
        BY DEF IndexInv
    <1>2. QED
        BY <1>1, IndexInductive, PTL

LEMMA CompleteOrScanned ==
    ASSUME IndexInv PROVE LookupsComplete
    <1>1. SUFFICES ASSUME NEW i \in DOMAIN disk.idx \ overtaken, ReadyInView(i), core.pc # "seed", Unanswered(i) = {}
                   PROVE  Found(i) = pub.mems \cup DOMAIN pub.readers
        BY DEF LookupsComplete
    <1>2. \A m \in pub.mems : i \in reg[m]
        <2>1. ~(core.pc = "ensure" /\ i = core.i)
            BY <1>1 DEF IndexInv, CopiesSynced, ReadyInView
        <2>2. QED
            BY <1>1, <2>1 DEF IndexInv, MemtablesKnow
    <1>3. \A s \in DOMAIN pub.readers : side[s][i] = "full"
        <2>1. SUFFICES ASSUME NEW s \in DOMAIN pub.readers PROVE side[s][i] = "full"
            OBVIOUS
        <2>2. i \in pub.readers[s] /\ side[s][i] # "bad"
            BY <1>1 DEF Unanswered
        <2>3. Covered(s, pub.readers[s])
            BY DEF IndexInv, CopiesSynced, SidecarsComplete
        <2>4. QED
            BY <2>2, <2>3 DEF Covered
    <1>4. QED
        BY <1>2, <1>3 DEF Found

\* A query through an index that its published view shows Ready falls back to the scan or finds
\* every match in memtables and segments (find_nodes_outcome, ready_equality_source_ids),
\* whichever thread replaced a memtable, a segment or a sidecar meanwhile, except through an
\* index whose retry overtook a flush builder.
THEOREM IndexLookupsComplete == Spec => []LookupsComplete
    <1>1. IndexInv => LookupsComplete
        BY CompleteOrScanned
    <1>2. QED
        BY <1>1, IndexInductive, PTL
=============================================================================
