----------------------------- MODULE WalProofs ------------------------------
(***************************************************************************)
(* Durability, atomicity and order of the write-ahead log, for files and   *)
(* batches of any length.  The library's induction rules take an operator, *)
(* which the provers cannot instantiate; Induction is the same rule about  *)
(* a set.  From it the loops of read_path and of the replay get their      *)
(* equations, then a closed form of their states, then what recovery makes *)
(* of a file that the writer, a failed append or a crash can leave.  The   *)
(* invariant of the log follows action by action.                          *)
(***************************************************************************)
EXTENDS Wal, WellFoundedInduction, FiniteSetTheorems, SequenceTheorems, TLAPS

\* Every nonempty set of naturals has a least member.
LEMMA LeastNatural ==
    ASSUME NEW S \in SUBSET Nat, S # {}
    PROVE  \E m \in S : \A k \in S : m <= k
  <1> DEFINE R == OpToRel(<, Nat)
  <1>1. IsWellFoundedOn(R, Nat)
    BY NatLessThanWellFounded
  <1>2. PICK m \in S : \A k \in S : <<k, m>> \notin R
    <2> HIDE DEF R
    <2> QED
      BY <1>1, WFMin
  <1>3. \A k \in S : ~(k < m)
    BY <1>2 DEF OpToRel
  <1> QED
    BY <1>3

\* Induction over the naturals, for a set.
LEMMA Induction ==
    ASSUME NEW S \in SUBSET Nat, 0 \in S, \A n \in S : n + 1 \in S
    PROVE  S = Nat
  <1> SUFFICES ASSUME Nat \ S # {} PROVE FALSE
    OBVIOUS
  <1>1. PICK m \in Nat \ S : \A k \in Nat \ S : m <= k
    BY LeastNatural
  <1>2. m - 1 \in S
    BY <1>1
  <1> QED
    BY <1>1, <1>2

-----------------------------------------------------------------------------
(* The loops *)

\* What the loop of read_path is: defined by its turns.
IsReadLoop(r, file, n) ==
    r = [i \in 0..n |-> IF i = 0 THEN ReadStart ELSE ReadStep(r[i - 1], file[i])]

IsReplayLoop(r, file, n) ==
    r = [i \in 0..n |-> IF i = 0 THEN ReplayStart ELSE ReplayStep(r[i - 1], file[i])]

\* Such a loop exists, so CHOOSE finds it.
LEMMA ReadLoopExists ==
    ASSUME NEW file, NEW m \in Nat
    PROVE  \E r : IsReadLoop(r, file, m)
  <1> DEFINE S == {n \in Nat : \E r : IsReadLoop(r, file, n)}
  <1>1. 0 \in S
    <2>1. IsReadLoop([i \in 0..0 |-> ReadStart], file, 0)
      BY DEF IsReadLoop
    <2> QED
      BY <2>1
  <1>2. ASSUME NEW n \in S PROVE n + 1 \in S
    <2>1. PICK r : IsReadLoop(r, file, n)
      OBVIOUS
    <2> DEFINE t == [i \in 0..(n + 1) |-> IF i <= n THEN r[i] ELSE ReadStep(r[n], file[n + 1])]
    <2>2. IsReadLoop(t, file, n + 1)
      BY <2>1 DEF IsReadLoop
    <2> QED
      BY <2>2
  <1>3. S = Nat
    <2> HIDE DEF S
    <2> QED
      BY <1>1, <1>2, Induction DEF S
  <1> QED
    BY <1>3

\* The same of the replay.
LEMMA ReplayLoopExists ==
    ASSUME NEW file, NEW m \in Nat
    PROVE  \E r : IsReplayLoop(r, file, m)
  <1> DEFINE S == {n \in Nat : \E r : IsReplayLoop(r, file, n)}
  <1>1. 0 \in S
    <2>1. IsReplayLoop([i \in 0..0 |-> ReplayStart], file, 0)
      BY DEF IsReplayLoop
    <2> QED
      BY <2>1
  <1>2. ASSUME NEW n \in S PROVE n + 1 \in S
    <2>1. PICK r : IsReplayLoop(r, file, n)
      OBVIOUS
    <2> DEFINE t == [i \in 0..(n + 1) |-> IF i <= n THEN r[i] ELSE ReplayStep(r[n], file[n + 1])]
    <2>2. IsReplayLoop(t, file, n + 1)
      BY <2>1 DEF IsReplayLoop
    <2> QED
      BY <2>2
  <1>3. S = Nat
    <2> HIDE DEF S
    <2> QED
      BY <1>1, <1>2, Induction DEF S
  <1> QED
    BY <1>3

\* The turns of read_path.
LEMMA ReadLoopTurns ==
    ASSUME NEW file, Len(file) \in Nat
    PROVE  /\ ReadLoop(file)[0] = ReadStart
           /\ \A i \in 1..Len(file) : ReadLoop(file)[i] = ReadStep(ReadLoop(file)[i - 1], file[i])
  <1>1. IsReadLoop(ReadLoop(file), file, Len(file))
    <2>1. ReadLoop(file) = CHOOSE r : IsReadLoop(r, file, Len(file))
      BY DEF ReadLoop, IsReadLoop
    <2> QED
      BY <2>1, ReadLoopExists
  <1> QED
    BY <1>1 DEF IsReadLoop

\* The turns of the replay.
LEMMA ReplayLoopTurns ==
    ASSUME NEW file, Len(file) \in Nat
    PROVE  /\ ReplayLoop(file)[0] = ReplayStart
           /\ \A i \in 1..Len(file) : ReplayLoop(file)[i] = ReplayStep(ReplayLoop(file)[i - 1], file[i])
  <1>1. IsReplayLoop(ReplayLoop(file), file, Len(file))
    <2>1. ReplayLoop(file) = CHOOSE r : IsReplayLoop(r, file, Len(file))
      BY DEF ReplayLoop, IsReplayLoop
    <2> QED
      BY <2>1, ReplayLoopExists
  <1> QED
    BY <1>1 DEF IsReplayLoop

\* Both loops look only at the frames they have passed.
LEMMA ReadLoopAgrees ==
    ASSUME NEW file, NEW other, Len(file) \in Nat, Len(other) \in Nat,
           NEW n \in Nat, n <= Len(file), n <= Len(other), \A j \in 1..n : file[j] = other[j]
    PROVE  \A i \in 0..n : ReadLoop(file)[i] = ReadLoop(other)[i]
  <1> DEFINE S == {i \in Nat : i <= n => ReadLoop(file)[i] = ReadLoop(other)[i]}
  <1>1. 0 \in S
    BY ReadLoopTurns
  <1>2. ASSUME NEW i \in S PROVE i + 1 \in S
    <2> SUFFICES ASSUME i + 1 <= n PROVE ReadLoop(file)[i + 1] = ReadLoop(other)[i + 1]
      OBVIOUS
    <2>1. ReadLoop(file)[i] = ReadLoop(other)[i] /\ file[i + 1] = other[i + 1]
      OBVIOUS
    <2>2. /\ ReadLoop(file)[i + 1] = ReadStep(ReadLoop(file)[i], file[i + 1])
          /\ ReadLoop(other)[i + 1] = ReadStep(ReadLoop(other)[i], other[i + 1])
      BY ReadLoopTurns
    <2> QED
      BY <2>1, <2>2
  <1>3. S = Nat
    <2> HIDE DEF S
    <2> QED
      BY <1>1, <1>2, Induction DEF S
  <1> QED
    BY <1>3

\* So does the replay.
LEMMA ReplayLoopAgrees ==
    ASSUME NEW file, NEW other, Len(file) \in Nat, Len(other) \in Nat,
           NEW n \in Nat, n <= Len(file), n <= Len(other), \A j \in 1..n : file[j] = other[j]
    PROVE  \A i \in 0..n : ReplayLoop(file)[i] = ReplayLoop(other)[i]
  <1> DEFINE S == {i \in Nat : i <= n => ReplayLoop(file)[i] = ReplayLoop(other)[i]}
  <1>1. 0 \in S
    BY ReplayLoopTurns
  <1>2. ASSUME NEW i \in S PROVE i + 1 \in S
    <2> SUFFICES ASSUME i + 1 <= n PROVE ReplayLoop(file)[i + 1] = ReplayLoop(other)[i + 1]
      OBVIOUS
    <2>1. ReplayLoop(file)[i] = ReplayLoop(other)[i] /\ file[i + 1] = other[i + 1]
      OBVIOUS
    <2>2. /\ ReplayLoop(file)[i + 1] = ReplayStep(ReplayLoop(file)[i], file[i + 1])
          /\ ReplayLoop(other)[i + 1] = ReplayStep(ReplayLoop(other)[i], other[i + 1])
      BY ReplayLoopTurns
    <2> QED
      BY <2>1, <2>2
  <1>3. S = Nat
    <2> HIDE DEF S
    <2> QED
      BY <1>1, <1>2, Induction DEF S
  <1> QED
    BY <1>3

-----------------------------------------------------------------------------
(* What the file holds, and the state of both loops in closed form *)

Frame == [kind : {"op", "begin", "commit", "torn"}, w : Nat, seq : Nat, count : Nat]

\* The frame that completes an attempt.
Seals(f, sz) == f.kind = "commit" \/ (f.kind = "op" /\ sz[f.w] = 1)

\* The first frame of its attempt.
IsFirst(file, i) == \A j \in 1..(i - 1) : file[j].w < file[i].w

\* Where a frame stands among those of its attempt, which has n operations.
InPlace(file, i, n) ==
    /\ file[i].kind = "begin" => n >= 2 /\ file[i].count = n /\ IsFirst(file, i)
    /\ file[i].kind = "op" /\ n = 1 => IsFirst(file, i)
    /\ file[i].kind = "op" /\ n # 1 =>
          i > 1 /\ file[i - 1].w = file[i].w /\ file[i - 1].kind \in {"begin", "op"}
    /\ file[i].kind = "commit" =>
          /\ n >= 2 /\ file[i].count = n /\ i > n + 1
          /\ file[i - n - 1].kind = "begin" /\ file[i - n - 1].w = file[i].w
          /\ \A j \in (i - n)..(i - 1) : file[j].kind = "op" /\ file[j].w = file[i].w

\* A file as the writer leaves it, whatever fails: the attempts follow one another and
\* each has written a beginning of its frames.
Framed(file, sz) ==
    /\ file \in Seq(Frame) /\ sz \in Seq(Nat)
    /\ \A i \in 1..Len(file) : file[i].w \in 1..Len(sz) /\ InPlace(file, i, sz[file[i].w])
    /\ \A i, j \in 1..Len(file) : i <= j => file[i].w <= file[j].w

\* Behind frame e a batch is open, or e = i.
BatchOpen(file, e, i) ==
    e < i => /\ file[e + 1].kind = "begin" /\ file[e + 1].seq # 0 /\ file[e + 1].count >= 2
             /\ i - e - 1 <= file[e + 1].count
             /\ \A j \in (e + 2)..i : file[j].kind = "op" /\ file[j].seq = file[e + 1].seq + (j - e - 2)

\* read_path after i frames, the last e of which outside a batch ...
ReadBatch(file, e, i) ==
    IF e = i THEN {}
    ELSE {[first |-> file[e + 1].seq, count |-> file[e + 1].count, read |-> i - e - 1]}

ReadAt(file, e, i) ==
    [stop |-> FALSE, records |-> SubSeq(file, 1, i), open |-> ReadBatch(file, e, i), durable |-> e]

\* ... and the replay of them, which has applied a.
ReplayBatch(file, e, i) ==
    IF e = i THEN {}
    ELSE {[first |-> file[e + 1].seq, count |-> file[e + 1].count, ops |-> SubSeq(file, e + 2, i)]}

ReplayAt(file, e, i, a) == [stop |-> FALSE, open |-> ReplayBatch(file, e, i), applied |-> a]

\* The operations of a[k]'s attempt are those behind position b.
Block(a, sz, k, b) ==
    /\ b < k /\ k <= b + sz[a[k].w] /\ b + sz[a[k].w] <= Len(a)
    /\ \A j \in 1..Len(a) : a[j].w = a[k].w <=> (b < j /\ j <= b + sz[a[k].w])

\* The applied operations: of the attempts completed up to e, all of each, in order.
Applied(file, sz, e, a) ==
    /\ a \in Seq(Frame)
    /\ \A k \in 1..Len(a) : \E j \in 1..e : a[k].w = file[j].w /\ Seals(file[j], sz)
    /\ \A j \in 1..e : Seals(file[j], sz) => \E k \in 1..Len(a) : a[k].w = file[j].w
    /\ \A k \in 1..Len(a) : \E b \in Nat : Block(a, sz, k, b)
    /\ \A j, k \in 1..Len(a) : j <= k => a[j].w <= a[k].w

StateOk(file, sz, e, i, a) ==
    /\ e \in 0..i /\ BatchOpen(file, e, i)
    /\ e > 0 => Seals(file[e], sz)
    /\ Applied(file, sz, e, a)

-----------------------------------------------------------------------------
(* One turn of both loops *)

\* Part of a file and one frame more.
LEMMA PartGrows ==
    ASSUME NEW T, NEW file \in Seq(T), NEW i \in 0..(Len(file) - 1), NEW m \in 1..(i + 1)
    PROVE  SubSeq(file, m, i + 1) = Append(SubSeq(file, m, i), file[i + 1])
  <1>1. SubSeq(file, m, i) \in Seq(T) /\ Len(SubSeq(file, m, i)) = i - m + 1
    BY SubSeqProperties
  <1>2. SubSeq(file, m, i + 1) \in Seq(T) /\ Len(SubSeq(file, m, i + 1)) = i - m + 2
    BY SubSeqProperties
  <1>3. Append(SubSeq(file, m, i), file[i + 1]) \in Seq(T)
    BY <1>1, AppendProperties, ElementOfSeq
  <1>4. Len(Append(SubSeq(file, m, i), file[i + 1])) = i - m + 2
    BY <1>1, AppendProperties, ElementOfSeq
  <1>5. ASSUME NEW k \in 1..(i - m + 2)
        PROVE  SubSeq(file, m, i + 1)[k] = Append(SubSeq(file, m, i), file[i + 1])[k]
    <2>1. SubSeq(file, m, i + 1)[k] = file[m + k - 1]
      BY SubSeqProperties
    <2>2. CASE k = i - m + 2
      BY <1>1, <2>1, <2>2, AppendProperties, ElementOfSeq
    <2>3. CASE k # i - m + 2
      <3>1. k \in 1..Len(SubSeq(file, m, i))
        BY <1>1, <2>3
      <3>2. Append(SubSeq(file, m, i), file[i + 1])[k] = SubSeq(file, m, i)[k]
        BY <1>1, <3>1, AppendProperties, ElementOfSeq
      <3>3. SubSeq(file, m, i)[k] = file[m + k - 1]
        BY <1>1, <3>1, SubSeqProperties
      <3> QED
        BY <2>1, <3>2, <3>3
    <2> QED
      BY <2>2, <2>3
  <1> QED
    BY <1>2, <1>3, <1>4, <1>5, SeqEqual

\* Both loops are in closed form and read_path takes the next frame.
Turn(file, sz, e, i, a) ==
    /\ Framed(file, sz) /\ i \in 0..(Len(file) - 1) /\ StateOk(file, sz, e, i, a)
    /\ Accepts(ReadAt(file, e, i), file[i + 1])

\* They are in closed form behind it.
TurnOk(file, sz, e, i, a, d, b) ==
    /\ StateOk(file, sz, d, i + 1, b)
    /\ ReadStep(ReadAt(file, e, i), file[i + 1]) = ReadAt(file, d, i + 1)
    /\ ReplayStep(ReplayAt(file, e, i, a), file[i + 1]) = ReplayAt(file, d, i + 1, b)

\* What the frames and indexes of a turn are.
LEMMA TurnFacts ==
    ASSUME NEW file, NEW sz, NEW e, NEW i, NEW a, Turn(file, sz, e, i, a)
    PROVE  /\ i \in Nat /\ e \in Nat /\ e <= i /\ i + 1 \in 1..Len(file) /\ Len(file) \in Nat
           /\ file[i + 1] \in Frame
           /\ e < i => file[e + 1] \in Frame
           /\ Append(SubSeq(file, 1, i), file[i + 1]) = SubSeq(file, 1, i + 1)
           /\ Len(SubSeq(file, 1, i)) = i
  <1>1. file \in Seq(Frame) /\ i \in 0..(Len(file) - 1) /\ e \in 0..i
    BY DEF Turn, Framed, StateOk
  <1>2. Len(file) \in Nat
    BY <1>1, LenProperties
  <1>3. i \in Nat /\ e \in Nat /\ e <= i /\ i + 1 \in 1..Len(file)
    BY <1>1, <1>2
  <1>4. file[i + 1] \in Frame /\ (e < i => file[e + 1] \in Frame)
    BY <1>1, <1>2, <1>3, ElementOfSeq
  <1>5. Append(SubSeq(file, 1, i), file[i + 1]) = SubSeq(file, 1, i + 1)
    BY <1>1, <1>3, PartGrows
  <1>6. \A j \in 1..i : file[j] \in Frame
    BY <1>1, <1>2, <1>3, ElementOfSeq
  <1>7. Len(SubSeq(file, 1, i)) = i
    BY <1>6, <1>3, SubSeqProperties
  <1> QED
    BY <1>2, <1>3, <1>4, <1>5, <1>7

\* A turn of read_path that takes the frame.
Takes(file, e, i, d) ==
    /\ OpenAfter(ReadAt(file, e, i), file[i + 1]) = ReadBatch(file, d, i + 1)
    /\ d = IF ReadBatch(file, d, i + 1) = {} THEN i + 1 ELSE e

\* Taking the frame leaves read_path in closed form.
LEMMA ReadTakes ==
    ASSUME NEW file, NEW sz, NEW e, NEW i, NEW a, Turn(file, sz, e, i, a), NEW d, Takes(file, e, i, d)
    PROVE  ReadStep(ReadAt(file, e, i), file[i + 1]) = ReadAt(file, d, i + 1)
  <1> DEFINE r == ReadAt(file, e, i)
             f == file[i + 1]
  <1>0. /\ Accepts(r, f) /\ OpenAfter(r, f) = ReadBatch(file, d, i + 1)
        /\ d = IF ReadBatch(file, d, i + 1) = {} THEN i + 1 ELSE e
        /\ Append(SubSeq(file, 1, i), f) = SubSeq(file, 1, i + 1) /\ Len(SubSeq(file, 1, i)) = i
    BY TurnFacts DEF Turn, Takes
  <1>1. r.stop = FALSE /\ r.records = SubSeq(file, 1, i) /\ r.durable = e
    BY DEF ReadAt
  <1>2. ReadStep(r, f) = [stop    |-> FALSE,
                          records |-> Append(r.records, f),
                          open    |-> OpenAfter(r, f),
                          durable |-> IF OpenAfter(r, f) = {} THEN Len(r.records) + 1 ELSE r.durable]
    BY <1>0, <1>1 DEF ReadStep
  <1>3. (IF OpenAfter(r, f) = {} THEN Len(r.records) + 1 ELSE r.durable) = d
    <2> HIDE DEF r
    <2> QED
      BY <1>0, <1>1
  <1> QED
    BY <1>0, <1>1, <1>2, <1>3 DEF ReadAt

\* A begin frame opens a batch.
LEMMA BeginTurn ==
    ASSUME NEW file, NEW sz, NEW e, NEW i, NEW a, Turn(file, sz, e, i, a), file[i + 1].kind = "begin"
    PROVE  TurnOk(file, sz, e, i, a, e, a)
  <1> DEFINE f == file[i + 1]
  <1>1. /\ i \in Nat /\ e \in Nat /\ e <= i /\ f \in Frame
        /\ Append(SubSeq(file, 1, i), f) = SubSeq(file, 1, i + 1) /\ Len(SubSeq(file, 1, i)) = i
    BY TurnFacts
  <1>2. /\ ReadAt(file, e, i).open = {} /\ f.seq # 0 /\ f.count >= 2
    BY DEF Turn, Accepts
  <1>3. e = i
    BY <1>2 DEF ReadAt, ReadBatch
  <1>4. StateOk(file, sz, e, i + 1, a)
    BY <1>1, <1>2, <1>3 DEF Turn, StateOk, BatchOpen, Frame
  <1>5. ReadStep(ReadAt(file, e, i), f) = ReadAt(file, e, i + 1)
    <2>1. OpenAfter(ReadAt(file, e, i), f) = {[first |-> f.seq, count |-> f.count, read |-> 0]}
      BY DEF OpenAfter
    <2>2. ReadBatch(file, e, i + 1) = {[first |-> f.seq, count |-> f.count, read |-> 0]}
      BY <1>1, <1>3 DEF ReadBatch
    <2>3. Takes(file, e, i, e)
      BY <2>1, <2>2 DEF Takes
    <2> QED
      BY <2>3, ReadTakes
  <1>6. ReplayStep(ReplayAt(file, e, i, a), f) = ReplayAt(file, e, i + 1, a)
    <2>1. SubSeq(file, e + 2, i + 1) = <<>>
      BY <1>1, <1>3, SubSeqEmpty
    <2>2. ReplayBatch(file, e, i + 1) = {[first |-> f.seq, count |-> f.count, ops |-> <<>>]}
      <3>1. e # i + 1 /\ file[e + 1] = f
        BY <1>1, <1>3
      <3> QED
        BY <2>1, <3>1 DEF ReplayBatch
    <2>3. ReplayAt(file, e, i, a) = [stop |-> FALSE, open |-> {}, applied |-> a]
      BY <1>3 DEF ReplayAt, ReplayBatch
    <2>4. ReplayStep([stop |-> FALSE, open |-> {}, applied |-> a], f)
             = [stop |-> FALSE, open |-> {[first |-> f.seq, count |-> f.count, ops |-> <<>>]}, applied |-> a]
      <3>1. ~(f.seq = 0 \/ f.count < 2)
        BY <1>1, <1>2 DEF Frame
      <3> QED
        BY <3>1 DEF ReplayStep
    <2> QED
      BY <2>2, <2>3, <2>4 DEF ReplayAt
  <1> QED
    BY <1>4, <1>5, <1>6 DEF TurnOk

\* An operation inside a batch is put aside.
LEMMA BatchTurn ==
    ASSUME NEW file, NEW sz, NEW e, NEW i, NEW a, Turn(file, sz, e, i, a), file[i + 1].kind = "op", e # i
    PROVE  TurnOk(file, sz, e, i, a, e, a)
  <1> DEFINE f == file[i + 1]
             c == file[e + 1]
  <1>1. /\ i \in Nat /\ e \in Nat /\ e < i /\ f \in Frame /\ c \in Frame
        /\ Append(SubSeq(file, 1, i), f) = SubSeq(file, 1, i + 1) /\ Len(SubSeq(file, 1, i)) = i
    BY TurnFacts
  <1>2. ReadAt(file, e, i).open = {[first |-> c.seq, count |-> c.count, read |-> i - e - 1]}
    BY DEF ReadAt, ReadBatch
  <1>3. i - e - 1 < c.count /\ f.seq = c.seq + (i - e - 1)
    BY <1>2 DEF Turn, Accepts
  <1>4. StateOk(file, sz, e, i + 1, a)
    <2>1. BatchOpen(file, e, i)
      BY DEF Turn, StateOk
    <2>2. BatchOpen(file, e, i + 1)
      <3>1. ASSUME NEW j \in (e + 2)..(i + 1)
            PROVE  file[j].kind = "op" /\ file[j].seq = c.seq + (j - e - 2)
        <4>1. CASE j = i + 1
          BY <1>1, <1>3, <4>1 DEF Frame
        <4>2. CASE j # i + 1
          BY <1>1, <2>1, <4>2 DEF BatchOpen
        <4> QED
          BY <4>1, <4>2
      <3>2. (i + 1) - e - 1 <= c.count
        BY <1>1, <1>3 DEF Frame
      <3> QED
        BY <1>1, <2>1, <3>1, <3>2 DEF BatchOpen
    <2> QED
      BY <1>1, <2>2 DEF Turn, StateOk
  <1>5. ReadStep(ReadAt(file, e, i), f) = ReadAt(file, e, i + 1)
    <2>1. OpenAfter(ReadAt(file, e, i), f) = {[first |-> c.seq, count |-> c.count, read |-> i - e]}
      BY <1>1, <1>2 DEF OpenAfter
    <2>2. ReadBatch(file, e, i + 1) = {[first |-> c.seq, count |-> c.count, read |-> i - e]}
      BY <1>1 DEF ReadBatch
    <2>3. Takes(file, e, i, e)
      BY <2>1, <2>2 DEF Takes
    <2> QED
      BY <2>3, ReadTakes
  <1>6. ReplayStep(ReplayAt(file, e, i, a), f) = ReplayAt(file, e, i + 1, a)
    <2> DEFINE ops == SubSeq(file, e + 2, i)
               x   == c.seq
               y   == c.count
               b   == [first |-> x, count |-> y, ops |-> ops]
    <2>1. Len(ops) = i - e - 1
      <3>1. \A j \in (e + 2)..i : file[j] \in Frame
        BY <1>1, ElementOfSeq DEF Turn, Framed
      <3> QED
        BY <1>1, <3>1, SubSeqProperties
    <2>2. Append(ops, f) = SubSeq(file, e + 2, i + 1)
      BY <1>1, PartGrows DEF Turn, Framed
    <2>3. ReplayAt(file, e, i, a) = [stop |-> FALSE, open |-> {b}, applied |-> a]
      BY DEF ReplayAt, ReplayBatch
    <2>4. ~(Len(b.ops) >= b.count)
      <3> HIDE DEF ops
      <3> QED
        BY <1>1, <1>3, <2>1 DEF Frame
    <2>5. [b EXCEPT !.ops = Append(@, f)] = [first |-> x, count |-> y, ops |-> Append(ops, f)]
      <3> HIDE DEF x, y, ops, f
      <3> QED
        OBVIOUS
    <2>6. ReplayStep([stop |-> FALSE, open |-> {b}, applied |-> a], f)
             = [stop |-> FALSE, open |-> {[b EXCEPT !.ops = Append(@, f)]}, applied |-> a]
      <3> HIDE DEF b
      <3> QED
        BY <2>4 DEF ReplayStep
    <2>7. ReplayBatch(file, e, i + 1) = {[first |-> c.seq, count |-> c.count, ops |-> SubSeq(file, e + 2, i + 1)]}
      BY <1>1 DEF ReplayBatch
    <2> HIDE DEF b, ops
    <2> QED
      BY <2>2, <2>3, <2>5, <2>6, <2>7 DEF ReplayAt
  <1> QED
    BY <1>4, <1>5, <1>6 DEF TurnOk

\* The operations ops of attempt w, which the frames behind e up to d complete.
Completes(file, sz, e, d, w, ops) ==
    /\ e \in Nat /\ d \in Nat /\ e < d
    /\ ops \in Seq(Frame) /\ Len(ops) = sz[w] /\ sz[w] \in Nat /\ sz[w] > 0
    /\ \A k \in 1..Len(ops) : ops[k].w = w
    /\ \A j \in 1..e : file[j].w < w
    /\ \A j \in (e + 1)..d : file[j].w = w
    /\ Seals(file[d], sz)
    /\ \A j \in 1..d : file[j].w \in Nat /\ sz[file[j].w] \in Nat

\* They come behind all that was applied before.
LEMMA BlockApplied ==
    ASSUME NEW file, NEW sz, NEW e, NEW d, NEW w \in Nat, NEW a, NEW ops,
           Applied(file, sz, e, a), Completes(file, sz, e, d, w, ops)
    PROVE  Applied(file, sz, d, a \o ops)
  <1> DEFINE c == a \o ops
             n == Len(a)
             m == sz[w]
  <1>1. a \in Seq(Frame) /\ n \in Nat /\ \A k \in 1..n : a[k] \in Frame /\ a[k].w \in Nat
    <2>1. a \in Seq(Frame)
      BY DEF Applied
    <2> QED
      <3>1. n \in Nat
        BY <2>1, LenProperties
      <3>2. \A k \in 1..n : a[k] \in Frame
        BY <2>1, ElementOfSeq
      <3>3. \A k \in 1..n : a[k].w \in Nat
        BY <3>2 DEF Frame
      <3> QED
        BY <2>1, <3>1, <3>2, <3>3
  <1>2. ops \in Seq(Frame) /\ Len(ops) = m /\ m \in Nat /\ m > 0 /\ \A k \in 1..m : ops[k].w = w
    BY DEF Completes
  <1>3. /\ c \in Seq(Frame) /\ Len(c) = n + m
        /\ \A k \in 1..n : c[k] = a[k]
        /\ \A k \in (n + 1)..(n + m) : c[k] = ops[k - n]
    <2>1. /\ c \in Seq(Frame) /\ Len(c) = n + m
          /\ \A k \in 1..(n + m) : c[k] = IF k <= n THEN a[k] ELSE ops[k - n]
      BY <1>1, <1>2, ConcatProperties
    <2>2. ASSUME NEW k \in 1..n PROVE c[k] = a[k]
      <3>1. k \in 1..(n + m) /\ k <= n
        BY <1>1, <1>2
      <3> QED
        BY <2>1, <3>1
    <2>3. ASSUME NEW k \in (n + 1)..(n + m) PROVE c[k] = ops[k - n]
      <3>1. k \in 1..(n + m) /\ ~(k <= n)
        BY <1>1, <1>2
      <3> QED
        BY <2>1, <3>1
    <2> HIDE DEF c
    <2> QED
      BY <2>1, <2>2, <2>3
  <1>4. \A k \in (n + 1)..(n + m) : c[k].w = w
    BY <1>1, <1>2, <1>3
  <1>5. \A k \in 1..n : c[k].w < w
    <2> SUFFICES ASSUME NEW k \in 1..n PROVE c[k].w < w
      OBVIOUS
    <2>1. PICK j \in 1..e : a[k].w = file[j].w
      BY DEF Applied
    <2> QED
      BY <1>3, <2>1 DEF Completes
  <1> HIDE DEF c
  <1>6. e \in Nat /\ d \in Nat /\ e < d /\ Seals(file[d], sz) /\ file[d].w = w
    BY DEF Completes
  <1>7. ASSUME NEW k \in 1..Len(c) PROVE \E j \in 1..d : c[k].w = file[j].w /\ Seals(file[j], sz)
    <2>1. CASE k \in 1..n
      <3>1. PICK j \in 1..e : a[k].w = file[j].w /\ Seals(file[j], sz)
        BY <2>1 DEF Applied
      <3> QED
        BY <1>3, <1>6, <2>1, <3>1
    <2>2. CASE k \in (n + 1)..(n + m)
      BY <1>4, <1>6, <2>2
    <2> QED
      BY <1>1, <1>2, <1>3, <2>1, <2>2
  <1>8. ASSUME NEW j \in 1..d, Seals(file[j], sz) PROVE \E k \in 1..Len(c) : c[k].w = file[j].w
    <2>1. CASE j \in 1..e
      <3>1. PICK k \in 1..n : a[k].w = file[j].w
        BY <1>8, <2>1 DEF Applied
      <3>2. k \in 1..Len(c) /\ c[k] = a[k]
        BY <1>1, <1>2, <1>3
      <3> QED
        BY <3>1, <3>2
    <2>2. CASE j \in (e + 1)..d
      <3>1. file[j].w = w
        BY <2>2 DEF Completes
      <3>2. n + 1 \in 1..Len(c) /\ c[n + 1].w = w
        BY <1>1, <1>2, <1>3, <1>4
      <3> QED
        BY <3>1, <3>2
    <2> QED
      BY <1>6, <2>1, <2>2
  <1>9. ASSUME NEW k \in 1..Len(c) PROVE \E b \in Nat : Block(c, sz, k, b)
    <2>1. CASE k \in 1..n
      <3>1. PICK b \in Nat : Block(a, sz, k, b)
        BY <2>1 DEF Applied
      <3> DEFINE s == sz[a[k].w]
      <3>2. s \in Int
        <4>1. PICK l \in 1..e : a[k].w = file[l].w
          BY <2>1 DEF Applied
        <4> QED
          BY <1>6, <4>1 DEF Completes
      <3>3. b < k /\ k <= b + s /\ b + s <= n /\ c[k] = a[k]
        BY <1>3, <2>1, <3>1 DEF Block
      <3>4. ASSUME NEW j \in 1..Len(c)
            PROVE  c[j].w = c[k].w <=> (b < j /\ j <= b + s)
        <4>1. CASE j \in 1..n
          <5>1. a[j].w = a[k].w <=> (b < j /\ j <= b + s)
            BY <3>1, <4>1 DEF Block
          <5> QED
            BY <1>3, <2>1, <4>1, <5>1
        <4>2. CASE j \in (n + 1)..(n + m)
          <5>1. c[j].w = w /\ c[k].w < w /\ w \in Nat /\ c[k].w \in Nat
            BY <1>1, <1>3, <1>4, <1>5, <2>1, <4>2
          <5>2. ~(j <= b + s)
            BY <1>1, <3>3, <3>2, <4>2
          <5> QED
            BY <5>1, <5>2
        <4> QED
          BY <1>1, <1>2, <1>3, <4>1, <4>2
      <3>5. b + s <= Len(c)
        <4>1. Len(c) = n + m /\ n \in Nat /\ m \in Nat /\ b + s <= n
          BY <1>1, <1>2, <1>3, <3>3
        <4> HIDE DEF s, c, n, m
        <4> QED
          BY <3>2, <4>1
      <3>6. Block(c, sz, k, b)
        BY <3>3, <3>4, <3>5 DEF Block
      <3> QED
        BY <3>6
    <2>2. CASE k \in (n + 1)..(n + m)
      <3>1. c[k].w = w
        BY <1>4, <2>2
      <3>2. ASSUME NEW j \in 1..Len(c)
            PROVE  c[j].w = w <=> (n < j /\ j <= n + m)
        <4>1. CASE j \in 1..n
          <5>1. c[j].w < w /\ c[j].w \in Nat
            BY <1>1, <1>3, <1>5, <4>1
          <5> QED
            BY <1>1, <4>1, <5>1
        <4>2. CASE j \in (n + 1)..(n + m)
          BY <1>1, <1>2, <1>4, <4>2
        <4> QED
          BY <1>1, <1>2, <1>3, <4>1, <4>2
      <3>3. Block(c, sz, k, n)
        BY <1>1, <1>2, <1>3, <2>2, <3>1, <3>2 DEF Block
      <3> QED
        BY <1>1, <3>3
    <2> QED
      BY <1>1, <1>2, <1>3, <2>1, <2>2
  <1>10. ASSUME NEW j \in 1..Len(c), NEW k \in 1..Len(c), j <= k PROVE c[j].w <= c[k].w
    <2>1. CASE k \in 1..n
      <3>1. j \in 1..n
        BY <1>1, <1>10, <2>1
      <3>2. a[j].w <= a[k].w
        BY <1>10, <2>1, <3>1 DEF Applied
      <3> QED
        BY <1>3, <2>1, <3>1, <3>2
    <2>2. CASE k \in (n + 1)..(n + m)
      <3>1. c[k].w = w
        BY <1>4, <2>2
      <3>2. CASE j \in 1..n
        BY <1>1, <1>3, <1>5, <3>1, <3>2
      <3>3. CASE j \in (n + 1)..(n + m)
        BY <1>4, <3>1, <3>3
      <3> QED
        BY <1>1, <1>2, <1>3, <3>2, <3>3
    <2> QED
      BY <1>1, <1>2, <1>3, <2>1, <2>2
  <1>11. c \in Seq(Frame)
    BY <1>3
  <1>12. Applied(file, sz, d, c)
    BY <1>7, <1>8, <1>9, <1>10, <1>11 DEF Applied
  <1> QED
    BY <1>12 DEF c

\* An operation outside a batch is an attempt of its own and is applied.
LEMMA SingleTurn ==
    ASSUME NEW file, NEW sz, NEW i, NEW a, Turn(file, sz, i, i, a), file[i + 1].kind = "op"
    PROVE  TurnOk(file, sz, i, i, a, i + 1, Append(a, file[i + 1]))
  <1> DEFINE f == file[i + 1]
             w == f.w
  <1>1. i \in Nat /\ i + 1 \in 1..Len(file) /\ f \in Frame /\ w \in Nat
    BY TurnFacts DEF Frame
  <1>2. Framed(file, sz) /\ (i > 0 => Seals(file[i], sz)) /\ Applied(file, sz, i, a) /\ a \in Seq(Frame)
    BY DEF Turn, StateOk, Applied
  <1>3. InPlace(file, i + 1, sz[w])
    BY <1>1, <1>2 DEF Framed
  <1>4. sz[w] = 1
    <2> SUFFICES ASSUME sz[w] # 1 PROVE FALSE
      OBVIOUS
    <2>1. i + 1 > 1 /\ file[i + 1 - 1].w = w /\ file[i + 1 - 1].kind \in {"begin", "op"}
      BY <1>1, <1>3 DEF InPlace
    <2>2. i > 0 /\ file[i].w = w /\ file[i].kind \in {"begin", "op"}
      <3>1. i + 1 - 1 = i
        BY <1>1
      <3> QED
        BY <1>1, <2>1, <3>1
    <2> QED
      BY <1>2, <2>2 DEF Seals
  <1>5. \A j \in 1..i : file[j].w < w
    <2>1. IsFirst(file, i + 1)
      BY <1>3, <1>4 DEF InPlace
    <2>2. i + 1 - 1 = i
      BY <1>1
    <2> QED
      BY <1>1, <2>1, <2>2 DEF IsFirst
  <1>6. Seals(f, sz)
    BY <1>4 DEF Seals
  <1>7. \A j \in 1..(i + 1) : file[j].w \in Nat /\ sz[file[j].w] \in Nat
    <2> SUFFICES ASSUME NEW j \in 1..(i + 1) PROVE file[j].w \in Nat /\ sz[file[j].w] \in Nat
      OBVIOUS
    <2>1. j \in 1..Len(file)
      BY <1>1, <1>2, LenProperties DEF Framed
    <2>2. file[j].w \in 1..Len(sz) /\ sz \in Seq(Nat)
      BY <1>2, <2>1 DEF Framed
    <2> QED
      BY <2>2, ElementOfSeq, LenProperties
  <1>8. Completes(file, sz, i, i + 1, w, <<f>>)
    <2>1. <<f>> \in Seq(Frame) /\ Len(<<f>>) = 1 /\ <<f>>[1] = f
      BY <1>1
    <2>2. \A k \in 1..Len(<<f>>) : <<f>>[k].w = w
      BY <2>1
    <2>3. \A j \in (i + 1)..(i + 1) : file[j].w = w
      BY <1>1
    <2> HIDE DEF w, f
    <2> QED
      BY <1>1, <1>4, <1>5, <1>6, <1>7, <2>1, <2>2, <2>3 DEF Completes, f
  <1>9. Applied(file, sz, i + 1, Append(a, f))
    <2>1. Append(a, f) = a \o <<f>>
      BY <1>1, <1>2, AppendIsConcat
    <2> QED
      BY <1>1, <1>2, <1>8, <2>1, BlockApplied
  <1>10. StateOk(file, sz, i + 1, i + 1, Append(a, f))
    BY <1>1, <1>6, <1>9 DEF StateOk, BatchOpen
  <1>11. ReadStep(ReadAt(file, i, i), f) = ReadAt(file, i + 1, i + 1)
    <2>1. OpenAfter(ReadAt(file, i, i), f) = {}
      BY DEF OpenAfter, ReadAt, ReadBatch
    <2>2. Takes(file, i, i, i + 1)
      BY <2>1 DEF Takes, ReadBatch
    <2> QED
      BY <2>2, ReadTakes
  <1>12. ReplayStep(ReplayAt(file, i, i, a), f) = ReplayAt(file, i + 1, i + 1, Append(a, f))
    <2>1. ReplayAt(file, i, i, a) = [stop |-> FALSE, open |-> {}, applied |-> a]
      BY DEF ReplayAt, ReplayBatch
    <2>2. ReplayAt(file, i + 1, i + 1, Append(a, f)) = [stop |-> FALSE, open |-> {}, applied |-> Append(a, f)]
      BY DEF ReplayAt, ReplayBatch
    <2>3. ReplayStep([stop |-> FALSE, open |-> {}, applied |-> a], f)
             = [stop |-> FALSE, open |-> {}, applied |-> Append(a, f)]
      BY DEF ReplayStep
    <2> QED
      BY <2>1, <2>2, <2>3
  <1> QED
    BY <1>10, <1>11, <1>12 DEF TurnOk

\* The commit frame of a batch applies what was put aside, all of its own attempt.
LEMMA CommitTurn ==
    ASSUME NEW file, NEW sz, NEW e, NEW i, NEW a, Turn(file, sz, e, i, a), file[i + 1].kind = "commit"
    PROVE  TurnOk(file, sz, e, i, a, i + 1, a \o SubSeq(file, e + 2, i))
  <1> DEFINE f == file[i + 1]
             c == file[e + 1]
             w == f.w
             ops == SubSeq(file, e + 2, i)
  <1>1. i \in Nat /\ i + 1 \in 1..Len(file) /\ f \in Frame /\ w \in Nat /\ e \in Nat /\ e <= i
    BY TurnFacts DEF Frame
  <1>2. /\ Framed(file, sz) /\ BatchOpen(file, e, i) /\ Applied(file, sz, e, a) /\ a \in Seq(Frame)
    BY DEF Turn, StateOk, Applied
  <1>3. e < i /\ c.seq = f.seq /\ c.count = f.count /\ i - e - 1 = f.count
    <2>1. \E b \in ReadBatch(file, e, i) : b.first = f.seq /\ b.count = f.count /\ b.read = f.count
      BY DEF Turn, Accepts, ReadAt
    <2> QED
      BY <1>1, <2>1 DEF ReadBatch
  <1>4. InPlace(file, i + 1, sz[w])
    BY <1>1, <1>2 DEF Framed
  <1>5. sz[w] >= 2 /\ sz[w] = i - e - 1 /\ sz[w] \in Nat
    BY <1>1, <1>3, <1>4 DEF InPlace, Frame
  <1>6. c.kind = "begin" /\ c.w = w /\ \A j \in (e + 2)..i : file[j].kind = "op" /\ file[j].w = w
    <2>1. i + 1 - sz[w] - 1 = e + 1 /\ i + 1 - sz[w] = e + 2 /\ i + 1 - 1 = i
      BY <1>1, <1>5
    <2>2. /\ file[i + 1 - sz[w] - 1].kind = "begin" /\ file[i + 1 - sz[w] - 1].w = w
          /\ \A j \in (i + 1 - sz[w])..(i + 1 - 1) : file[j].kind = "op" /\ file[j].w = w
      BY <1>1, <1>4, <1>5 DEF InPlace
    <2> QED
      BY <2>1, <2>2
  <1>7. \A j \in 1..e : file[j].w < w
    <2>1. e + 1 \in 1..Len(file)
      BY <1>1, <1>3, LenProperties, <1>2 DEF Framed
    <2>2. InPlace(file, e + 1, sz[c.w])
      BY <1>2, <2>1 DEF Framed
    <2>3. IsFirst(file, e + 1)
      BY <1>6, <2>2 DEF InPlace
    <2>4. e + 1 - 1 = e
      BY <1>1
    <2> QED
      BY <1>1, <1>6, <2>3, <2>4 DEF IsFirst
  <1>8. Seals(f, sz)
    BY DEF Seals
  <1>9. \A j \in 1..(i + 1) : file[j] \in Frame /\ file[j].w \in Nat /\ sz[file[j].w] \in Nat
    <2> SUFFICES ASSUME NEW j \in 1..(i + 1)
                 PROVE  file[j] \in Frame /\ file[j].w \in Nat /\ sz[file[j].w] \in Nat
      OBVIOUS
    <2>1. j \in 1..Len(file)
      BY <1>1, <1>2, LenProperties DEF Framed
    <2>2. file[j].w \in 1..Len(sz) /\ sz \in Seq(Nat) /\ file \in Seq(Frame)
      BY <1>2, <2>1 DEF Framed
    <2> QED
      BY <2>1, <2>2, ElementOfSeq, LenProperties
  <1>10. /\ ops \in Seq(Frame) /\ Len(ops) = i - e - 1
         /\ \A k \in 1..(i - e - 1) : ops[k] = file[e + 1 + k]
    <2>1. \A j \in (e + 2)..i : file[j] \in Frame
      BY <1>1, <1>9
    <2>2. /\ ops \in Seq(Frame) /\ Len(ops) = IF e + 2 <= i THEN i - (e + 2) + 1 ELSE 0
          /\ \A k \in 1..(i - (e + 2) + 1) : ops[k] = file[e + 2 + k - 1]
      BY <1>1, <2>1, SubSeqProperties
    <2>3. Len(ops) = i - e - 1
      BY <1>1, <1>5, <2>2
    <2>4. ASSUME NEW k \in 1..(i - e - 1) PROVE ops[k] = file[e + 1 + k]
      <3>1. k \in 1..(i - (e + 2) + 1) /\ e + 2 + k - 1 = e + 1 + k
        BY <1>1
      <3> QED
        BY <2>2, <3>1
    <2> QED
      BY <2>2, <2>3, <2>4
  <1>11. Completes(file, sz, e, i + 1, w, ops)
    <2>1. \A k \in 1..Len(ops) : ops[k].w = w
      <3> SUFFICES ASSUME NEW k \in 1..(i - e - 1) PROVE ops[k].w = w
        BY <1>10
      <3>1. e + 1 + k \in (e + 2)..i
        BY <1>1
      <3> QED
        BY <1>6, <1>10, <3>1
    <2>2. \A j \in (e + 1)..(i + 1) : file[j].w = w
      <3> SUFFICES ASSUME NEW j \in (e + 1)..(i + 1) PROVE file[j].w = w
        OBVIOUS
      <3>1. j = e + 1 \/ j = i + 1 \/ j \in (e + 2)..i
        BY <1>1
      <3> QED
        BY <1>6, <3>1
    <2> HIDE DEF w, f, ops
    <2> QED
      BY <1>1, <1>5, <1>7, <1>8, <1>9, <1>10, <2>1, <2>2 DEF Completes, f
  <1>12. Applied(file, sz, i + 1, a \o ops)
    BY <1>1, <1>2, <1>11, BlockApplied
  <1>13. StateOk(file, sz, i + 1, i + 1, a \o ops)
    BY <1>1, <1>8, <1>12 DEF StateOk, BatchOpen
  <1>14. ReadStep(ReadAt(file, e, i), f) = ReadAt(file, i + 1, i + 1)
    <2>1. OpenAfter(ReadAt(file, e, i), f) = {}
      BY DEF OpenAfter
    <2>2. Takes(file, e, i, i + 1)
      BY <2>1 DEF Takes, ReadBatch
    <2> QED
      BY <2>2, ReadTakes
  <1>15. ReplayStep(ReplayAt(file, e, i, a), f) = ReplayAt(file, i + 1, i + 1, a \o ops)
    <2> DEFINE b == [first |-> c.seq, count |-> c.count, ops |-> ops]
    <2>1. ReplayAt(file, e, i, a) = [stop |-> FALSE, open |-> {b}, applied |-> a]
      <3>1. e # i
        BY <1>1, <1>3
      <3> QED
        BY <3>1 DEF ReplayAt, ReplayBatch
    <2>2. ReplayAt(file, i + 1, i + 1, a \o ops) = [stop |-> FALSE, open |-> {}, applied |-> a \o ops]
      BY DEF ReplayAt, ReplayBatch
    <2>3. MatchesCommit(b, f) /\ b.ops = ops
      <3>1. ASSUME NEW k \in 1..Len(ops) PROVE ops[k].seq = c.seq + k - 1
        <4>1. k \in 1..(i - e - 1) /\ e + 1 + k \in (e + 2)..i
          BY <1>1, <1>10
        <4>2. file[e + 1 + k].seq = c.seq + ((e + 1 + k) - e - 2)
          BY <1>2, <1>3, <4>1 DEF BatchOpen
        <4>3. c.seq \in Nat
          BY <1>3, <1>1 DEF Frame
        <4>4. ops[k] = file[e + 1 + k]
          BY <1>10, <4>1
        <4>5. c.seq + ((e + 1 + k) - e - 2) = c.seq + k - 1
          BY <1>1, <4>1, <4>3
        <4> QED
          BY <4>2, <4>4, <4>5
      <3> QED
        BY <1>3, <1>10, <3>1 DEF MatchesCommit
    <2>4. (CHOOSE x \in {b} : MatchesCommit(x, f)) = b
      <3> HIDE DEF b, f
      <3> QED
        BY <2>3
    <2>5. ReplayStep([stop |-> FALSE, open |-> {b}, applied |-> a], f)
             = [stop |-> FALSE, open |-> {}, applied |-> a \o ops]
      <3> DEFINE r == [stop |-> FALSE, open |-> {b}, applied |-> a]
      <3>1. r.stop = FALSE /\ r.open = {b} /\ r.applied = a
        OBVIOUS
      <3>2. \E x \in r.open : MatchesCommit(x, f)
        BY <2>3, <3>1
      <3>3. ReplayStep(r, f) = [r EXCEPT !.open = {},
                 !.applied = @ \o (CHOOSE x \in r.open : MatchesCommit(x, f)).ops]
        <4> HIDE DEF r
        <4> QED
          BY <3>1, <3>2 DEF ReplayStep
      <3> QED
        BY <2>3, <2>4, <3>1, <3>3
    <2> HIDE DEF b
    <2> QED
      BY <2>1, <2>2, <2>5
  <1> QED
    BY <1>13, <1>14, <1>15 DEF TurnOk

\* Every frame read_path takes keeps both loops in closed form.
LEMMA AnyTurn ==
    ASSUME NEW file, NEW sz, NEW e, NEW i, NEW a, Turn(file, sz, e, i, a)
    PROVE  \E d, b : TurnOk(file, sz, e, i, a, d, b)
  <1>1. file[i + 1].kind \in {"op", "begin", "commit"}
    BY DEF Turn, Accepts
  <1>2. CASE file[i + 1].kind = "begin"
    BY <1>2, BeginTurn
  <1>3. CASE file[i + 1].kind = "commit"
    BY <1>3, CommitTurn
  <1>4. CASE file[i + 1].kind = "op" /\ e # i
    BY <1>4, BatchTurn
  <1>5. CASE file[i + 1].kind = "op" /\ e = i
    BY <1>5, SingleTurn
  <1> QED
    BY <1>1, <1>2, <1>3, <1>4, <1>5

-----------------------------------------------------------------------------
(* What the loops compute *)

Cut(file, i) == ReadLoop(file)[i].durable
Ops(file, i) == ReplayLoop(file)[i].applied

\* After i frames both loops are in closed form ...
InForm(file, sz, i) ==
    /\ StateOk(file, sz, Cut(file, i), i, Ops(file, i))
    /\ ReadLoop(file)[i] = ReadAt(file, Cut(file, i), i)
    /\ ReplayLoop(file)[i] = ReplayAt(file, Cut(file, i), i, Ops(file, i))

\* ... or read_path has stopped behind frame k.
StoppedAt(file, e, k) ==
    [stop |-> TRUE, records |-> SubSeq(file, 1, k), open |-> ReadBatch(file, e, k), durable |-> e]

Reached(file, sz, i, k) ==
    /\ k \in 0..i /\ InForm(file, sz, k)
    /\ \/ k = i /\ ReadLoop(file)[i] = ReadAt(file, Cut(file, k), k)
       \/ k # i /\ ReadLoop(file)[i] = StoppedAt(file, Cut(file, k), k)

\* Setting stop changes no other field.
LEMMA SetStop ==
    ASSUME NEW s, NEW p, NEW b, NEW e, NEW r, NEW q,
           r = [stop |-> s, records |-> p, open |-> b, durable |-> e], q = [r EXCEPT !.stop = TRUE]
    PROVE  q = [stop |-> TRUE, records |-> p, open |-> b, durable |-> e]
  <1>1. DOMAIN q = {"stop", "records", "open", "durable"}
    BY SMT
  <1>2. q.stop = TRUE /\ q.records = p /\ q.open = b /\ q.durable = e
    BY SMT
  <1>3. q = [x \in {"stop", "records", "open", "durable"} |-> q[x]]
    BY <1>1
  <1> QED
    BY <1>1, <1>2

\* A frame that is refused stops read_path where it is.
LEMMA ReadStops ==
    ASSUME NEW file, NEW e, NEW k, NEW r, r = ReadAt(file, e, k) \/ r = StoppedAt(file, e, k)
    PROVE  [r EXCEPT !.stop = TRUE] = StoppedAt(file, e, k)
  <1> DEFINE p == SubSeq(file, 1, k)
             b == ReadBatch(file, e, k)
             q == [r EXCEPT !.stop = TRUE]
  <1>1. StoppedAt(file, e, k) = [stop |-> TRUE, records |-> p, open |-> b, durable |-> e]
    BY DEF StoppedAt
  <1>2. \E s : r = [stop |-> s, records |-> p, open |-> b, durable |-> e]
    BY DEF ReadAt, StoppedAt
  <1>3. PICK s : r = [stop |-> s, records |-> p, open |-> b, durable |-> e]
    BY <1>2
  <1>4. q = [stop |-> TRUE, records |-> p, open |-> b, durable |-> e]
    <2> DEFINE v == q
    <2>1. v = [r EXCEPT !.stop = TRUE]
      OBVIOUS
    <2> HIDE DEF v, p, b
    <2>2. v = [stop |-> TRUE, records |-> p, open |-> b, durable |-> e]
      BY <1>3, <2>1, SetStop
    <2> QED
      BY <2>2 DEF v
  <1> QED
    BY <1>1, <1>4

\* Both loops start in closed form.
LEMMA StartReached ==
    ASSUME NEW file, NEW sz, Framed(file, sz)
    PROVE  Reached(file, sz, 0, 0)
  <1>0. file \in Seq(Frame) /\ Len(file) \in Nat
    BY LenProperties DEF Framed
  <1>1. ReadLoop(file)[0] = ReadStart /\ ReplayLoop(file)[0] = ReplayStart
    BY <1>0, ReadLoopTurns, ReplayLoopTurns
  <1>2. Cut(file, 0) = 0 /\ Ops(file, 0) = <<>>
    BY <1>1 DEF Cut, Ops, ReadStart, ReplayStart
  <1>3. SubSeq(file, 1, 0) = <<>>
    BY SubSeqEmpty
  <1>4. Applied(file, sz, 0, <<>>)
    <2>1. <<>> \in Seq(Frame) /\ Len(<<>>) = 0
      BY EmptySeq
    <2> QED
      BY <2>1 DEF Applied
  <1>5. StateOk(file, sz, 0, 0, <<>>)
    BY <1>4 DEF StateOk, BatchOpen
  <1>6. ReadAt(file, 0, 0) = ReadStart /\ ReplayAt(file, 0, 0, <<>>) = ReplayStart
    BY <1>3 DEF ReadAt, ReplayAt, ReadStart, ReplayStart, ReadBatch, ReplayBatch
  <1>7. InForm(file, sz, 0)
    BY <1>1, <1>2, <1>5, <1>6 DEF InForm
  <1> QED
    BY <1>1, <1>2, <1>6, <1>7 DEF Reached

\* A turn leaves read_path in closed form or stopped.
LEMMA ReachedTurn ==
    ASSUME NEW file, NEW sz, Framed(file, sz), NEW i \in Nat, i < Len(file), NEW k, Reached(file, sz, i, k)
    PROVE  \E l : Reached(file, sz, i + 1, l)
  <1> DEFINE r == ReadLoop(file)[i]
             f == file[i + 1]
             e == Cut(file, k)
  <1>0. file \in Seq(Frame) /\ Len(file) \in Nat /\ i + 1 \in 1..Len(file)
    BY LenProperties DEF Framed
  <1>1. k \in 0..i /\ k \in Nat /\ InForm(file, sz, k)
    BY DEF Reached
  <1>2. (k = i /\ r = ReadAt(file, e, k)) \/ (k # i /\ r = StoppedAt(file, e, k))
    BY DEF Reached
  <1>3. ReadLoop(file)[i + 1] = ReadStep(r, f) /\ ReplayLoop(file)[i + 1] = ReplayStep(ReplayLoop(file)[i], f)
    <2>1. i + 1 - 1 = i
      OBVIOUS
    <2> QED
      BY <1>0, <2>1, ReadLoopTurns, ReplayLoopTurns
  <1>4. CASE k # i \/ ~Accepts(r, f)
    <2>1. r.stop \/ ~Accepts(r, f)
      BY <1>2, <1>4 DEF StoppedAt
    <2>2. ReadStep(r, f) = [r EXCEPT !.stop = TRUE]
      BY <2>1 DEF ReadStep
    <2>3. [r EXCEPT !.stop = TRUE] = StoppedAt(file, e, k)
      <3> HIDE DEF r
      <3> QED
        BY <1>2, ReadStops
    <2>4. k # i + 1 /\ k \in 0..(i + 1)
      BY <1>1
    <2>5. Reached(file, sz, i + 1, k)
      BY <1>1, <1>3, <2>2, <2>3, <2>4 DEF Reached
    <2> QED
      BY <2>5
  <1>5. CASE k = i /\ Accepts(r, f)
    <2>1. r = ReadAt(file, e, i) /\ ReplayLoop(file)[i] = ReplayAt(file, e, i, Ops(file, i))
      BY <1>1, <1>5 DEF InForm
    <2>2. Turn(file, sz, e, i, Ops(file, i))
      BY <1>0, <1>1, <1>5, <2>1 DEF Turn, InForm
    <2>3. PICK d, b : TurnOk(file, sz, e, i, Ops(file, i), d, b)
      BY <2>2, AnyTurn
    <2>4. ReadLoop(file)[i + 1] = ReadAt(file, d, i + 1) /\ ReplayLoop(file)[i + 1] = ReplayAt(file, d, i + 1, b)
      BY <1>3, <2>1, <2>3 DEF TurnOk
    <2>5. Cut(file, i + 1) = d /\ Ops(file, i + 1) = b
      BY <2>4 DEF Cut, Ops, ReadAt, ReplayAt
    <2>6. InForm(file, sz, i + 1)
      BY <2>3, <2>4, <2>5 DEF InForm, TurnOk
    <2>7. Reached(file, sz, i + 1, i + 1)
      BY <2>4, <2>5, <2>6 DEF Reached
    <2> QED
      BY <2>7
  <1> QED
    BY <1>4, <1>5

\* Whatever the length of the file.
LEMMA AlwaysReached ==
    ASSUME NEW file, NEW sz, Framed(file, sz), NEW n \in 0..Len(file)
    PROVE  \E k : Reached(file, sz, n, k)
  <1> DEFINE S == {i \in Nat : i <= Len(file) => \E k : Reached(file, sz, i, k)}
  <1>0. Len(file) \in Nat
    BY LenProperties DEF Framed
  <1>1. 0 \in S
    BY StartReached
  <1>2. ASSUME NEW i \in S PROVE i + 1 \in S
    <2> SUFFICES ASSUME i + 1 <= Len(file) PROVE \E k : Reached(file, sz, i + 1, k)
      OBVIOUS
    <2>1. i <= Len(file) /\ i < Len(file)
      BY <1>0
    <2>2. PICK k : Reached(file, sz, i, k)
      BY <2>1
    <2> QED
      BY <2>1, <2>2, ReachedTurn
  <1>3. S = Nat
    <2> HIDE DEF S
    <2> QED
      BY <1>1, <1>2, Induction DEF S
  <1> QED
    BY <1>0, <1>3

\* What read_path returns and what the replay of it applies.
LEMMA RecoveryReads ==
    ASSUME NEW file, NEW sz, Framed(file, sz)
    PROVE  \E k : /\ Reached(file, sz, Len(file), k)
                  /\ Recovered(file) = Ops(file, k)
                  /\ ReadPath(file).durable = Cut(file, k)
                  /\ ~ReadPath(file).stop <=> k = Len(file)
  <1>0. file \in Seq(Frame) /\ Len(file) \in Nat
    BY LenProperties DEF Framed
  <1>1. PICK k : Reached(file, sz, Len(file), k)
    BY <1>0, AlwaysReached
  <1> DEFINE p == SubSeq(file, 1, k)
  <1>2. k \in Nat /\ k <= Len(file)
    BY <1>0, <1>1 DEF Reached
  <1>3. /\ ReadPath(file).records = p /\ ReadPath(file).durable = Cut(file, k)
        /\ ~ReadPath(file).stop <=> k = Len(file)
    BY <1>1 DEF Reached, ReadPath, ReadAt, StoppedAt
  <1>4. p \in Seq(Frame) /\ Len(p) = k /\ \A j \in 1..k : p[j] = file[j]
    <2>1. \A j \in 1..k : file[j] \in Frame
      BY <1>0, <1>2, ElementOfSeq
    <2>2. /\ p \in Seq(Frame) /\ Len(p) = IF 1 <= k THEN k - 1 + 1 ELSE 0
          /\ \A j \in 1..(k - 1 + 1) : p[j] = file[1 + j - 1]
      BY <1>2, <2>1, SubSeqProperties
    <2> HIDE DEF p
    <2> QED
      BY <1>2, <2>2
  <1>5. ReplayLoop(p)[k] = ReplayLoop(file)[k]
    <2> HIDE DEF p
    <2> QED
      BY <1>0, <1>2, <1>4, ReplayLoopAgrees
  <1>6. Recovered(file) = Ops(file, k)
    BY <1>3, <1>4, <1>5 DEF Recovered, Ops
  <1> QED
    BY <1>1, <1>3, <1>6

-----------------------------------------------------------------------------
(* What recovery makes of a file *)

\* As long as read_path has not stopped, both loops are in closed form.
LEMMA NotStopped ==
    ASSUME NEW file, NEW sz, Framed(file, sz), NEW i \in 0..Len(file), ~ReadLoop(file)[i].stop
    PROVE  InForm(file, sz, i)
  <1>1. PICK k : Reached(file, sz, i, k)
    BY AlwaysReached
  <1>2. k = i
    BY <1>1 DEF Reached, StoppedAt
  <1> QED
    BY <1>1, <1>2 DEF Reached

\* The durable prefix grows with the file.
LEMMA CutGrows ==
    ASSUME NEW file, NEW sz, Framed(file, sz), NEW i \in Nat, i < Len(file)
    PROVE  Cut(file, i) \in 0..i /\ Cut(file, i + 1) \in Nat /\ Cut(file, i) <= Cut(file, i + 1)
  <1> DEFINE r == ReadLoop(file)[i]
             f == file[i + 1]
  <1>0. file \in Seq(Frame) /\ Len(file) \in Nat /\ i \in 0..Len(file) /\ i + 1 \in 1..Len(file)
    BY LenProperties DEF Framed
  <1>1. PICK k : Reached(file, sz, i, k)
    BY <1>0, AlwaysReached
  <1> DEFINE e == Cut(file, k)
  <1>2. k \in 0..i /\ e \in 0..k
    BY <1>1 DEF Reached, InForm, StateOk
  <1>3. (r = ReadAt(file, e, k) \/ r = StoppedAt(file, e, k)) /\ r.durable = e /\ r.records = SubSeq(file, 1, k)
    BY <1>1 DEF Reached, ReadAt, StoppedAt
  <1>4. Len(SubSeq(file, 1, k)) = k
    <2>1. \A j \in 1..k : file[j] \in Frame
      BY <1>0, <1>2, ElementOfSeq
    <2>2. Len(SubSeq(file, 1, k)) = IF 1 <= k THEN k - 1 + 1 ELSE 0
      BY <1>2, <2>1, SubSeqProperties
    <2> QED
      BY <1>2, <2>2
  <1>5. ReadLoop(file)[i + 1] = ReadStep(r, f)
    <2>1. i + 1 - 1 = i
      OBVIOUS
    <2> QED
      BY <1>0, <2>1, ReadLoopTurns
  <1>6. ReadStep(r, f).durable = e \/ ReadStep(r, f).durable = k + 1
    <2>1. CASE r.stop \/ ~Accepts(r, f)
      <3>1. ReadStep(r, f) = [r EXCEPT !.stop = TRUE]
        BY <2>1 DEF ReadStep
      <3>2. [r EXCEPT !.stop = TRUE] = StoppedAt(file, e, k)
        <4> HIDE DEF r
        <4> QED
          BY <1>3, ReadStops
      <3> QED
        BY <3>1, <3>2 DEF StoppedAt
    <2>2. CASE ~(r.stop \/ ~Accepts(r, f))
      <3>1. ReadStep(r, f).durable = IF OpenAfter(r, f) = {} THEN Len(r.records) + 1 ELSE r.durable
        BY <2>2 DEF ReadStep
      <3> QED
        BY <1>3, <1>4, <3>1
    <2> QED
      BY <2>1, <2>2
  <1>7. Cut(file, i) = e /\ (Cut(file, i + 1) = e \/ Cut(file, i + 1) = k + 1)
    BY <1>3, <1>5, <1>6 DEF Cut
  <1> HIDE DEF e
  <1> QED
    BY <1>2, <1>7

\* It never shrinks as the file gets longer.
LEMMA CutMonotone ==
    ASSUME NEW file, NEW sz, Framed(file, sz), NEW m \in 0..Len(file), NEW n \in 0..Len(file), m <= n
    PROVE  Cut(file, m) \in 0..m /\ Cut(file, n) \in 0..n /\ Cut(file, m) <= Cut(file, n)
  <1>0. Len(file) \in Nat
    BY LenProperties DEF Framed
  <1>1. ASSUME NEW i \in 0..Len(file) PROVE Cut(file, i) \in 0..i
    <2>1. PICK k : Reached(file, sz, i, k)
      BY AlwaysReached
    <2>2. k \in 0..i /\ Cut(file, k) \in 0..k
      BY <2>1 DEF Reached, InForm, StateOk
    <2>3. Cut(file, i) = Cut(file, k)
      BY <2>1 DEF Reached, ReadAt, StoppedAt, Cut
    <2> QED
      BY <2>2, <2>3
  <1> DEFINE S == {i \in Nat : m + i <= Len(file) => Cut(file, m) <= Cut(file, m + i)}
  <1>2. 0 \in S
    BY <1>0, <1>1
  <1>3. ASSUME NEW i \in S PROVE i + 1 \in S
    <2> SUFFICES ASSUME m + (i + 1) <= Len(file) PROVE Cut(file, m) <= Cut(file, m + (i + 1))
      OBVIOUS
    <2>1. m + i \in Nat /\ m + i < Len(file) /\ m + i <= Len(file) /\ m + (i + 1) = (m + i) + 1
      BY <1>0
    <2>2. Cut(file, m) <= Cut(file, m + i)
      BY <2>1
    <2>3. Cut(file, m + i) \in Nat /\ Cut(file, (m + i) + 1) \in Nat /\ Cut(file, m + i) <= Cut(file, (m + i) + 1)
      BY <2>1, CutGrows
    <2>4. Cut(file, m) \in Nat
      BY <1>1
    <2> QED
      BY <2>1, <2>2, <2>3, <2>4
  <1>4. S = Nat
    <2> HIDE DEF S
    <2> QED
      BY <1>2, <1>3, Induction DEF S
  <1>5. n - m \in Nat /\ m + (n - m) = n
    BY <1>0
  <1>6. Cut(file, m) <= Cut(file, n)
    <2>1. n - m \in S
      BY <1>4, <1>5
    <2> QED
      BY <1>0, <1>5, <2>1
  <1> QED
    BY <1>1, <1>6

\* The attempts that the first e frames complete.
SealedUpTo(file, sz, e) == {file[j].w : j \in {x \in 1..e : Seals(file[x], sz)}}

\* Recovery applies the attempts completed in the durable prefix ...
LEMMA RecoversSealed ==
    ASSUME NEW file, NEW sz, Framed(file, sz)
    PROVE  RecoveredWrites(file) = SealedUpTo(file, sz, Cut(file, Len(file)))
  <1>1. PICK k : Reached(file, sz, Len(file), k) /\ Recovered(file) = Ops(file, k)
    BY RecoveryReads
  <1> DEFINE a == Recovered(file)
             e == Cut(file, k)
  <1>2. Cut(file, Len(file)) = e
    BY <1>1 DEF Reached, ReadAt, StoppedAt, Cut
  <1>3. Applied(file, sz, e, a)
    BY <1>1 DEF Reached, InForm, StateOk
  <1>4. a \in Seq(Frame) /\ DOMAIN a = 1..Len(a)
    BY <1>3, LenProperties DEF Applied
  <1>5. RecoveredWrites(file) = {a[x].w : x \in 1..Len(a)}
    BY <1>4 DEF RecoveredWrites, Range
  <1> HIDE DEF a, e
  <1>6. \A k1 \in 1..Len(a) : \E j \in 1..e : a[k1].w = file[j].w /\ Seals(file[j], sz)
    BY <1>3 DEF Applied
  <1>7. \A j \in 1..e : Seals(file[j], sz) => \E k1 \in 1..Len(a) : a[k1].w = file[j].w
    BY <1>3 DEF Applied
  <1>8. {a[x].w : x \in 1..Len(a)} = SealedUpTo(file, sz, e)
    <2>1. ASSUME NEW x \in 1..Len(a) PROVE a[x].w \in SealedUpTo(file, sz, e)
      BY <1>6 DEF SealedUpTo
    <2>2. ASSUME NEW v \in SealedUpTo(file, sz, e) PROVE v \in {a[x].w : x \in 1..Len(a)}
      BY <1>7 DEF SealedUpTo
    <2> QED
      BY <2>1, <2>2
  <1> QED
    BY <1>2, <1>5, <1>8

\* ... each of them completely, and in order.
LEMMA RecoversWhole ==
    ASSUME NEW file, NEW sz, Framed(file, sz)
    PROVE  LET r == Recovered(file)
           IN /\ \A k \in DOMAIN r : Cardinality({j \in DOMAIN r : r[j].w = r[k].w}) = sz[r[k].w]
              /\ \A k \in DOMAIN r : k > 1 => r[k - 1].w <= r[k].w
  <1>1. PICK l : Reached(file, sz, Len(file), l) /\ Recovered(file) = Ops(file, l)
    BY RecoveryReads
  <1> DEFINE r == Recovered(file)
  <1>2. Applied(file, sz, Cut(file, l), r)
    BY <1>1 DEF Reached, InForm, StateOk
  <1>3. r \in Seq(Frame) /\ Len(r) \in Nat /\ DOMAIN r = 1..Len(r)
    BY <1>2, LenProperties DEF Applied
  <1>4. Cut(file, l) \in Nat /\ Cut(file, l) <= Len(file) /\ Len(file) \in Nat
    <2>1. file \in Seq(Frame) /\ Len(file) \in Nat
      BY LenProperties DEF Framed
    <2> QED
      BY <1>1, <2>1 DEF Reached, InForm, StateOk
  <1> HIDE DEF r
  <1>5. ASSUME NEW k \in DOMAIN r
        PROVE  Cardinality({j \in DOMAIN r : r[j].w = r[k].w}) = sz[r[k].w]
    <2> DEFINE n == sz[r[k].w]
    <2>1. PICK b \in Nat : Block(r, sz, k, b)
      BY <1>2, <1>3, <1>5 DEF Applied
    <2>2. n \in Nat
      <3>1. PICK j \in 1..Cut(file, l) : r[k].w = file[j].w
        BY <1>2, <1>3, <1>5 DEF Applied
      <3>2. j \in 1..Len(file)
        BY <1>4
      <3>3. file[j].w \in 1..Len(sz) /\ sz \in Seq(Nat)
        BY <3>2 DEF Framed
      <3> QED
        BY <3>1, <3>3, ElementOfSeq
    <2>3. {j \in DOMAIN r : r[j].w = r[k].w} = (b + 1)..(b + n)
      <3>1. b < k /\ k <= b + n /\ b + n <= Len(r)
        BY <2>1 DEF Block
      <3>2. ASSUME NEW j \in 1..Len(r) PROVE r[j].w = r[k].w <=> (b < j /\ j <= b + n)
        BY <2>1, <3>2 DEF Block
      <3>3. ASSUME NEW j \in (b + 1)..(b + n) PROVE j \in 1..Len(r) /\ b < j /\ j <= b + n
        BY <1>3, <2>2, <3>1
      <3> HIDE DEF n
      <3> QED
        BY <1>3, <2>2, <3>2, <3>3
    <2>4. Cardinality((b + 1)..(b + n)) = n
      <3>1. b < k /\ k <= b + n /\ k \in Nat
        BY <1>3, <1>5, <2>1 DEF Block
      <3> HIDE DEF n
      <3>2. Cardinality((b + 1)..(b + n)) = IF b + 1 > b + n THEN 0 ELSE (b + n) - (b + 1) + 1
        BY <2>2, FS_Interval
      <3> QED
        BY <2>2, <3>1, <3>2
    <2> QED
      BY <2>3, <2>4
  <1>6. ASSUME NEW k \in DOMAIN r, k > 1 PROVE r[k - 1].w <= r[k].w
    <2>1. k - 1 \in 1..Len(r) /\ k \in 1..Len(r) /\ k - 1 <= k
      BY <1>3, <1>6
    <2> QED
      BY <1>2, <2>1 DEF Applied
  <1> QED
    BY <1>5, <1>6 DEF r

-----------------------------------------------------------------------------
(* Files that grow and shrink *)

\* The first p frames of a file.
LEMMA PrefixIs ==
    ASSUME NEW T, NEW file \in Seq(T), NEW p \in 0..Len(file)
    PROVE  /\ SubSeq(file, 1, p) \in Seq(T) /\ Len(SubSeq(file, 1, p)) = p
           /\ \A j \in 1..p : SubSeq(file, 1, p)[j] = file[j]
  <1> DEFINE s == SubSeq(file, 1, p)
  <1>1. Len(file) \in Nat /\ p \in Nat
    BY LenProperties
  <1>2. \A j \in 1..p : file[j] \in T
    BY <1>1, ElementOfSeq
  <1>3. /\ s \in Seq(T) /\ Len(s) = IF 1 <= p THEN p - 1 + 1 ELSE 0
        /\ \A j \in 1..(p - 1 + 1) : s[j] = file[1 + j - 1]
    BY <1>1, <1>2, SubSeqProperties
  <1> HIDE DEF s
  <1>4. s \in Seq(T) /\ Len(s) = p /\ \A j \in 1..p : s[j] = file[j]
    <2>1. p - 1 + 1 = p /\ (~(1 <= p) => p = 0)
      BY <1>1
    <2>2. ASSUME NEW j \in 1..p PROVE s[j] = file[j]
      <3>1. 1 + j - 1 = j /\ j \in 1..(p - 1 + 1)
        BY <1>1
      <3>2. s[j] = file[1 + j - 1]
        BY <1>3, <3>1
      <3> QED
        BY <3>1, <3>2
    <2> QED
      BY <1>3, <2>1, <2>2
  <1> QED
    BY <1>4 DEF s

\* Whether a frame is in place depends only on the frames before it.
LEMMA InPlaceAgrees ==
    ASSUME NEW file, NEW other, NEW i \in Nat, i > 0, \A j \in 1..i : file[j] = other[j],
           NEW n \in Nat, InPlace(file, i, n)
    PROVE  InPlace(other, i, n)
  <1>1. file[i] = other[i] /\ \A j \in 1..(i - 1) : file[j] = other[j]
    OBVIOUS
  <1>2. IsFirst(file, i) => IsFirst(other, i)
    BY <1>1 DEF IsFirst
  <1>3. i > 1 => file[i - 1] = other[i - 1]
    OBVIOUS
  <1>4. i > n + 1 => /\ file[i - n - 1] = other[i - n - 1]
                     /\ \A j \in (i - n)..(i - 1) : file[j] = other[j]
    OBVIOUS
  <1>5. file[i].kind = "commit" => InPlace(other, i, n)
    BY <1>1, <1>4 DEF InPlace
  <1>6. file[i].kind # "commit" => InPlace(other, i, n)
    BY <1>1, <1>2, <1>3 DEF InPlace
  <1> QED
    BY <1>5, <1>6

\* A prefix of a file of whole attempts is one of whole and cut attempts.
LEMMA PrefixFramed ==
    ASSUME NEW file, NEW sz, Framed(file, sz), NEW p \in 0..Len(file)
    PROVE  Framed(SubSeq(file, 1, p), sz)
  <1> DEFINE s == SubSeq(file, 1, p)
  <1>1. file \in Seq(Frame) /\ sz \in Seq(Nat) /\ Len(file) \in Nat
    BY LenProperties DEF Framed
  <1>2. s \in Seq(Frame) /\ Len(s) = p /\ \A j \in 1..p : s[j] = file[j]
    BY <1>1, PrefixIs
  <1> HIDE DEF s
  <1>3. ASSUME NEW i \in 1..Len(s) PROVE s[i].w \in 1..Len(sz) /\ InPlace(s, i, sz[s[i].w])
    <2>1. i \in 1..Len(file) /\ i \in Nat /\ i > 0 /\ s[i] = file[i] /\ \A j \in 1..i : file[j] = s[j]
      BY <1>1, <1>2
    <2>2. file[i].w \in 1..Len(sz) /\ InPlace(file, i, sz[file[i].w])
      BY <2>1 DEF Framed
    <2>3. sz[file[i].w] \in Nat
      BY <1>1, <2>2, ElementOfSeq
    <2> QED
      BY <2>1, <2>2, <2>3, InPlaceAgrees
  <1>4. ASSUME NEW i \in 1..Len(s), NEW j \in 1..Len(s), i <= j PROVE s[i].w <= s[j].w
    <2>1. i \in 1..Len(file) /\ j \in 1..Len(file) /\ s[i] = file[i] /\ s[j] = file[j]
      BY <1>1, <1>2
    <2> QED
      BY <1>4, <2>1 DEF Framed
  <1>5. Framed(s, sz)
    BY <1>1, <1>2, <1>3, <1>4 DEF Framed
  <1> QED
    BY <1>5 DEF s

\* What recovery makes of a prefix.
LEMMA PrefixRecovers ==
    ASSUME NEW file, NEW sz, Framed(file, sz), NEW p \in 0..Len(file)
    PROVE  RecoveredWrites(SubSeq(file, 1, p)) = SealedUpTo(file, sz, Cut(file, p))
  <1> DEFINE s == SubSeq(file, 1, p)
  <1>1. file \in Seq(Frame) /\ Len(file) \in Nat
    BY LenProperties DEF Framed
  <1>2. s \in Seq(Frame) /\ Len(s) = p /\ \A j \in 1..p : s[j] = file[j]
    BY <1>1, PrefixIs
  <1>3. Framed(s, sz)
    BY PrefixFramed
  <1> HIDE DEF s
  <1>4. RecoveredWrites(s) = SealedUpTo(s, sz, Cut(s, p))
    BY <1>2, <1>3, RecoversSealed
  <1>5. Cut(s, p) = Cut(file, p)
    <2>1. ReadLoop(s)[p] = ReadLoop(file)[p]
      <3>1. p \in Nat /\ p <= Len(file) /\ p <= Len(s) /\ Len(s) \in Nat /\ p \in 0..p
        BY <1>1, <1>2
      <3>2. \A i \in 0..p : ReadLoop(s)[i] = ReadLoop(file)[i]
        BY <1>1, <1>2, <3>1, ReadLoopAgrees
      <3> QED
        BY <3>1, <3>2
    <2> QED
      BY <2>1 DEF Cut
  <1>6. Cut(file, p) \in 0..p
    BY <1>1, CutMonotone
  <1>7. SealedUpTo(s, sz, Cut(file, p)) = SealedUpTo(file, sz, Cut(file, p))
    <2>1. \A j \in 1..Cut(file, p) : s[j] = file[j]
      BY <1>1, <1>2, <1>6
    <2> QED
      BY <2>1 DEF SealedUpTo
  <1> QED
    BY <1>4, <1>5, <1>7 DEF s

\* A longer prefix recovers what a shorter one does.
LEMMA RecoversMore ==
    ASSUME NEW file, NEW sz, Framed(file, sz), NEW p \in 0..Len(file), NEW q \in 0..Len(file), p <= q
    PROVE  RecoveredWrites(SubSeq(file, 1, p)) \subseteq RecoveredWrites(SubSeq(file, 1, q))
  <1>1. Cut(file, p) \in Nat /\ Cut(file, q) \in Nat /\ Cut(file, p) <= Cut(file, q)
    BY CutMonotone
  <1>2. SealedUpTo(file, sz, Cut(file, p)) \subseteq SealedUpTo(file, sz, Cut(file, q))
    BY <1>1 DEF SealedUpTo
  <1> QED
    BY <1>2, PrefixRecovers

\* Only attempts completed in the file are recovered from a prefix of it, and the earlier
\* ones that are completed with them.
LEMMA RecoversInOrder ==
    ASSUME NEW file, NEW sz, Framed(file, sz), NEW p \in 0..Len(file),
           NEW v \in SealedUpTo(file, sz, Len(file)), NEW w \in RecoveredWrites(SubSeq(file, 1, p)), v < w
    PROVE  v \in RecoveredWrites(SubSeq(file, 1, p))
  <1>1. file \in Seq(Frame) /\ Len(file) \in Nat /\ sz \in Seq(Nat)
    BY LenProperties DEF Framed
  <1> DEFINE e == Cut(file, p)
  <1>2. e \in Nat /\ e <= Len(file)
    <2>1. e \in 0..p
      BY <1>1, CutMonotone
    <2> QED
      BY <1>1, <2>1
  <1>3. RecoveredWrites(SubSeq(file, 1, p)) = SealedUpTo(file, sz, e)
    BY PrefixRecovers
  <1> HIDE DEF e
  <1>4. PICK j \in 1..Len(file) : file[j].w = v /\ Seals(file[j], sz)
    BY DEF SealedUpTo
  <1>5. PICK k \in 1..e : file[k].w = w
    BY <1>3 DEF SealedUpTo
  <1>6. k \in 1..Len(file)
    BY <1>1, <1>2
  <1>7. v \in Nat /\ w \in Nat
    <2>1. file[j].w \in 1..Len(sz) /\ file[k].w \in 1..Len(sz)
      BY <1>6 DEF Framed
    <2> QED
      BY <1>4, <1>5, <2>1
  <1>8. j < k
    <2> SUFFICES ASSUME ~(j < k) PROVE FALSE
      OBVIOUS
    <2>1. k <= j
      BY <1>1, <1>2
    <2>2. file[k].w <= file[j].w
      BY <1>6, <2>1 DEF Framed
    <2> QED
      BY <1>4, <1>5, <1>7, <2>2
  <1>9. j \in 1..e
    BY <1>1, <1>2, <1>8
  <1> QED
    BY <1>3, <1>4, <1>9 DEF SealedUpTo

\* A new attempt changes nothing about the old ones.
LEMMA SizesGrow ==
    ASSUME NEW file, NEW sz, Framed(file, sz), NEW n \in Nat
    PROVE  /\ Framed(file, Append(sz, n))
           /\ \A e \in 0..Len(file) : SealedUpTo(file, Append(sz, n), e) = SealedUpTo(file, sz, e)
           /\ \A i \in 1..Len(file) : Append(sz, n)[file[i].w] = sz[file[i].w]
  <1> DEFINE t == Append(sz, n)
  <1>1. file \in Seq(Frame) /\ Len(file) \in Nat /\ sz \in Seq(Nat) /\ Len(sz) \in Nat
    BY LenProperties DEF Framed
  <1>2. t \in Seq(Nat) /\ Len(t) = Len(sz) + 1 /\ \A w \in 1..Len(sz) : t[w] = sz[w]
    BY <1>1, AppendProperties
  <1> HIDE DEF t
  <1>3. \A i \in 1..Len(file) : file[i].w \in 1..Len(sz) /\ t[file[i].w] = sz[file[i].w]
    BY <1>2 DEF Framed
  <1>4. Framed(file, t)
    BY <1>1, <1>2, <1>3 DEF Framed
  <1>5. ASSUME NEW e \in 0..Len(file) PROVE SealedUpTo(file, t, e) = SealedUpTo(file, sz, e)
    <2>1. \A x \in 1..e : Seals(file[x], t) <=> Seals(file[x], sz)
      <3> SUFFICES ASSUME NEW x \in 1..e PROVE Seals(file[x], t) <=> Seals(file[x], sz)
        OBVIOUS
      <3>1. x \in 1..Len(file)
        BY <1>1
      <3> QED
        BY <1>3, <3>1 DEF Seals
    <2> QED
      BY <2>1 DEF SealedUpTo
  <1> QED
    BY <1>3, <1>4, <1>5 DEF t

-----------------------------------------------------------------------------
(* Appending an attempt *)

\* The frames of one write: its operation, or its operations between begin and commit.
AreFrames(F, w, s, n) ==
    /\ F \in Seq(Frame) /\ \A k \in 1..Len(F) : F[k].w = w
    /\ n = 1 => Len(F) = 1 /\ F[1] = OpFrame(w, s + 1)
    /\ n > 1 => /\ Len(F) = n + 2 /\ F[1] = Begin(w, s + 1, n) /\ F[n + 2] = Commit(w, s + 1, n)
                /\ \A k \in 2..(n + 1) : F[k] = OpFrame(w, s + k - 1)

\* append and append_batch write these frames.
LEMMA FramesAre ==
    ASSUME NEW w \in Nat, NEW s \in Nat, NEW n \in Nat, n > 0
    PROVE  AreFrames(Frames(w, s, n), w, s, n)
  <1> DEFINE F == Frames(w, s, n)
  <1>1. CASE n = 1
    <2>1. F = <<OpFrame(w, s + 1)>>
      BY <1>1 DEF Frames
    <2>2. OpFrame(w, s + 1) \in Frame /\ OpFrame(w, s + 1).w = w
      BY DEF OpFrame, Frame
    <2>3. F \in Seq(Frame) /\ Len(F) = 1 /\ F[1] = OpFrame(w, s + 1)
      BY <2>1, <2>2
    <2> HIDE DEF F
    <2> QED
      BY <1>1, <2>2, <2>3 DEF AreFrames, F
  <1>2. CASE n # 1
    <2> DEFINE B == <<Begin(w, s + 1, n)>>
               O == [k \in 1..n |-> OpFrame(w, s + k)]
               C == <<Commit(w, s + 1, n)>>
    <2>1. F = B \o O \o C
      BY <1>2 DEF Frames
    <2>2. /\ B \in Seq(Frame) /\ Len(B) = 1 /\ B[1] = Begin(w, s + 1, n)
          /\ C \in Seq(Frame) /\ Len(C) = 1 /\ C[1] = Commit(w, s + 1, n)
      <3>1. Begin(w, s + 1, n) \in Frame /\ Commit(w, s + 1, n) \in Frame
        BY DEF Begin, Commit, Frame
      <3> QED
        BY <3>1
    <2>3. O \in Seq(Frame) /\ Len(O) = n /\ \A k \in 1..n : O[k] = OpFrame(w, s + k)
      <3>1. \A k \in 1..n : OpFrame(w, s + k) \in Frame
        BY DEF OpFrame, Frame
      <3>2. O \in [1..n -> Frame]
        BY <3>1
      <3> QED
        BY <3>2
    <2> HIDE DEF B, O, C
    <2>4. /\ B \o O \in Seq(Frame) /\ Len(B \o O) = n + 1
          /\ \A k \in 1..(n + 1) : (B \o O)[k] = IF k <= 1 THEN B[k] ELSE O[k - 1]
      <3>1. /\ B \o O \in Seq(Frame) /\ Len(B \o O) = Len(B) + Len(O)
            /\ \A k \in 1..(Len(B) + Len(O)) : (B \o O)[k] = IF k <= Len(B) THEN B[k] ELSE O[k - Len(B)]
        BY <2>2, <2>3, ConcatProperties
      <3>2. Len(B) = 1 /\ Len(B) + Len(O) = n + 1
        BY <2>2, <2>3
      <3> QED
        BY <3>1, <3>2
    <2> DEFINE D == B \o O
    <2>5. /\ D \in Seq(Frame) /\ Len(D) = n + 1 /\ D[1] = Begin(w, s + 1, n)
          /\ \A k \in 2..(n + 1) : D[k] = OpFrame(w, s + k - 1)
      <3>1. D[1] = B[1]
        BY <2>4
      <3>2. ASSUME NEW k \in 2..(n + 1) PROVE D[k] = OpFrame(w, s + k - 1)
        <4>1. D[k] = O[k - 1] /\ k - 1 \in 1..n /\ s + (k - 1) = s + k - 1
          BY <2>4
        <4> QED
          BY <2>3, <4>1
      <3> QED
        BY <2>2, <2>4, <3>1, <3>2
    <2> HIDE DEF D
    <2>6. /\ D \o C \in Seq(Frame) /\ Len(D \o C) = n + 2
          /\ \A k \in 1..(n + 2) : (D \o C)[k] = IF k <= n + 1 THEN D[k] ELSE C[k - (n + 1)]
      <3>1. /\ D \o C \in Seq(Frame) /\ Len(D \o C) = Len(D) + Len(C)
            /\ \A k \in 1..(Len(D) + Len(C)) : (D \o C)[k] = IF k <= Len(D) THEN D[k] ELSE C[k - Len(D)]
        BY <2>2, <2>5, ConcatProperties
      <3>2. Len(D) = n + 1 /\ Len(D) + Len(C) = n + 2
        BY <2>2, <2>5
      <3> QED
        BY <3>1, <3>2
    <2>7. F = D \o C
      BY <2>1 DEF D
    <2> HIDE DEF F
    <2>8. F[1] = Begin(w, s + 1, n) /\ F[n + 2] = Commit(w, s + 1, n)
      <3>1. F[1] = D[1] /\ F[n + 2] = C[(n + 2) - (n + 1)] /\ (n + 2) - (n + 1) = 1
        BY <2>6, <2>7
      <3> QED
        BY <2>2, <2>5, <3>1
    <2>9. ASSUME NEW k \in 2..(n + 1) PROVE F[k] = OpFrame(w, s + k - 1)
      <3>1. k \in 1..(n + 2) /\ k <= n + 1
        OBVIOUS
      <3> QED
        BY <2>5, <2>6, <2>7, <3>1
    <2>10. ASSUME NEW k \in 1..(n + 2) PROVE F[k].w = w
      <3>1. CASE k = 1
        BY <2>8, <3>1 DEF Begin
      <3>2. CASE k = n + 2
        BY <2>8, <3>2 DEF Commit
      <3>3. CASE k \in 2..(n + 1)
        <4>1. F[k] = OpFrame(w, s + k - 1)
          BY <2>9, <3>3
        <4> QED
          BY <4>1 DEF OpFrame
      <3> QED
        BY <3>1, <3>2, <3>3
    <2> QED
      BY <1>2, <2>6, <2>7, <2>8, <2>9, <2>10 DEF AreFrames, F
  <1> QED
    BY <1>1, <1>2

\* Attempt w may be appended to the file.
Fits(file, sz, w, s, n) ==
    /\ Framed(file, sz) /\ w \in 1..Len(sz) /\ sz[w] = n /\ s \in Nat /\ n \in Nat /\ n > 0
    /\ \A j \in 1..Len(file) : file[j].w < w

\* The frames of g behind position L are those of w.
IsAppended(g, file, L, w, s, n) ==
    /\ L = Len(file) /\ L \in Nat /\ w \in Nat /\ s \in Nat /\ n \in Nat /\ n > 0
    /\ g \in Seq(Frame) /\ Len(g) = L + (IF n = 1 THEN 1 ELSE n + 2)
    /\ \A j \in 1..L : g[j] = file[j]
    /\ \A j \in (L + 1)..Len(g) : g[j].w = w
    /\ n = 1 => g[L + 1] = OpFrame(w, s + 1)
    /\ n > 1 => /\ g[L + 1] = Begin(w, s + 1, n) /\ g[L + n + 2] = Commit(w, s + 1, n)
                /\ \A k \in 2..(n + 1) : g[L + k] = OpFrame(w, s + k - 1)

\* The file after an append.
LEMMA AppendedIs ==
    ASSUME NEW file, NEW sz, NEW w, NEW s, NEW n, Fits(file, sz, w, s, n)
    PROVE  IsAppended(file \o Frames(w, s, n), file, Len(file), w, s, n)
  <1> DEFINE F == Frames(w, s, n)
             g == file \o F
             L == Len(file)
  <1>1. file \in Seq(Frame) /\ L \in Nat /\ w \in Nat /\ s \in Nat /\ n \in Nat /\ n > 0
    BY LenProperties DEF Fits, Framed
  <1>0. AreFrames(F, w, s, n)
    BY <1>1, FramesAre
  <1>2. F \in Seq(Frame) /\ \A k \in 1..Len(F) : F[k].w = w
    BY <1>0 DEF AreFrames
  <1>3. n = 1 => Len(F) = 1 /\ F[1] = OpFrame(w, s + 1)
    BY <1>0 DEF AreFrames
  <1>4. n > 1 => /\ Len(F) = n + 2 /\ F[1] = Begin(w, s + 1, n) /\ F[n + 2] = Commit(w, s + 1, n)
                 /\ \A k \in 2..(n + 1) : F[k] = OpFrame(w, s + k - 1)
    BY <1>0 DEF AreFrames
  <1> HIDE DEF F
  <1>5. Len(F) \in Nat
    BY <1>2, LenProperties
  <1>6. /\ g \in Seq(Frame) /\ Len(g) = L + Len(F)
        /\ \A j \in 1..(L + Len(F)) : g[j] = IF j <= L THEN file[j] ELSE F[j - L]
    BY <1>1, <1>2, ConcatProperties
  <1> HIDE DEF g
  <1>7. \A j \in 1..L : g[j] = file[j]
    BY <1>1, <1>5, <1>6
  <1>8. \A k \in 1..Len(F) : g[L + k] = F[k]
    <2> SUFFICES ASSUME NEW k \in 1..Len(F) PROVE g[L + k] = F[k]
      OBVIOUS
    <2>1. L + k \in 1..(L + Len(F)) /\ ~(L + k <= L) /\ (L + k) - L = k
      BY <1>1, <1>5
    <2> QED
      BY <1>6, <2>1
  <1>9. ASSUME NEW j \in (L + 1)..Len(g) PROVE g[j].w = w
    <2>1. j - L \in 1..Len(F) /\ L + (j - L) = j
      BY <1>1, <1>5, <1>6
    <2> QED
      BY <1>2, <1>8, <2>1
  <1>10. n = 1 => g[L + 1] = OpFrame(w, s + 1)
    BY <1>3, <1>8
  <1>11. ASSUME n > 1
         PROVE  /\ g[L + 1] = Begin(w, s + 1, n) /\ g[L + n + 2] = Commit(w, s + 1, n)
                /\ \A k \in 2..(n + 1) : g[L + k] = OpFrame(w, s + k - 1)
    <2>1. 1 \in 1..Len(F) /\ n + 2 \in 1..Len(F) /\ L + (n + 2) = L + n + 2
      BY <1>1, <1>4, <1>11
    <2>2. \A k \in 2..(n + 1) : k \in 1..Len(F)
      BY <1>1, <1>4, <1>11
    <2> QED
      BY <1>4, <1>8, <1>11, <2>1, <2>2
  <1>12. Len(g) = L + (IF n = 1 THEN 1 ELSE n + 2)
    <2>1. CASE n = 1
      BY <1>3, <1>6, <2>1
    <2>2. CASE n > 1
      BY <1>4, <1>6, <2>2
    <2> QED
      BY <1>1, <2>1, <2>2
  <1>13. IsAppended(g, file, L, w, s, n)
    BY <1>1, <1>6, <1>7, <1>9, <1>10, <1>11, <1>12 DEF IsAppended
  <1> QED
    BY <1>13 DEF g, F

\* A file stays framed when an attempt is appended ...
LEMMA AppendFramed ==
    ASSUME NEW file, NEW sz, NEW w, NEW s, NEW n, Fits(file, sz, w, s, n)
    PROVE  Framed(file \o Frames(w, s, n), sz)
  <1> DEFINE g == file \o Frames(w, s, n)
             L == Len(file)
  <1>1. IsAppended(g, file, L, w, s, n)
    BY AppendedIs
  <1>2. Framed(file, sz) /\ w \in 1..Len(sz) /\ sz[w] = n /\ sz \in Seq(Nat) /\ \A j \in 1..L : file[j].w < w
    BY DEF Fits, Framed
  <1> HIDE DEF g, L
  <1>3. /\ L = Len(file) /\ L \in Nat /\ w \in Nat /\ s \in Nat /\ n \in Nat /\ n > 0
        /\ g \in Seq(Frame) /\ Len(g) = L + (IF n = 1 THEN 1 ELSE n + 2)
        /\ \A j \in 1..L : g[j] = file[j]
        /\ \A j \in (L + 1)..Len(g) : g[j].w = w
    BY <1>1 DEF IsAppended
  <1>4. Len(g) \in Nat /\ Len(g) > L
    BY <1>3
  <1>5. ASSUME NEW i \in 1..L PROVE g[i].w \in 1..Len(sz) /\ InPlace(g, i, sz[g[i].w])
    <2>1. i \in Nat /\ i > 0 /\ g[i] = file[i] /\ \A j \in 1..i : file[j] = g[j]
      BY <1>3
    <2>2. file[i].w \in 1..Len(sz) /\ InPlace(file, i, sz[file[i].w])
      BY <1>2, <1>3 DEF Framed
    <2>3. sz[file[i].w] \in Nat
      BY <1>2, <2>2, ElementOfSeq
    <2> QED
      BY <2>1, <2>2, <2>3, InPlaceAgrees
  <1>6. IsFirst(g, L + 1)
    <2>1. \A j \in 1..L : g[j].w < w
      BY <1>2, <1>3
    <2>2. g[L + 1].w = w
      BY <1>3, <1>4
    <2>3. L + 1 - 1 = L
      BY <1>3
    <2> QED
      BY <1>3, <2>1, <2>2, <2>3 DEF IsFirst
  <1>7. ASSUME NEW i \in (L + 1)..Len(g) PROVE InPlace(g, i, n)
    <2>1. CASE n = 1
      <3>1. i = L + 1 /\ g[i] = OpFrame(w, s + 1)
        BY <1>1, <1>3, <2>1 DEF IsAppended
      <3>2. g[i].kind = "op"
        BY <3>1 DEF OpFrame
      <3> QED
        BY <1>6, <2>1, <3>1, <3>2 DEF InPlace
    <2>2. CASE n > 1
      <3>1. /\ g[L + 1].kind = "begin" /\ g[L + 1].count = n
        <4>1. g[L + 1] = Begin(w, s + 1, n)
          BY <1>1, <2>2 DEF IsAppended
        <4> QED
          BY <4>1 DEF Begin
      <3>2. g[L + n + 2].kind = "commit" /\ g[L + n + 2].count = n
        <4>1. g[L + n + 2] = Commit(w, s + 1, n)
          BY <1>1, <2>2 DEF IsAppended
        <4> QED
          BY <4>1 DEF Commit
      <3>3. \A k \in 2..(n + 1) : g[L + k].kind = "op"
        <4> SUFFICES ASSUME NEW k \in 2..(n + 1) PROVE g[L + k].kind = "op"
          OBVIOUS
        <4>1. g[L + k] = OpFrame(w, s + k - 1)
          BY <1>1, <2>2 DEF IsAppended
        <4> QED
          BY <4>1 DEF OpFrame
      <3>4. Len(g) = L + n + 2
        BY <1>3, <2>2
      <3>5. \A j \in (L + 2)..(L + n + 1) : g[j].kind = "op" /\ g[j].w = w
        <4> SUFFICES ASSUME NEW j \in (L + 2)..(L + n + 1) PROVE g[j].kind = "op" /\ g[j].w = w
          OBVIOUS
        <4>1. j - L \in 2..(n + 1) /\ L + (j - L) = j /\ j \in (L + 1)..Len(g)
          BY <1>3, <3>4
        <4>2. g[L + (j - L)].kind = "op"
          BY <3>3, <4>1
        <4>3. g[j].w = w
          BY <1>3, <4>1
        <4> QED
          BY <4>1, <4>2, <4>3
      <3>6. CASE i = L + 1
        BY <1>3, <1>6, <2>2, <3>1, <3>6 DEF InPlace
      <3>7. CASE i \in (L + 2)..(L + n + 1)
        <4>1. g[i].kind = "op" /\ g[i].w = w /\ i > 1
          BY <1>3, <3>5, <3>7
        <4>2. i - 1 = L + 1 \/ i - 1 \in (L + 2)..(L + n + 1)
          BY <1>3, <3>7
        <4>3. g[i - 1].w = w /\ g[i - 1].kind \in {"begin", "op"}
          <5>1. L + 1 \in (L + 1)..Len(g)
            BY <1>3, <1>4
          <5>2. g[L + 1].w = w
            BY <1>3, <5>1
          <5> QED
            BY <3>1, <3>5, <4>2, <5>2
        <4> QED
          BY <1>3, <2>2, <4>1, <4>3 DEF InPlace
      <3>8. CASE i = L + n + 2
        <4>1. i - n - 1 = L + 1 /\ i - n = L + 2 /\ i - 1 = L + n + 1 /\ i > n + 1
          BY <1>3, <3>8
        <4>2. g[i].w = w /\ g[L + 1].w = w
          BY <1>3, <1>4, <3>4, <3>8
        <4>3. g[i].kind = "commit" /\ g[i].count = n /\ n >= 2
          BY <1>3, <2>2, <3>2, <3>8
        <4>4. \A j \in (i - n)..(i - 1) : g[j].kind = "op" /\ g[j].w = g[i].w
          BY <3>5, <4>1, <4>2
        <4>5. g[i - n - 1].kind = "begin" /\ g[i - n - 1].w = g[i].w
          BY <3>1, <4>1, <4>2
        <4> QED
          BY <4>1, <4>3, <4>4, <4>5 DEF InPlace
      <3>9. i = L + 1 \/ i \in (L + 2)..(L + n + 1) \/ i = L + n + 2
        <4>1. L \in Nat /\ n \in Nat /\ i \in (L + 1)..(L + n + 2)
          BY <1>3, <3>4
        <4> QED
          BY <4>1
      <3> QED
        BY <3>6, <3>7, <3>8, <3>9
    <2> QED
      BY <1>3, <2>1, <2>2
  <1>8. ASSUME NEW i \in 1..Len(g) PROVE g[i].w \in 1..Len(sz) /\ InPlace(g, i, sz[g[i].w])
    <2>1. CASE i \in 1..L
      BY <1>5, <2>1
    <2>2. CASE i \in (L + 1)..Len(g)
      BY <1>2, <1>3, <1>7, <2>2
    <2> QED
      BY <1>3, <1>4, <2>1, <2>2
  <1>9. ASSUME NEW i \in 1..Len(g), NEW j \in 1..Len(g), i <= j PROVE g[i].w <= g[j].w
    <2>1. CASE j \in 1..L
      <3>1. i \in 1..L
        BY <1>3, <1>9, <2>1
      <3>2. file[i].w <= file[j].w
        BY <1>2, <1>3, <1>9, <2>1, <3>1 DEF Framed
      <3> QED
        BY <1>3, <2>1, <3>1, <3>2
    <2>2. CASE j \in (L + 1)..Len(g)
      <3>1. g[j].w = w
        BY <1>3, <2>2
      <3>2. CASE i \in 1..L
        <4>1. g[i].w < w /\ g[i].w \in Nat
          <5>1. g[i].w \in 1..Len(sz)
            BY <1>5, <3>2
          <5>2. g[i] = file[i] /\ file[i].w < w
            BY <1>2, <1>3, <3>2
          <5> QED
            BY <5>1, <5>2
        <4> QED
          BY <1>3, <3>1, <4>1
      <3>3. CASE i \in (L + 1)..Len(g)
        BY <1>3, <3>1, <3>3
      <3> QED
        BY <1>3, <1>4, <3>2, <3>3
    <2> QED
      BY <1>3, <1>4, <2>1, <2>2
  <1>10. Framed(g, sz)
    BY <1>2, <1>3, <1>8, <1>9 DEF Framed
  <1> QED
    BY <1>10 DEF g

\* ... or a torn frame, behind which nothing is read.
LEMMA TornFramed ==
    ASSUME NEW file, NEW sz, Framed(file, sz), NEW w \in 1..Len(sz), \A j \in 1..Len(file) : file[j].w <= w
    PROVE  Framed(file \o <<Torn(w)>>, sz)
  <1> DEFINE g == file \o <<Torn(w)>>
             L == Len(file)
  <1>1. file \in Seq(Frame) /\ L \in Nat /\ sz \in Seq(Nat) /\ w \in Nat
    BY LenProperties DEF Framed
  <1>2. <<Torn(w)>> \in Seq(Frame) /\ Len(<<Torn(w)>>) = 1 /\ <<Torn(w)>>[1] = Torn(w)
    <2>1. Torn(w) \in Frame
      BY <1>1 DEF Torn, Frame
    <2> QED
      BY <2>1
  <1>3. g \in Seq(Frame) /\ Len(g) = L + 1 /\ (\A j \in 1..L : g[j] = file[j]) /\ g[L + 1] = Torn(w)
    <2> DEFINE T == <<Torn(w)>>
    <2> HIDE DEF T
    <2>1. T \in Seq(Frame) /\ Len(T) = 1 /\ T[1] = Torn(w) /\ g = file \o T
      BY <1>2 DEF T
    <2>2. /\ file \o T \in Seq(Frame) /\ Len(file \o T) = L + Len(T)
          /\ \A j \in 1..(L + Len(T)) : (file \o T)[j] = IF j <= L THEN file[j] ELSE T[j - L]
      BY <1>1, <2>1, ConcatProperties
    <2> HIDE DEF g
    <2>3. g \in Seq(Frame) /\ Len(g) = L + 1 /\ \A j \in 1..(L + 1) : g[j] = IF j <= L THEN file[j] ELSE T[j - L]
      BY <2>1, <2>2
    <2>4. ASSUME NEW j \in 1..L PROVE g[j] = file[j]
      <3>1. j \in 1..(L + 1) /\ j <= L
        BY <1>1
      <3> QED
        BY <2>3, <3>1
    <2>5. g[L + 1] = Torn(w)
      <3>1. L + 1 \in 1..(L + 1) /\ ~(L + 1 <= L) /\ (L + 1) - L = 1
        BY <1>1
      <3> QED
        BY <2>1, <2>3, <3>1
    <2> QED
      BY <2>3, <2>4, <2>5
  <1> HIDE DEF g
  <1>4. ASSUME NEW i \in 1..Len(g) PROVE g[i].w \in 1..Len(sz) /\ InPlace(g, i, sz[g[i].w])
    <2>1. CASE i \in 1..L
      <3>1. i \in Nat /\ i > 0 /\ g[i] = file[i] /\ \A j \in 1..i : file[j] = g[j]
        BY <1>1, <1>3, <2>1
      <3>2. file[i].w \in 1..Len(sz) /\ InPlace(file, i, sz[file[i].w])
        BY <2>1 DEF Framed
      <3>3. sz[file[i].w] \in Nat
        BY <1>1, <3>2, ElementOfSeq
      <3> QED
        BY <3>1, <3>2, <3>3, InPlaceAgrees
    <2>2. CASE i = L + 1
      BY <1>3, <2>2 DEF InPlace, Torn
    <2> QED
      BY <1>1, <1>3, <2>1, <2>2
  <1>5. ASSUME NEW i \in 1..Len(g), NEW j \in 1..Len(g), i <= j PROVE g[i].w <= g[j].w
    <2>1. CASE j \in 1..L
      <3>1. i \in 1..L
        BY <1>1, <1>5, <2>1
      <3>2. file[i].w <= file[j].w
        BY <1>5, <2>1, <3>1 DEF Framed
      <3> QED
        BY <1>3, <2>1, <3>1, <3>2
    <2>2. CASE j = L + 1
      <3>1. g[j].w = w
        BY <1>3, <2>2 DEF Torn
      <3>2. CASE i = L + 1
        BY <1>1, <2>2, <3>1, <3>2
      <3>3. CASE i \in 1..L
        BY <1>3, <3>1, <3>3
      <3> QED
        BY <1>1, <1>3, <3>2, <3>3
    <2> QED
      BY <1>1, <1>3, <2>1, <2>2
  <1>6. Framed(g, sz)
    BY <1>1, <1>3, <1>4, <1>5 DEF Framed
  <1> QED
    BY <1>6 DEF g

\* An append that fails half-way leaves a prefix of what it would have written.
LEMMA PartOfAppend ==
    ASSUME NEW T, NEW a \in Seq(T), NEW b \in Seq(T), NEW k \in 0..Len(b)
    PROVE  a \o SubSeq(b, 1, k) = SubSeq(a \o b, 1, Len(a) + k)
  <1> DEFINE L == Len(a)
             c == SubSeq(b, 1, k)
             d == a \o b
             g == a \o c
             h == SubSeq(d, 1, L + k)
  <1>1. L \in Nat /\ Len(b) \in Nat /\ k \in Nat
    BY LenProperties
  <1>2. c \in Seq(T) /\ Len(c) = k /\ \A j \in 1..k : c[j] = b[j]
    BY PrefixIs
  <1>3. /\ d \in Seq(T) /\ Len(d) = L + Len(b)
        /\ \A j \in 1..(L + Len(b)) : d[j] = IF j <= L THEN a[j] ELSE b[j - L]
    BY ConcatProperties
  <1> HIDE DEF c, d
  <1>4. /\ g \in Seq(T) /\ Len(g) = L + Len(c)
        /\ \A j \in 1..(L + Len(c)) : g[j] = IF j <= L THEN a[j] ELSE c[j - L]
    BY <1>2, ConcatProperties
  <1>5. L + k \in 0..Len(d)
    BY <1>1, <1>3
  <1>6. h \in Seq(T) /\ Len(h) = L + k /\ \A j \in 1..(L + k) : h[j] = d[j]
    BY <1>3, <1>5, PrefixIs
  <1> HIDE DEF g, h
  <1>7. ASSUME NEW j \in 1..(L + k) PROVE g[j] = h[j]
    <2>1. h[j] = IF j <= L THEN a[j] ELSE b[j - L]
      BY <1>1, <1>3, <1>6
    <2>2. g[j] = IF j <= L THEN a[j] ELSE c[j - L]
      BY <1>1, <1>2, <1>4
    <2>3. ~(j <= L) => j - L \in 1..k
      BY <1>1
    <2> QED
      BY <1>2, <2>1, <2>2, <2>3
  <1>8. g = h
    <2>1. Len(g) = L + k
      BY <1>2, <1>4
    <2> QED
      BY <1>4, <1>6, <1>7, <2>1, SeqEqual
  <1> QED
    BY <1>8 DEF g, h, c, d

\* read_path passes the whole file and no batch is open at its end.
ReadsWhole(file) == ~ReadPath(file).stop /\ ReadPath(file).durable = Len(file)

\* The state in which read_path has passed the whole file.
LEMMA WholeIs ==
    ASSUME NEW file, NEW sz, Framed(file, sz)
    PROVE  ReadsWhole(file) <=> ReadLoop(file)[Len(file)] = ReadAt(file, Len(file), Len(file))
  <1>1. PICK k : /\ Reached(file, sz, Len(file), k)
                 /\ ~ReadPath(file).stop <=> k = Len(file)
                 /\ ReadPath(file).durable = Cut(file, k)
    BY RecoveryReads
  <1>2. ASSUME ReadsWhole(file) PROVE ReadLoop(file)[Len(file)] = ReadAt(file, Len(file), Len(file))
    BY <1>1, <1>2 DEF Reached, ReadsWhole
  <1>3. ASSUME ReadLoop(file)[Len(file)] = ReadAt(file, Len(file), Len(file)) PROVE ReadsWhole(file)
    BY <1>3 DEF ReadsWhole, ReadPath, ReadAt
  <1> QED
    BY <1>2, <1>3

\* The next frame, when read_path takes it.
LEMMA ReadOn ==
    ASSUME NEW g, NEW sz, Framed(g, sz), NEW i \in Nat, i < Len(g), NEW e,
           ReadLoop(g)[i] = ReadAt(g, e, i), Accepts(ReadAt(g, e, i), g[i + 1])
    PROVE  /\ g[i + 1].kind = "begin" => ReadLoop(g)[i + 1] = ReadAt(g, e, i + 1)
           /\ g[i + 1].kind = "op" /\ e # i => ReadLoop(g)[i + 1] = ReadAt(g, e, i + 1)
           /\ g[i + 1].kind = "op" /\ e = i => ReadLoop(g)[i + 1] = ReadAt(g, i + 1, i + 1)
           /\ g[i + 1].kind = "commit" => ReadLoop(g)[i + 1] = ReadAt(g, i + 1, i + 1)
  <1>1. Len(g) \in Nat /\ i \in 0..Len(g) /\ i \in 0..(Len(g) - 1) /\ i + 1 \in 1..Len(g)
    BY LenProperties DEF Framed
  <1>2. InForm(g, sz, i) /\ Cut(g, i) = e
    <2>1. ~ReadLoop(g)[i].stop /\ Cut(g, i) = e
      BY DEF ReadAt, Cut
    <2> QED
      BY <1>1, <2>1, NotStopped
  <1> DEFINE a == Ops(g, i)
  <1>3. Turn(g, sz, e, i, a)
    BY <1>1, <1>2 DEF InForm, Turn
  <1>4. ReadLoop(g)[i + 1] = ReadStep(ReadAt(g, e, i), g[i + 1])
    <2>1. i + 1 - 1 = i
      OBVIOUS
    <2> QED
      BY <1>1, <2>1, ReadLoopTurns
  <1> HIDE DEF a
  <1>5. g[i + 1].kind = "begin" => ReadLoop(g)[i + 1] = ReadAt(g, e, i + 1)
    BY <1>3, <1>4, BeginTurn DEF TurnOk
  <1>6. g[i + 1].kind = "op" /\ e # i => ReadLoop(g)[i + 1] = ReadAt(g, e, i + 1)
    BY <1>3, <1>4, BatchTurn DEF TurnOk
  <1>7. g[i + 1].kind = "op" /\ e = i => ReadLoop(g)[i + 1] = ReadAt(g, i + 1, i + 1)
    BY <1>3, <1>4, SingleTurn DEF TurnOk
  <1>8. g[i + 1].kind = "commit" => ReadLoop(g)[i + 1] = ReadAt(g, i + 1, i + 1)
    BY <1>3, <1>4, CommitTurn DEF TurnOk
  <1> QED
    BY <1>5, <1>6, <1>7, <1>8

\* A file that is read as a whole stays so when an attempt is appended.
LEMMA AppendReadsWhole ==
    ASSUME NEW file, NEW sz, NEW w, NEW s, NEW n, Fits(file, sz, w, s, n), ReadsWhole(file)
    PROVE  ReadsWhole(file \o Frames(w, s, n))
  <1> DEFINE g == file \o Frames(w, s, n)
             L == Len(file)
  <1>1. IsAppended(g, file, L, w, s, n) /\ Framed(g, sz) /\ Framed(file, sz)
    BY AppendedIs, AppendFramed DEF Fits
  <1> HIDE DEF g, L
  <1>2. /\ L = Len(file) /\ L \in Nat /\ s \in Nat /\ n \in Nat /\ n > 0
        /\ Len(g) = L + (IF n = 1 THEN 1 ELSE n + 2) /\ \A j \in 1..L : g[j] = file[j]
    BY <1>1 DEF IsAppended
  <1>3. ReadLoop(g)[L] = ReadAt(g, L, L)
    <2>1. ReadLoop(file)[L] = ReadAt(file, L, L)
      BY <1>1, <1>2, WholeIs
    <2>2. ReadLoop(g)[L] = ReadLoop(file)[L]
      <3>1. Len(g) \in Nat /\ L <= Len(g) /\ L <= Len(file) /\ L \in 0..L
        BY <1>2
      <3>2. Len(file) \in Nat /\ \A j \in 1..L : g[j] = file[j]
        BY <1>2
      <3>3. L \in Nat
        BY <1>2
      <3>4. \A i \in 0..L : ReadLoop(g)[i] = ReadLoop(file)[i]
        BY <3>1, <3>2, <3>3, ReadLoopAgrees
      <3> QED
        BY <3>1, <3>4
    <2>3. InForm(g, sz, L)
      <3>1. L \in 0..Len(g)
        BY <1>2
      <3>2. ~ReadLoop(g)[L].stop
        BY <2>1, <2>2 DEF ReadAt
      <3> QED
        BY <1>1, <3>1, <3>2, NotStopped
    <2>4. Cut(g, L) = L
      BY <2>1, <2>2 DEF Cut, ReadAt
    <2> QED
      BY <2>3, <2>4 DEF InForm
  <1>4. CASE n = 1
    <2>1. g[L + 1].kind = "op" /\ Len(g) = L + 1 /\ L < Len(g)
      BY <1>1, <1>2, <1>4 DEF IsAppended, OpFrame
    <2>2. Accepts(ReadAt(g, L, L), g[L + 1])
      BY <2>1 DEF Accepts, ReadAt, ReadBatch
    <2>3. ReadLoop(g)[L + 1] = ReadAt(g, L + 1, L + 1)
      BY <1>1, <1>2, <1>3, <2>1, <2>2, ReadOn
    <2> QED
      BY <1>1, <2>1, <2>3, WholeIs DEF g
  <1>5. CASE n > 1
    <2>1. /\ g[L + 1] = Begin(w, s + 1, n) /\ g[L + n + 2] = Commit(w, s + 1, n)
          /\ \A k \in 2..(n + 1) : g[L + k] = OpFrame(w, s + k - 1)
          /\ Len(g) = L + n + 2
      BY <1>1, <1>2, <1>5 DEF IsAppended
    <2>2. ReadLoop(g)[L + 1] = ReadAt(g, L, L + 1)
      <3>1. g[L + 1].kind = "begin" /\ g[L + 1].seq = s + 1 /\ g[L + 1].count = n
        BY <2>1 DEF Begin
      <3>2. Accepts(ReadAt(g, L, L), g[L + 1])
        BY <1>2, <1>5, <3>1 DEF Accepts, ReadAt, ReadBatch
      <3>3. L < Len(g)
        BY <1>2, <2>1
      <3>4. L \in Nat /\ Framed(g, sz) /\ g[L + 1].kind = "begin"
        BY <1>1, <1>2, <3>1
      <3> QED
        BY <1>3, <3>2, <3>3, <3>4, ReadOn
    <2> DEFINE S == {k \in Nat : k <= n => ReadLoop(g)[L + 1 + k] = ReadAt(g, L, L + 1 + k)}
    <2>3. 0 \in S
      <3>1. L + 1 + 0 = L + 1
        BY <1>2
      <3> QED
        BY <2>2, <3>1
    <2>4. ASSUME NEW k \in S PROVE k + 1 \in S
      <3> SUFFICES ASSUME k + 1 <= n PROVE ReadLoop(g)[L + 1 + (k + 1)] = ReadAt(g, L, L + 1 + (k + 1))
        OBVIOUS
      <3> DEFINE i == L + 1 + k
      <3>1. i \in Nat /\ i < Len(g) /\ L # i /\ L + 1 + (k + 1) = i + 1 /\ k <= n /\ i - L - 1 = k
        BY <1>2, <2>1
      <3>2. ReadLoop(g)[i] = ReadAt(g, L, i)
        BY <3>1
      <3>3. g[i + 1] = OpFrame(w, s + 1 + k)
        <4>1. k + 2 \in 2..(n + 1) /\ L + (k + 2) = i + 1 /\ s + (k + 2) - 1 = s + 1 + k
          BY <1>2
        <4>2. g[L + (k + 2)] = OpFrame(w, s + (k + 2) - 1)
          BY <2>1, <4>1
        <4> QED
          BY <4>1, <4>2
      <3>4. g[i + 1].kind = "op" /\ g[i + 1].seq = s + 1 + k
        BY <3>3 DEF OpFrame
      <3> HIDE DEF i
      <3>5. ReadAt(g, L, i).open = {[first |-> s + 1, count |-> n, read |-> k]}
        BY <2>1, <3>1 DEF ReadAt, ReadBatch, Begin
      <3>6. Accepts(ReadAt(g, L, i), g[i + 1])
        <4>1. k < n
          BY <1>2
        <4> QED
          BY <3>4, <3>5, <4>1 DEF Accepts
      <3>7. ReadLoop(g)[i + 1] = ReadAt(g, L, i + 1)
        <4>1. i \in Nat /\ i < Len(g) /\ L # i /\ Framed(g, sz) /\ g[i + 1].kind = "op"
          BY <1>1, <3>1, <3>4
        <4> QED
          BY <3>2, <3>6, <4>1, ReadOn
      <3> QED
        BY <3>1, <3>7
    <2>5. S = Nat
      <3> HIDE DEF S
      <3> QED
        BY <2>3, <2>4, Induction DEF S
    <2> DEFINE m == L + 1 + n
    <2>6. m \in Nat /\ m < Len(g) /\ m + 1 = Len(g) /\ L + n + 2 = m + 1 /\ L # m /\ m - L - 1 = n
      BY <1>2, <2>1
    <2>7. ReadLoop(g)[m] = ReadAt(g, L, m)
      <3>1. n \in S
        BY <1>2, <2>5
      <3> QED
        BY <1>2, <3>1
    <2> HIDE DEF m, S
    <2>8. g[m + 1].kind = "commit" /\ g[m + 1].seq = s + 1 /\ g[m + 1].count = n
      BY <2>1, <2>6 DEF Commit
    <2>9. ReadAt(g, L, m).open = {[first |-> s + 1, count |-> n, read |-> n]}
      BY <2>1, <2>6 DEF ReadAt, ReadBatch, Begin
    <2>10. Accepts(ReadAt(g, L, m), g[m + 1])
      BY <2>8, <2>9 DEF Accepts
    <2>11. ReadLoop(g)[m + 1] = ReadAt(g, m + 1, m + 1)
      BY <1>1, <2>6, <2>7, <2>8, <2>10, ReadOn
    <2> QED
      BY <1>1, <2>6, <2>11, WholeIs DEF g
  <1> QED
    BY <1>2, <1>4, <1>5

\* Where the durable prefix ends read_path was outside a batch.
LEMMA CutIsOutside ==
    ASSUME NEW file, NEW sz, Framed(file, sz), NEW n \in 0..Len(file)
    PROVE  ReadLoop(file)[Cut(file, n)] = ReadAt(file, Cut(file, n), Cut(file, n))
  <1> DEFINE Outside(e) == ReadLoop(file)[e] = ReadAt(file, e, e)
             S == {i \in Nat : i <= Len(file) => Outside(Cut(file, i))}
  <1>0. file \in Seq(Frame) /\ Len(file) \in Nat
    BY LenProperties DEF Framed
  <1>1. 0 \in S
    <2>1. Reached(file, sz, 0, 0)
      BY StartReached
    <2>2. Cut(file, 0) = 0
      BY <2>1 DEF Reached, InForm, StateOk
    <2>3. Outside(Cut(file, 0))
      BY <2>1, <2>2 DEF Reached
    <2> QED
      BY <2>3
  <1>2. ASSUME NEW i \in S PROVE i + 1 \in S
    <2> SUFFICES ASSUME i + 1 <= Len(file) PROVE Outside(Cut(file, i + 1))
      OBVIOUS
    <2> DEFINE r == ReadLoop(file)[i]
               f == file[i + 1]
    <2>1. i \in 0..Len(file) /\ i + 1 \in 1..Len(file) /\ i + 1 \in 0..Len(file) /\ i <= Len(file)
      BY <1>0
    <2>2. Outside(Cut(file, i))
      BY <2>1
    <2>3. ReadLoop(file)[i + 1] = ReadStep(r, f)
      <3>1. i + 1 - 1 = i
        OBVIOUS
      <3> QED
        BY <1>0, <2>1, <3>1, ReadLoopTurns
    <2>4. PICK k : Reached(file, sz, i, k)
      BY <2>1, AlwaysReached
    <2>5. CASE r.stop \/ ~Accepts(r, f)
      <3>1. ReadStep(r, f) = [r EXCEPT !.stop = TRUE]
        BY <2>5 DEF ReadStep
      <3>2. r = ReadAt(file, Cut(file, k), k) \/ r = StoppedAt(file, Cut(file, k), k)
        BY <2>4 DEF Reached
      <3>3. [r EXCEPT !.stop = TRUE] = StoppedAt(file, Cut(file, k), k)
        <4> HIDE DEF r
        <4> QED
          BY <3>2, ReadStops
      <3>4. Cut(file, i) = Cut(file, k)
        BY <3>2 DEF Cut, ReadAt, StoppedAt
      <3>5. Cut(file, i + 1) = Cut(file, k)
        BY <2>3, <3>1, <3>3 DEF Cut, StoppedAt
      <3> HIDE DEF Outside
      <3> QED
        BY <2>2, <3>4, <3>5
    <2>6. CASE ~r.stop /\ Accepts(r, f)
      <3>1. /\ ReadStep(r, f).stop = FALSE
            /\ ReadStep(r, f).durable = IF OpenAfter(r, f) = {} THEN Len(r.records) + 1 ELSE r.durable
        BY <2>6 DEF ReadStep
      <3>2. InForm(file, sz, i) /\ InForm(file, sz, i + 1)
        BY <2>1, <2>3, <2>6, <3>1, NotStopped
      <3>3. r.records = SubSeq(file, 1, i) /\ Len(SubSeq(file, 1, i)) = i
        BY <1>0, <2>1, <3>2, PrefixIs DEF InForm, ReadAt
      <3>4. Cut(file, i + 1) = i + 1 \/ Cut(file, i + 1) = Cut(file, i)
        BY <2>3, <3>1, <3>3 DEF Cut
      <3>5. CASE Cut(file, i + 1) = i + 1
        BY <3>2, <3>5 DEF InForm
      <3>6. CASE Cut(file, i + 1) = Cut(file, i)
        <4> HIDE DEF Outside
        <4> QED
          BY <2>2, <3>6
      <3> QED
        BY <3>4, <3>5, <3>6
    <2> QED
      BY <2>5, <2>6
  <1>3. S = Nat
    <2> HIDE DEF S
    <2> QED
      BY <1>1, <1>2, Induction DEF S
  <1> QED
    BY <1>0, <1>3

\* The durable prefix of a file is read as a whole, and recovers what the file does.
LEMMA CutReadsWhole ==
    ASSUME NEW file, NEW sz, Framed(file, sz)
    PROVE  /\ ReadPath(file).durable \in 0..Len(file)
           /\ ReadsWhole(SubSeq(file, 1, ReadPath(file).durable))
           /\ RecoveredWrites(SubSeq(file, 1, ReadPath(file).durable)) = RecoveredWrites(file)
  <1> DEFINE e == ReadPath(file).durable
             s == SubSeq(file, 1, e)
  <1>1. file \in Seq(Frame) /\ Len(file) \in Nat /\ Len(file) \in 0..Len(file)
    BY LenProperties DEF Framed
  <1>2. e = Cut(file, Len(file)) /\ e \in 0..Len(file)
    <2>1. e = Cut(file, Len(file))
      BY DEF ReadPath, Cut
    <2>2. Cut(file, Len(file)) \in 0..Len(file)
      BY <1>1, CutMonotone
    <2> QED
      BY <2>1, <2>2
  <1>3. ReadLoop(file)[e] = ReadAt(file, e, e)
    BY <1>1, <1>2, CutIsOutside
  <1> HIDE DEF e
  <1>4. s \in Seq(Frame) /\ Len(s) = e /\ (\A j \in 1..e : s[j] = file[j]) /\ Framed(s, sz)
    BY <1>1, <1>2, PrefixIs, PrefixFramed
  <1>5. RecoveredWrites(s) = RecoveredWrites(file)
    <2>1. Cut(file, e) = e
      BY <1>3 DEF Cut, ReadAt
    <2>2. RecoveredWrites(s) = SealedUpTo(file, sz, Cut(file, e))
      BY <1>2, PrefixRecovers
    <2> QED
      BY <1>2, <2>1, <2>2, RecoversSealed
  <1> HIDE DEF s
  <1>6. ReadsWhole(s)
    <2>1. ReadLoop(s)[e] = ReadLoop(file)[e]
      <3>1. e \in Nat /\ e <= Len(file) /\ e <= Len(s) /\ e \in 0..e /\ Len(s) \in Nat
        BY <1>1, <1>2, <1>4
      <3> QED
        BY <1>1, <1>4, <3>1, ReadLoopAgrees
    <2>2. ~ReadPath(s).stop /\ ReadPath(s).durable = e
      BY <1>3, <1>4, <2>1 DEF ReadPath, ReadAt
    <2> QED
      BY <1>4, <2>2 DEF ReadsWhole
  <1> QED
    BY <1>2, <1>5, <1>6 DEF e, s

\* All of a file is the file.
LEMMA WholeFile ==
    ASSUME NEW T, NEW file \in Seq(T)
    PROVE  SubSeq(file, 1, Len(file)) = file
  <1> DEFINE s == SubSeq(file, 1, Len(file))
  <1>1. Len(file) \in Nat /\ Len(file) \in 0..Len(file)
    BY LenProperties
  <1>2. s \in Seq(T) /\ Len(s) = Len(file) /\ \A j \in 1..Len(file) : s[j] = file[j]
    BY <1>1, PrefixIs
  <1> HIDE DEF s
  <1>3. s = file
    BY <1>2, SeqEqual
  <1> QED
    BY <1>3 DEF s

\* A file and one it begins with have the same prefixes.
LEMMA SamePart ==
    ASSUME NEW T, NEW file \in Seq(T), NEW g \in Seq(T), Len(file) <= Len(g),
           \A j \in 1..Len(file) : g[j] = file[j], NEW p \in 0..Len(file)
    PROVE  SubSeq(g, 1, p) = SubSeq(file, 1, p)
  <1> DEFINE s == SubSeq(file, 1, p)
             t == SubSeq(g, 1, p)
  <1>1. Len(file) \in Nat /\ Len(g) \in Nat /\ p \in 0..Len(g) /\ p \in Nat /\ p <= Len(file)
    BY LenProperties
  <1>2. s \in Seq(T) /\ Len(s) = p /\ \A j \in 1..p : s[j] = file[j]
    BY PrefixIs
  <1>3. t \in Seq(T) /\ Len(t) = p /\ \A j \in 1..p : t[j] = g[j]
    BY <1>1, PrefixIs
  <1> HIDE DEF s, t
  <1>4. \A j \in 1..p : t[j] = s[j]
    BY <1>1, <1>2, <1>3
  <1>5. t = s
    BY <1>2, <1>3, <1>4, SeqEqual
  <1> QED
    BY <1>5 DEF s, t

\* What a file that is read as a whole recovers.
LEMMA WholeRecovers ==
    ASSUME NEW file, NEW sz, Framed(file, sz), ReadsWhole(file)
    PROVE  RecoveredWrites(SubSeq(file, 1, Len(file))) = SealedUpTo(file, sz, Len(file))
  <1>1. file \in Seq(Frame)
    BY DEF Framed
  <1>2. Cut(file, Len(file)) = Len(file)
    BY DEF ReadsWhole, ReadPath, Cut
  <1> QED
    BY <1>1, <1>2, RecoversSealed, WholeFile

\* Recovery applies only attempts the file completes.
LEMMA RecoversOnlySealed ==
    ASSUME NEW file, NEW sz, Framed(file, sz)
    PROVE  RecoveredWrites(file) \subseteq SealedUpTo(file, sz, Len(file))
  <1>1. Len(file) \in Nat /\ Len(file) \in 0..Len(file)
    BY LenProperties DEF Framed
  <1>2. Cut(file, Len(file)) \in Nat /\ Cut(file, Len(file)) <= Len(file)
    <2>1. Cut(file, Len(file)) \in 0..Len(file)
      BY <1>1, CutMonotone
    <2> QED
      BY <1>1, <2>1
  <1>3. SealedUpTo(file, sz, Cut(file, Len(file))) \subseteq SealedUpTo(file, sz, Len(file))
    BY <1>1, <1>2 DEF SealedUpTo
  <1> QED
    BY <1>3, RecoversSealed

\* File g is another one and k frames that complete attempt w.
Continues(g, file, sz, w, k) ==
    /\ Framed(g, sz) /\ Len(g) \in Nat /\ Len(file) \in Nat /\ Len(file) < Len(g) /\ Len(g) = Len(file) + k
    /\ SealedUpTo(file, sz, Len(file)) \cup {w} \subseteq SealedUpTo(g, sz, Len(g))
    /\ \A p \in 0..Len(file) : SubSeq(g, 1, p) = SubSeq(file, 1, p)

\* An appended attempt is complete, and the others are what they were.
LEMMA AppendKeeps ==
    ASSUME NEW file, NEW sz, NEW w, NEW s, NEW n, Fits(file, sz, w, s, n),
           NEW g, g = file \o Frames(w, s, n)
    PROVE  Continues(g, file, sz, w, Len(Frames(w, s, n)))
  <1> DEFINE L == Len(file)
  <1>1. IsAppended(g, file, L, w, s, n) /\ Framed(g, sz)
    BY AppendedIs, AppendFramed
  <1>2. file \in Seq(Frame) /\ L \in Nat /\ w \in Nat /\ s \in Nat /\ n \in Nat /\ n > 0 /\ sz[w] = n
    BY LenProperties DEF Fits, Framed
  <1>3. Len(g) = L + Len(Frames(w, s, n))
    <2>1. Frames(w, s, n) \in Seq(Frame)
      BY <1>2, FramesAre DEF AreFrames
    <2> QED
      BY <1>2, <2>1, ConcatProperties
  <1>4. /\ g \in Seq(Frame) /\ Len(g) = L + (IF n = 1 THEN 1 ELSE n + 2)
        /\ \A j \in 1..L : g[j] = file[j]
    BY <1>1 DEF IsAppended
  <1>5. Len(g) \in Nat /\ L < Len(g)
    BY <1>2, <1>4
  <1>6. SealedUpTo(file, sz, L) \subseteq SealedUpTo(g, sz, Len(g))
    <2> SUFFICES ASSUME NEW v \in SealedUpTo(file, sz, L) PROVE v \in SealedUpTo(g, sz, Len(g))
      OBVIOUS
    <2>1. PICK j \in 1..L : file[j].w = v /\ Seals(file[j], sz)
      BY DEF SealedUpTo
    <2>2. j \in 1..Len(g) /\ g[j] = file[j]
      BY <1>2, <1>4, <1>5
    <2> QED
      BY <2>1, <2>2 DEF SealedUpTo
  <1>7. w \in SealedUpTo(g, sz, Len(g))
    <2>1. \E j \in 1..Len(g) : g[j].w = w /\ Seals(g[j], sz)
      <3>1. CASE n = 1
        <4>1. L + 1 \in 1..Len(g) /\ g[L + 1] = OpFrame(w, s + 1)
          BY <1>1, <1>2, <1>4, <3>1 DEF IsAppended
        <4>2. g[L + 1].w = w /\ Seals(g[L + 1], sz)
          BY <1>2, <3>1, <4>1 DEF OpFrame, Seals
        <4> QED
          BY <4>1, <4>2
      <3>2. CASE n > 1
        <4>1. L + n + 2 \in 1..Len(g) /\ g[L + n + 2] = Commit(w, s + 1, n)
          BY <1>1, <1>2, <1>4, <3>2 DEF IsAppended
        <4>2. g[L + n + 2].w = w /\ Seals(g[L + n + 2], sz)
          BY <4>1 DEF Commit, Seals
        <4> QED
          BY <4>1, <4>2
      <3> QED
        BY <1>2, <3>1, <3>2
    <2> QED
      BY <2>1 DEF SealedUpTo
  <1>8. \A p \in 0..L : SubSeq(g, 1, p) = SubSeq(file, 1, p)
    BY <1>2, <1>4, <1>5, SamePart
  <1> QED
    BY <1>1, <1>2, <1>3, <1>5, <1>6, <1>7, <1>8 DEF Continues

\* The sequence number replay continues from is one.
LEMMA RecoveredSeqNat ==
    ASSUME NEW file, NEW sz, Framed(file, sz)
    PROVE  RecoveredSeq(file) \in Nat
  <1> DEFINE a == Recovered(file)
  <1>1. a \in Seq(Frame)
    <2>1. PICK k : Reached(file, sz, Len(file), k) /\ a = Ops(file, k)
      BY RecoveryReads
    <2> QED
      BY <2>1 DEF Reached, InForm, StateOk, Applied
  <1> HIDE DEF a
  <1>2. Len(a) \in Nat /\ DOMAIN a = 1..Len(a) /\ \A j \in 1..Len(a) : a[j].seq \in Nat
    <2>1. Len(a) \in Nat /\ DOMAIN a = 1..Len(a)
      BY <1>1, LenProperties
    <2>2. ASSUME NEW j \in 1..Len(a) PROVE a[j].seq \in Nat
      <3>1. a[j] \in Frame
        BY <1>1, ElementOfSeq
      <3> QED
        BY <3>1 DEF Frame
    <2> QED
      BY <2>1, <2>2
  <1> DEFINE Q(i) == {0} \cup {a[j].seq : j \in 1..i}
             S == {i \in Nat : i <= Len(a) => \E m \in Q(i) : \A x \in Q(i) : m >= x}
  <1>3. 0 \in S
    <2>1. Q(0) = {0}
      OBVIOUS
    <2> QED
      BY <2>1
  <1>4. ASSUME NEW i \in S PROVE i + 1 \in S
    <2> SUFFICES ASSUME i + 1 <= Len(a) PROVE \E m \in Q(i + 1) : \A x \in Q(i + 1) : m >= x
      OBVIOUS
    <2>1. PICK m \in Q(i) : \A x \in Q(i) : m >= x
      BY <1>2
    <2>2. Q(i + 1) = Q(i) \cup {a[i + 1].seq} /\ Q(i) \subseteq Nat /\ a[i + 1].seq \in Nat
      <3>1. \A j \in 1..i : j \in 1..Len(a) /\ j \in 1..(i + 1)
        BY <1>2
      <3>2. i + 1 \in 1..Len(a) /\ i + 1 \in 1..(i + 1)
        BY <1>2
      <3>3. \A j \in 1..(i + 1) : j \in 1..i \/ j = i + 1
        OBVIOUS
      <3> QED
        BY <1>2, <3>1, <3>2, <3>3
    <2> HIDE DEF Q
    <2>3. CASE m >= a[i + 1].seq
      BY <2>1, <2>2, <2>3
    <2>4. CASE ~(m >= a[i + 1].seq)
      <3>1. \A x \in Q(i + 1) : a[i + 1].seq >= x
        BY <2>1, <2>2, <2>4
      <3> QED
        BY <2>2, <3>1
    <2> QED
      BY <2>3, <2>4
  <1>5. S = Nat
    <2> HIDE DEF S
    <2> QED
      BY <1>3, <1>4, Induction DEF S
  <1>6. {0} \cup {f.seq : f \in Range(a)} = Q(Len(a)) /\ Q(Len(a)) \subseteq Nat
    BY <1>2 DEF Range
  <1>7. \E m \in Q(Len(a)) : \A x \in Q(Len(a)) : m >= x
    <2>1. Len(a) \in S
      BY <1>2, <1>5
    <2> QED
      BY <1>2, <2>1
  <1> HIDE DEF Q, S
  <1>8. Max(Q(Len(a))) \in Q(Len(a))
    BY <1>7 DEF Max
  <1> QED
    BY <1>6, <1>8 DEF RecoveredSeq, a

-----------------------------------------------------------------------------
(* The inductive invariant *)

\* The file is framed, and the acknowledged attempts are complete in it.
Kept(file, s, sz, q, ack) ==
    /\ Framed(file, sz) /\ s \in 0..Len(file) /\ q \in Nat
    /\ ack \subseteq SealedUpTo(file, sz, Len(file))

\* A blocked write is the latest attempt and has written nothing.
Waits(file, sz, st, wr) ==
    /\ wr \subseteq [w : Nat, n : Nat, woken : BOOLEAN]
    /\ wr # {} => st = "open"
    /\ \A x \in wr : /\ x.w \in 1..Len(sz) /\ sz[x.w] = x.n /\ x.n > 0
                     /\ \A j \in 1..Len(file) : file[j].w < x.w

\* Under clean faults: what is written is read back as a whole, buffered_bytes is exactly
\* what no fsync has covered, and the promised attempts are in the fsynced part.
Durable(file, s, st, md, buf, prom) ==
    /\ st # "closed" => ReadsWhole(file)
    /\ (st # "closed" /\ md = "group") => buf = Len(file) - s
    /\ st = "closed" => s = Len(file)
    /\ prom \subseteq RecoveredWrites(SubSeq(file, 1, s))

WalInv ==
    /\ Kept(log, synced, sizes, engineSeq, acked)
    /\ Waits(log, sizes, status, writer)
    /\ thread => status # "closed"
    /\ CleanFaults => Durable(log, synced, status, mode, buffered, promised)

\* An empty log satisfies the invariant.
LEMMA InitInv == Init => WalInv
  <1> SUFFICES ASSUME Init PROVE WalInv
    OBVIOUS
  <1>1. log = <<>> /\ sizes = <<>> /\ synced = 0 /\ engineSeq = 0 /\ acked = {} /\ promised = {}
    BY DEF Init
  <1>2. log \in Seq(Frame) /\ sizes \in Seq(Nat) /\ Len(log) = 0 /\ Len(sizes) = 0
    BY <1>1, EmptySeq
  <1>3. Framed(log, sizes)
    BY <1>2 DEF Framed
  <1>4. Kept(log, synced, sizes, engineSeq, acked)
    BY <1>1, <1>2, <1>3 DEF Kept
  <1>5. Waits(log, sizes, status, writer)
    BY DEF Init, Waits
  <1>6. Durable(log, synced, status, mode, buffered, promised)
    BY <1>1, <1>2 DEF Init, Durable
  <1> QED
    BY <1>4, <1>5, <1>6 DEF WalInv, Init

\* The number an attempt is given.
LEMMA StartKeeps ==
    ASSUME WalInv, NEW n \in Sizes, Start(n)
    PROVE  /\ Fits(log, sizes', Len(sizes'), engineSeq, n)
           /\ Kept(log, synced, sizes', engineSeq, acked)
           /\ status = "open" /\ writer = {}
           /\ Len(sizes') \in Nat
           /\ \A st : Waits(log, sizes', st, {})
  <1>1. status = "open" /\ writer = {} /\ sizes' = Append(sizes, n)
    BY DEF Start, Idle
  <1>2. n \in Nat /\ n > 0
    BY WalAssumption DEF Sizes
  <1>3. Framed(log, sizes) /\ synced \in 0..Len(log) /\ engineSeq \in Nat /\ acked \subseteq SealedUpTo(log, sizes, Len(log))
    BY DEF WalInv, Kept
  <1>4. /\ Framed(log, sizes')
        /\ \A e \in 0..Len(log) : SealedUpTo(log, sizes', e) = SealedUpTo(log, sizes, e)
    BY <1>1, <1>2, <1>3, SizesGrow
  <1>5. Len(log) \in Nat /\ sizes \in Seq(Nat) /\ Len(sizes) \in Nat
    BY <1>3, LenProperties DEF Framed
  <1>6. Len(log) \in 0..Len(log)
    BY <1>5
  <1>7. Kept(log, synced, sizes', engineSeq, acked)
    BY <1>3, <1>4, <1>6 DEF Kept
  <1>8. Len(sizes') = Len(sizes) + 1 /\ sizes'[Len(sizes) + 1] = n
    BY <1>1, <1>2, <1>5, AppendProperties
  <1>9. \A j \in 1..Len(log) : log[j].w \in 1..Len(sizes)
    BY <1>3 DEF Framed
  <1>10. Fits(log, sizes', Len(sizes'), engineSeq, n)
    <2>1. Len(sizes') \in 1..Len(sizes') /\ sizes'[Len(sizes')] = n
      BY <1>5, <1>8
    <2>2. \A j \in 1..Len(log) : log[j].w < Len(sizes')
      BY <1>5, <1>8, <1>9
    <2> QED
      BY <1>2, <1>3, <1>4, <2>1, <2>2 DEF Fits
  <1>11. \A st : Waits(log, sizes', st, {})
    BY DEF Waits
  <1> QED
    BY <1>1, <1>5, <1>7, <1>8, <1>10, <1>11

\* A successful append.
LEMMA AppendOkKeeps ==
    ASSUME NEW w, NEW n, Fits(log, sizes', w, engineSeq, n), Kept(log, synced, sizes', engineSeq, acked),
           CleanFaults => Durable(log, synced, status, mode, buffered, promised),
           AppendOk(w, n), status = "open", UNCHANGED <<status, mode, model>>
    PROVE  /\ Kept(log', synced', sizes', engineSeq', acked')
           /\ CleanFaults' => Durable(log', synced', status', mode', buffered', promised')
  <1>1. log' = log \o Frames(w, engineSeq, n) /\ engineSeq' = engineSeq + n /\ acked' = acked \cup {w}
    BY DEF AppendOk
  <1>2. /\ Framed(log', sizes') /\ Len(log') \in Nat /\ Len(log) \in Nat /\ Len(log) < Len(log')
        /\ Len(log') = Len(log) + Len(Frames(w, engineSeq, n))
        /\ SealedUpTo(log, sizes', Len(log)) \cup {w} \subseteq SealedUpTo(log', sizes', Len(log'))
        /\ \A p \in 0..Len(log) : SubSeq(log', 1, p) = SubSeq(log, 1, p)
    <2>1. Continues(log', log, sizes', w, Len(Frames(w, engineSeq, n)))
      BY <1>1, AppendKeeps
    <2> QED
      BY <2>1 DEF Continues
  <1>3. engineSeq \in Nat /\ n \in Nat /\ synced \in 0..Len(log) /\ acked \subseteq SealedUpTo(log, sizes', Len(log))
    BY DEF Fits, Kept
  <1>4. \/ GroupCommit /\ buffered' = buffered + Len(Frames(w, engineSeq, n)) /\ synced' = synced /\ promised' = promised
        \/ ~GroupCommit /\ synced' = Len(log') /\ promised' = promised \cup {w}
    BY DEF AppendOk
  <1>5. Kept(log', synced', sizes', engineSeq', acked')
    <2>1. synced' \in 0..Len(log')
      BY <1>2, <1>3, <1>4
    <2>2. acked' \subseteq SealedUpTo(log', sizes', Len(log'))
      BY <1>1, <1>2, <1>3
    <2>3. engineSeq' \in Nat
      BY <1>1, <1>3
    <2> QED
      BY <1>2, <2>1, <2>2, <2>3 DEF Kept
  <1>6. ASSUME CleanFaults PROVE Durable(log', synced', status', mode', buffered', promised')
    <2>1. Durable(log, synced, status, mode, buffered, promised)
      BY <1>6
    <2>2. ReadsWhole(log')
      <3>1. ReadsWhole(log)
        BY <2>1 DEF Durable
      <3> QED
        BY <1>1, <3>1, AppendReadsWhole
    <2>3. promised \subseteq RecoveredWrites(SubSeq(log', 1, synced))
      <3>1. SubSeq(log', 1, synced) = SubSeq(log, 1, synced)
        BY <1>2, <1>3
      <3> QED
        BY <2>1, <3>1 DEF Durable
    <2>4. CASE GroupCommit /\ buffered' = buffered + Len(Frames(w, engineSeq, n)) /\ synced' = synced /\ promised' = promised
      <3>1. buffered = Len(log) - synced
        BY <2>1, <2>4 DEF Durable, GroupCommit
      <3>2. buffered' = Len(log') - synced'
        <4> DEFINE k == Len(Frames(w, engineSeq, n))
        <4>1. k \in Nat
          <5>1. Frames(w, engineSeq, n) \in Seq(Frame)
            <6>1. w \in Nat /\ n > 0
              BY LenProperties DEF Fits, Framed
            <6> QED
              BY <1>3, <6>1, FramesAre DEF AreFrames
          <5> QED
            BY <5>1, LenProperties
        <4>2. buffered' = buffered + k /\ Len(log') = Len(log) + k
          BY <1>2, <2>4
        <4> HIDE DEF k
        <4> QED
          BY <1>2, <1>3, <2>4, <3>1, <4>1, <4>2
      <3> QED
        BY <2>2, <2>3, <2>4, <3>2 DEF Durable
    <2>5. CASE ~GroupCommit /\ synced' = Len(log') /\ promised' = promised \cup {w}
      <3>1. RecoveredWrites(SubSeq(log', 1, synced')) = SealedUpTo(log', sizes', Len(log'))
        BY <1>2, <2>2, <2>5, WholeRecovers
      <3>2. RecoveredWrites(SubSeq(log', 1, synced)) \subseteq RecoveredWrites(SubSeq(log', 1, synced'))
        <4>1. synced \in 0..Len(log') /\ synced' \in 0..Len(log') /\ synced <= synced'
          BY <1>2, <1>3, <2>5
        <4> QED
          BY <1>2, <4>1, RecoversMore
      <3>3. promised' \subseteq RecoveredWrites(SubSeq(log', 1, synced'))
        BY <1>2, <2>3, <2>5, <3>1, <3>2
      <3> QED
        BY <2>2, <2>5, <3>3 DEF Durable, GroupCommit
    <2> QED
      BY <1>4, <2>4, <2>5
  <1> QED
    BY <1>5, <1>6 DEF CleanFaults

\* A write that goes through.
LEMMA WriteKeeps ==
    ASSUME WalInv, NEW n \in Sizes, Write(n)
    PROVE  WalInv'
  <1>1. Start(n) /\ AppendOk(Len(sizes'), n) /\ UNCHANGED <<status, mode, thread, writer, model>>
    BY DEF Write, boundVars
  <1>2. /\ Fits(log, sizes', Len(sizes'), engineSeq, n) /\ Kept(log, synced, sizes', engineSeq, acked)
        /\ status = "open" /\ writer = {}
    BY <1>1, StartKeeps
  <1>3. /\ Kept(log', synced', sizes', engineSeq', acked')
        /\ CleanFaults' => Durable(log', synced', status', mode', buffered', promised')
    <2>1. CleanFaults => Durable(log, synced, status, mode, buffered, promised)
      BY DEF WalInv
    <2>2. UNCHANGED <<status, mode, model>>
      BY <1>1
    <2> QED
      BY <1>1, <1>2, <2>1, <2>2, AppendOkKeeps
  <1>4. Waits(log', sizes', status', writer')
    BY <1>1, <1>2 DEF Waits
  <1> QED
    BY <1>1, <1>2, <1>3, <1>4 DEF WalInv

\* A write that is refused, or blocked at the hard cap, changes only the numbering.
LEMMA WaitKeeps ==
    ASSUME WalInv, NEW n \in Sizes, WriteRejected(n) \/ WriteBlocks(n)
    PROVE  WalInv'
  <1>1. /\ Start(n) /\ (writer' = writer \/ writer' = {[w |-> Len(sizes'), n |-> n, woken |-> FALSE]})
        /\ UNCHANGED <<log, synced, status, mode, engineSeq, buffered, thread, acked, promised, model>>
    BY DEF WriteRejected, WriteBlocks, boundVars, syncVars
  <1>2. /\ Fits(log, sizes', Len(sizes'), engineSeq, n) /\ Kept(log, synced, sizes', engineSeq, acked)
        /\ status = "open" /\ writer = {} /\ Len(sizes') \in Nat
    BY <1>1, StartKeeps
  <1>3. Waits(log, sizes', status, writer')
    <2>1. n \in Nat /\ n > 0 /\ Len(sizes') \in 1..Len(sizes') /\ sizes'[Len(sizes')] = n
      BY <1>2 DEF Fits
    <2>2. \A j \in 1..Len(log) : log[j].w < Len(sizes')
      BY <1>2 DEF Fits
    <2>3. \A x \in writer' : x = [w |-> Len(sizes'), n |-> n, woken |-> FALSE]
      BY <1>1, <1>2
    <2>4. writer' \subseteq [w : Nat, n : Nat, woken : BOOLEAN]
      <3> DEFINE v == [w |-> Len(sizes'), n |-> n, woken |-> FALSE]
      <3>1. v \in [w : Nat, n : Nat, woken : BOOLEAN]
        BY <1>2, <2>1
      <3> HIDE DEF v
      <3>2. \A x \in writer' : x = v
        BY <2>3 DEF v
      <3> QED
        BY <3>1, <3>2
    <2> QED
      BY <1>2, <2>1, <2>2, <2>3, <2>4 DEF Waits
  <1>4. CleanFaults' <=> CleanFaults
    BY <1>1 DEF CleanFaults
  <1> QED
    BY <1>1, <1>2, <1>3, <1>4 DEF WalInv

\* A file that another one begins with.
Extends(g, file) ==
    /\ g \in Seq(Frame) /\ file \in Seq(Frame) /\ Len(file) <= Len(g)
    /\ \A j \in 1..Len(file) : g[j] = file[j]

\* A longer file completes what the shorter one does.
LEMMA LongerSeals ==
    ASSUME NEW file, NEW g, NEW sz, Extends(g, file)
    PROVE  SealedUpTo(file, sz, Len(file)) \subseteq SealedUpTo(g, sz, Len(g))
  <1> SUFFICES ASSUME NEW v \in SealedUpTo(file, sz, Len(file)) PROVE v \in SealedUpTo(g, sz, Len(g))
    OBVIOUS
  <1>1. Len(file) \in Nat /\ Len(g) \in Nat /\ Len(file) <= Len(g) /\ \A j \in 1..Len(file) : g[j] = file[j]
    BY LenProperties DEF Extends
  <1>2. PICK j \in 1..Len(file) : file[j].w = v /\ Seals(file[j], sz)
    BY DEF SealedUpTo
  <1>3. j \in 1..Len(g) /\ g[j] = file[j]
    BY <1>1
  <1> QED
    BY <1>2, <1>3 DEF SealedUpTo

\* An append that fails half-way, with a torn frame or without.
LEMMA HalfAppended ==
    ASSUME NEW file, NEW sz, NEW w, NEW s, NEW n, Fits(file, sz, w, s, n),
           NEW k \in 0..(Len(Frames(w, s, n)) - 1), NEW tail \in {<<>>, <<Torn(w)>>},
           NEW g, g = file \o SubSeq(Frames(w, s, n), 1, k) \o tail
    PROVE  Framed(g, sz) /\ Extends(g, file)
  <1> DEFINE F == Frames(w, s, n)
             L == Len(file)
             all == file \o F
             h == file \o SubSeq(F, 1, k)
  <1>1. /\ file \in Seq(Frame) /\ L \in Nat /\ w \in Nat /\ s \in Nat /\ n \in Nat /\ n > 0
        /\ w \in 1..Len(sz) /\ (\A j \in 1..L : file[j].w < w) /\ Len(sz) \in Nat
    BY LenProperties DEF Fits, Framed
  <1>2. F \in Seq(Frame) /\ Len(F) \in Nat
    BY <1>1, FramesAre, LenProperties DEF AreFrames
  <1>3. IsAppended(all, file, L, w, s, n) /\ Framed(all, sz) /\ Len(all) = L + Len(F)
    BY <1>1, <1>2, AppendedIs, AppendFramed, ConcatProperties
  <1>4. k \in Nat /\ k \in 0..Len(F) /\ L + k \in 0..Len(all)
    BY <1>1, <1>2, <1>3
  <1>5. h = SubSeq(all, 1, L + k)
    <2> HIDE DEF F
    <2> QED
      BY <1>1, <1>2, <1>4, PartOfAppend
  <1>6. all \in Seq(Frame) /\ (\A j \in 1..L : all[j] = file[j]) /\ \A j \in (L + 1)..Len(all) : all[j].w = w
    BY <1>3 DEF IsAppended
  <1> HIDE DEF all, F, L
  <1>7. Framed(h, sz)
    BY <1>3, <1>4, <1>5, PrefixFramed
  <1>8. h \in Seq(Frame) /\ Len(h) = L + k /\ \A j \in 1..(L + k) : h[j] = all[j]
    BY <1>4, <1>5, <1>6, PrefixIs
  <1> HIDE DEF h
  <1>9. \A j \in 1..Len(h) : h[j].w <= w
    <2> SUFFICES ASSUME NEW j \in 1..Len(h) PROVE h[j].w <= w
      OBVIOUS
    <2>1. h[j] = all[j]
      BY <1>8
    <2>2. CASE j \in 1..L
      <3>1. file[j].w \in Nat /\ file[j].w < w
        <4>1. file[j] \in Frame
          BY <1>1, <2>2, ElementOfSeq DEF L
        <4> QED
          BY <1>1, <2>2, <4>1 DEF Frame
      <3> QED
        BY <1>1, <1>6, <2>1, <2>2, <3>1
    <2>3. CASE j \in (L + 1)..Len(all)
      BY <1>1, <1>6, <2>1, <2>3
    <2>4. j \in 1..L \/ j \in (L + 1)..Len(all)
      BY <1>1, <1>2, <1>3, <1>4, <1>8
    <2> QED
      BY <2>2, <2>3, <2>4
  <1>10. Extends(h, file)
    <2>1. L <= Len(h) /\ \A j \in 1..L : h[j] = file[j]
      <3>1. L <= Len(h)
        BY <1>1, <1>4, <1>8
      <3>2. ASSUME NEW j \in 1..L PROVE h[j] = file[j]
        <4>1. j \in 1..(L + k)
          BY <1>1, <1>4
        <4>2. h[j] = all[j]
          BY <1>8, <4>1
        <4> QED
          BY <1>6, <4>2
      <3> QED
        BY <3>1, <3>2
    <2> QED
      BY <1>1, <1>8, <2>1 DEF Extends, L
  <1>11. g = h \o tail
    BY DEF h, F
  <1>12. CASE tail = <<>>
    <2>1. h \o <<>> = h
      BY <1>8, ConcatEmptySeq
    <2>2. g = h
      BY <1>11, <1>12, <2>1
    <2> QED
      BY <1>7, <1>10, <2>2
  <1>13. CASE tail = <<Torn(w)>>
    <2>1. Framed(g, sz)
      BY <1>1, <1>7, <1>9, <1>11, <1>13, TornFramed
    <2>2. Torn(w) \in Frame
      BY <1>1 DEF Torn, Frame
    <2> DEFINE T == <<Torn(w)>>
    <2>3. T \in Seq(Frame) /\ Len(T) = 1
      BY <2>2
    <2> HIDE DEF T
    <2>4. /\ h \o T \in Seq(Frame) /\ Len(h \o T) = Len(h) + Len(T)
          /\ \A j \in 1..(Len(h) + Len(T)) : (h \o T)[j] = IF j <= Len(h) THEN h[j] ELSE T[j - Len(h)]
      BY <1>8, <2>3, ConcatProperties
    <2>5. g = h \o T
      BY <1>11, <1>13 DEF T
    <2>6. Len(g) = Len(h) + 1 /\ Len(h) \in Nat /\ \A j \in 1..Len(h) : g[j] = h[j]
      <3>1. Len(h) \in Nat
        BY <1>1, <1>4, <1>8
      <3>2. Len(g) = Len(h) + 1
        BY <2>3, <2>4, <2>5
      <3>3. ASSUME NEW j \in 1..Len(h) PROVE g[j] = h[j]
        <4>1. j \in 1..(Len(h) + Len(T)) /\ j <= Len(h)
          BY <2>3, <3>1
        <4> QED
          BY <2>4, <2>5, <4>1
      <3> QED
        BY <3>1, <3>2, <3>3
    <2>7. Extends(g, file)
      <3>1. Len(file) \in Nat /\ Len(file) <= Len(h) /\ \A j \in 1..Len(file) : h[j] = file[j]
        BY <1>1, <1>10 DEF Extends, L
      <3>2. Len(file) <= Len(g) /\ \A j \in 1..Len(file) : g[j] = file[j]
        BY <2>6, <3>1
      <3> QED
        BY <1>1, <2>4, <2>5, <3>2 DEF Extends
    <2> QED
      BY <2>1, <2>7
  <1> QED
    BY <1>12, <1>13

\* A failed append: under clean faults it leaves nothing in the file.
LEMMA AppendFailsKeeps ==
    ASSUME WalInv, NEW n \in Sizes, AppendFails(n)
    PROVE  WalInv'
  <1>1. /\ Start(n) /\ UNCHANGED <<synced, status, mode, engineSeq, buffered, thread, writer, acked, promised, model>>
        /\ \/ log' = log
           \/ /\ model.torn
              /\ \E k \in 0..(Len(Frames(Len(sizes'), engineSeq, n)) - 1), tail \in {<<>>, <<Torn(Len(sizes'))>>} :
                    log' = log \o SubSeq(Frames(Len(sizes'), engineSeq, n), 1, k) \o tail
    BY DEF AppendFails, Fault, syncVars
  <1>2. /\ Fits(log, sizes', Len(sizes'), engineSeq, n) /\ Kept(log, synced, sizes', engineSeq, acked)
        /\ status = "open" /\ writer = {}
    BY <1>1, StartKeeps
  <1>3. Waits(log', sizes', status', writer')
    BY <1>1, <1>2 DEF Waits
  <1>4. CleanFaults' <=> CleanFaults
    BY <1>1 DEF CleanFaults
  <1>5. CASE log' = log
    BY <1>1, <1>2, <1>3, <1>4, <1>5 DEF WalInv
  <1>6. CASE log' # log
    <2>1. ~CleanFaults
      BY <1>1, <1>6 DEF CleanFaults
    <2>2. Framed(log', sizes') /\ Extends(log', log)
      BY <1>1, <1>2, <1>6, HalfAppended
    <2>3. Kept(log', synced, sizes', engineSeq, acked)
      <3>1. SealedUpTo(log, sizes', Len(log)) \subseteq SealedUpTo(log', sizes', Len(log'))
        BY <2>2, LongerSeals
      <3>2. Len(log) \in Nat /\ Len(log') \in Nat /\ Len(log) <= Len(log')
        BY <2>2, LenProperties DEF Extends
      <3>3. synced \in 0..Len(log')
        BY <1>2, <3>2 DEF Kept
      <3> QED
        BY <1>2, <2>2, <3>1, <3>3 DEF Kept
    <2> QED
      BY <1>1, <1>2, <1>3, <1>4, <2>1, <2>3 DEF WalInv
  <1> QED
    BY <1>5, <1>6

\* Immediate mode: the frames of a write whose fsync failed stay, unacknowledged.
LEMMA ImmediateSyncFailsKeeps ==
    ASSUME WalInv, NEW n \in Sizes, ImmediateSyncFails(n)
    PROVE  WalInv'
  <1>1. /\ Start(n) /\ UNCHANGED <<synced, status, mode, engineSeq, buffered, thread, writer, acked, promised, model>>
        /\ log' = log \o Frames(Len(sizes'), engineSeq, n) /\ mode # "group"
    BY DEF ImmediateSyncFails, Fault, syncVars, GroupCommit
  <1>2. /\ Fits(log, sizes', Len(sizes'), engineSeq, n) /\ Kept(log, synced, sizes', engineSeq, acked)
        /\ status = "open" /\ writer = {}
    BY <1>1, StartKeeps
  <1>3. Waits(log', sizes', status', writer')
    BY <1>1, <1>2 DEF Waits
  <1>4. Continues(log', log, sizes', Len(sizes'), Len(Frames(Len(sizes'), engineSeq, n)))
    BY <1>1, <1>2, AppendKeeps
  <1>5. Kept(log', synced, sizes', engineSeq, acked)
    <2>1. /\ Framed(log', sizes') /\ Len(log') \in Nat /\ Len(log) \in Nat /\ Len(log) < Len(log')
          /\ SealedUpTo(log, sizes', Len(log)) \subseteq SealedUpTo(log', sizes', Len(log'))
      BY <1>4 DEF Continues
    <2>2. synced \in 0..Len(log')
      BY <1>2, <2>1 DEF Kept
    <2> QED
      BY <1>2, <2>1, <2>2 DEF Kept
  <1>6. ASSUME CleanFaults PROVE Durable(log', synced', status', mode', buffered', promised')
    <2>1. Durable(log, synced, status, mode, buffered, promised)
      BY <1>6 DEF WalInv
    <2>2. ReadsWhole(log')
      BY <1>1, <1>2, <2>1, AppendReadsWhole DEF Durable
    <2>3. SubSeq(log', 1, synced) = SubSeq(log, 1, synced)
      <3>1. synced \in 0..Len(log)
        BY <1>2 DEF Kept
      <3> QED
        BY <1>4, <3>1 DEF Continues
    <2> QED
      BY <1>1, <1>2, <2>1, <2>2, <2>3 DEF Durable
  <1>7. CleanFaults' <=> CleanFaults
    BY <1>1 DEF CleanFaults
  <1> QED
    BY <1>1, <1>2, <1>3, <1>5, <1>6, <1>7 DEF WalInv

\* notify_all leaves the blocked write what it is.
LEMMA NotifiedWaits ==
    ASSUME Waits(log, sizes, status, writer)
    PROVE  Waits(log, sizes, status, Notified)
  <1>1. ASSUME NEW y \in Notified
        PROVE  y \in [w : Nat, n : Nat, woken : BOOLEAN] /\ \E x \in writer : y.w = x.w /\ y.n = x.n
    <2>1. PICK x \in writer : y = [x EXCEPT !.woken = TRUE]
      BY DEF Notified
    <2>2. x \in [w : Nat, n : Nat, woken : BOOLEAN]
      BY DEF Waits
    <2>3. y \in [w : Nat, n : Nat, woken : BOOLEAN] /\ y.w = x.w /\ y.n = x.n
      BY <2>1, <2>2
    <2> QED
      BY <2>3
  <1>2. Notified \subseteq [w : Nat, n : Nat, woken : BOOLEAN]
    BY <1>1
  <1>3. Notified # {} => status = "open"
    BY <1>1 DEF Waits
  <1>4. ASSUME NEW y \in Notified
        PROVE  /\ y.w \in 1..Len(sizes) /\ sizes[y.w] = y.n /\ y.n > 0
               /\ \A j \in 1..Len(log) : log[j].w < y.w
    BY <1>1, <1>4 DEF Waits
  <1> QED
    BY <1>2, <1>3, <1>4 DEF Waits

\* The blocked write returns the poison, waits again or appends.
LEMMA WriterWakesKeeps ==
    ASSUME WalInv, WriterWakes
    PROVE  WalInv'
  <1>1. PICK x \in writer :
          /\ UNCHANGED <<status, mode, thread, sizes, model>>
          /\ \/ /\ writer' = {} \/ writer' = {[x EXCEPT !.woken = FALSE]}
                /\ UNCHANGED <<log, synced, engineSeq, buffered, acked, promised>>
             \/ writer' = {} /\ AppendOk(x.w, x.n)
    BY DEF WriterWakes, boundVars
  <1>2. Waits(log, sizes, status, writer) /\ Kept(log, synced, sizes, engineSeq, acked)
    BY DEF WalInv
  <1>3. /\ x \in [w : Nat, n : Nat, woken : BOOLEAN] /\ status = "open"
        /\ x.w \in 1..Len(sizes) /\ sizes[x.w] = x.n /\ x.n > 0 /\ \A j \in 1..Len(log) : log[j].w < x.w
    BY <1>2 DEF Waits
  <1>4. CleanFaults' <=> CleanFaults
    BY <1>1 DEF CleanFaults
  <1>5. CASE /\ writer' = {} \/ writer' = {[x EXCEPT !.woken = FALSE]}
             /\ UNCHANGED <<log, synced, engineSeq, buffered, acked, promised>>
    <2>1. Waits(log, sizes, status, writer')
      <3>1. CASE writer' = {}
        BY <3>1 DEF Waits
      <3>2. CASE writer' = {[x EXCEPT !.woken = FALSE]}
        <4> DEFINE y == [x EXCEPT !.woken = FALSE]
        <4>1. y \in [w : Nat, n : Nat, woken : BOOLEAN] /\ y.w = x.w /\ y.n = x.n
          BY <1>3
        <4> HIDE DEF y
        <4>2. writer' = {y}
          BY <3>2 DEF y
        <4> QED
          BY <1>3, <4>1, <4>2 DEF Waits
      <3> QED
        BY <1>5, <3>1, <3>2
    <2>2. Waits(log', sizes', status', writer')
      BY <1>1, <1>5, <2>1
    <2>3. Kept(log', synced', sizes', engineSeq', acked')
      BY <1>1, <1>2, <1>5
    <2>4. CleanFaults' => Durable(log', synced', status', mode', buffered', promised')
      BY <1>1, <1>4, <1>5 DEF WalInv
    <2> QED
      BY <1>1, <1>3, <2>2, <2>3, <2>4 DEF WalInv
  <1>6. CASE writer' = {} /\ AppendOk(x.w, x.n)
    <2>1. sizes' = sizes /\ UNCHANGED <<status, mode, model>>
      BY <1>1
    <2>2. Fits(log, sizes', x.w, engineSeq, x.n) /\ Kept(log, synced, sizes', engineSeq, acked)
      BY <1>2, <1>3, <2>1 DEF Fits, Kept
    <2>3. CleanFaults => Durable(log, synced, status, mode, buffered, promised)
      BY DEF WalInv
    <2>4. /\ Kept(log', synced', sizes', engineSeq', acked')
          /\ CleanFaults' => Durable(log', synced', status', mode', buffered', promised')
      BY <1>3, <1>6, <2>1, <2>2, <2>3, AppendOkKeeps
    <2>5. Waits(log', sizes', status', writer')
      BY <1>6 DEF Waits
    <2> QED
      BY <1>1, <1>3, <2>4, <2>5 DEF WalInv
  <1> QED
    BY <1>1, <1>5, <1>6

\* An fsync, or one that has nothing to cover, makes every acknowledged write durable.
LEMMA AllDurable ==
    ASSUME WalInv, CleanFaults, status # "closed", NEW st, NEW md, NEW buf,
           NEW s, s = Len(log), buf = 0
    PROVE  Durable(log, s, st, md, buf, acked)
  <1>1. Framed(log, sizes) /\ acked \subseteq SealedUpTo(log, sizes, Len(log)) /\ ReadsWhole(log)
    BY DEF WalInv, Kept, Durable
  <1>2. acked \subseteq RecoveredWrites(SubSeq(log, 1, s))
    BY <1>1, WholeRecovers
  <1>3. Len(log) \in Nat
    BY <1>1, LenProperties DEF Framed
  <1> QED
    BY <1>1, <1>2, <1>3 DEF Durable

\* sync() and the thread's fsync.
LEMMA SyncKeeps ==
    ASSUME WalInv, Sync \/ Tick
    PROVE  WalInv'
  <1>1. /\ UNCHANGED <<log, status, mode, engineSeq, sizes, acked, model>> /\ status # "closed"
        /\ thread' => status # "closed"
        /\ \/ synced' = Len(log) /\ promised' = acked /\ buffered' = 0 /\ writer' = Notified
           \/ /\ GroupCommit /\ buffered = 0 /\ promised' = acked
              /\ UNCHANGED <<synced, buffered, writer>>
           \/ UNCHANGED <<synced, promised, buffered, writer>>
    <2>1. CASE Sync
      BY <2>1 DEF Sync, SyncOk, Idle, boundVars
    <2>2. CASE Tick
      BY <2>2 DEF Tick, SyncOk, boundVars, WalInv
    <2> QED
      BY <2>1, <2>2
  <1>2. Kept(log, synced, sizes, engineSeq, acked) /\ Waits(log, sizes, status, writer) /\ Len(log) \in Nat
    BY LenProperties DEF WalInv, Kept, Framed
  <1>3. Waits(log', sizes', status', writer')
    <2>1. Waits(log, sizes, status, writer')
      BY <1>1, <1>2, NotifiedWaits
    <2> QED
      BY <1>1, <2>1
  <1>4. Kept(log', synced', sizes', engineSeq', acked')
    <2>1. synced' \in 0..Len(log)
      BY <1>1, <1>2 DEF Kept
    <2> QED
      BY <1>1, <1>2, <2>1 DEF Kept
  <1>5. CleanFaults' <=> CleanFaults
    BY <1>1 DEF CleanFaults
  <1>6. ASSUME CleanFaults PROVE Durable(log', synced', status', mode', buffered', promised')
    <2>0. Durable(log, synced, status, mode, buffered, promised)
      BY <1>6 DEF WalInv
    <2>1. CASE synced' = Len(log) /\ promised' = acked /\ buffered' = 0
      <3>1. Durable(log, synced', status, mode, buffered', acked)
        BY <1>1, <1>6, <2>1, AllDurable
      <3> QED
        BY <1>1, <2>1, <3>1
    <2>2. CASE GroupCommit /\ buffered = 0 /\ promised' = acked /\ UNCHANGED <<synced, buffered>>
      <3>1. synced = Len(log)
        <4>1. buffered = Len(log) - synced /\ synced \in 0..Len(log)
          BY <1>1, <1>2, <2>0, <2>2 DEF Durable, GroupCommit, Kept
        <4> QED
          BY <1>2, <2>2, <4>1
      <3>2. Durable(log, synced, status, mode, buffered, acked)
        BY <1>1, <1>6, <2>2, <3>1, AllDurable
      <3> QED
        BY <1>1, <2>2, <3>2
    <2>3. CASE UNCHANGED <<synced, promised, buffered>>
      BY <1>1, <2>0, <2>3
    <2> QED
      BY <1>1, <2>1, <2>2, <2>3
  <1> QED
    BY <1>1, <1>3, <1>4, <1>5, <1>6 DEF WalInv

\* A failed fsync moves nothing in the file; close() asks the thread to end.
LEMMA TickFailsKeeps ==
    ASSUME WalInv, TickFails \/ Close
    PROVE  WalInv'
  <1>1. /\ UNCHANGED <<log, synced, mode, engineSeq, buffered, sizes, acked, promised, model>>
        /\ writer' = writer \/ writer' = Notified
        /\ status # "closed" /\ status' # "closed"
        /\ status' = status \/ writer' = {}
    <2>1. CASE TickFails
      BY <2>1 DEF TickFails, Fault, histVars, WalInv
    <2>2. CASE Close
      BY <2>2 DEF Close, Idle, histVars, boundVars
    <2> QED
      BY <2>1, <2>2
  <1>2. Waits(log', sizes', status', writer')
    <2>1. CASE status' = status
      <3>1. Waits(log, sizes, status, writer')
        BY <1>1, NotifiedWaits DEF WalInv
      <3> QED
        BY <1>1, <2>1, <3>1
    <2>2. CASE writer' = {}
      BY <2>2 DEF Waits
    <2> QED
      BY <1>1, <2>1, <2>2
  <1>3. Kept(log', synced', sizes', engineSeq', acked')
    BY <1>1 DEF WalInv
  <1>4. CleanFaults' => Durable(log', synced', status', mode', buffered', promised')
    BY <1>1 DEF CleanFaults, WalInv, Durable
  <1> QED
    BY <1>1, <1>2, <1>3, <1>4 DEF WalInv

\* A clean shutdown leaves everything fsynced.
LEMMA CloseEndsKeeps ==
    ASSUME WalInv, CloseEnds
    PROVE  WalInv'
  <1>1. /\ UNCHANGED <<log, mode, engineSeq, thread, writer, sizes, acked, model>>
        /\ status = "closing" /\ ~thread /\ status' = "closed" /\ buffered' = 0 /\ promised' = acked
        /\ synced' = Len(log) \/ (GroupCommit /\ buffered = 0 /\ synced' = synced)
    BY DEF CloseEnds
  <1>2. Kept(log, synced, sizes, engineSeq, acked) /\ Waits(log, sizes, status, writer) /\ Len(log) \in Nat
    BY LenProperties DEF WalInv, Kept, Framed
  <1>3. Waits(log', sizes', status', writer')
    <2>1. writer' = {}
      BY <1>1, <1>2 DEF Waits
    <2> QED
      BY <2>1 DEF Waits
  <1>4. Kept(log', synced', sizes', engineSeq', acked')
    <2>1. synced' \in 0..Len(log)
      BY <1>1, <1>2 DEF Kept
    <2> QED
      BY <1>1, <1>2, <2>1 DEF Kept
  <1>5. CleanFaults' <=> CleanFaults
    BY <1>1 DEF CleanFaults
  <1>6. ASSUME CleanFaults PROVE Durable(log', synced', status', mode', buffered', promised')
    <2>1. synced' = Len(log)
      <3>1. Durable(log, synced, status, mode, buffered, promised)
        BY <1>6 DEF WalInv
      <3>2. (GroupCommit /\ buffered = 0) => synced = Len(log)
        <4>1. GroupCommit => buffered = Len(log) - synced
          BY <1>1, <3>1 DEF Durable, GroupCommit
        <4>2. synced \in 0..Len(log)
          BY <1>2 DEF Kept
        <4> QED
          BY <1>2, <4>1, <4>2
      <3> QED
        BY <1>1, <3>2
    <2>2. Durable(log, synced', "closed", mode', buffered', acked)
      BY <1>1, <1>6, <2>1, AllDurable
    <2> QED
      BY <1>1, <2>2
  <1> QED
    BY <1>1, <1>3, <1>4, <1>5, <1>6 DEF WalInv

\* What a crash leaves of the file: a prefix, its last frame maybe torn.
LEMMA CrashedFile ==
    ASSUME NEW file, NEW sz, Framed(file, sz), NEW p \in 0..Len(file), NEW g,
           \/ g = SubSeq(file, 1, p)
           \/ p < Len(file) /\ g = SubSeq(file, 1, p) \o <<Torn(file[p + 1].w)>>
    PROVE  Framed(g, sz) /\ p <= Len(g)
  <1> DEFINE h == SubSeq(file, 1, p)
  <1>1. file \in Seq(Frame) /\ Len(file) \in Nat
    BY LenProperties DEF Framed
  <1>2. h \in Seq(Frame) /\ Len(h) = p /\ (\A j \in 1..p : h[j] = file[j]) /\ Framed(h, sz)
    BY <1>1, PrefixIs, PrefixFramed
  <1> HIDE DEF h
  <1>3. CASE g = h
    BY <1>1, <1>2, <1>3
  <1>4. CASE p < Len(file) /\ g = h \o <<Torn(file[p + 1].w)>>
    <2> DEFINE w == file[p + 1].w
    <2>1. p + 1 \in 1..Len(file)
      BY <1>1, <1>4
    <2>2. w \in 1..Len(sz)
      BY <2>1 DEF Framed
    <2>3. ASSUME NEW j \in 1..Len(h) PROVE h[j].w <= w
      <3>1. j \in 1..Len(file) /\ j <= p + 1 /\ h[j] = file[j]
        BY <1>1, <1>2
      <3> QED
        BY <2>1, <3>1 DEF Framed
    <2>4. Framed(h \o <<Torn(w)>>, sz)
      <3> HIDE DEF w
      <3> QED
        BY <1>2, <2>2, <2>3, TornFramed
    <2>5. p <= Len(g)
      <3> DEFINE T == <<Torn(w)>>
      <3>1. T \in Seq(Frame) /\ Len(T) = 1
        <4>1. Torn(w) \in Frame
          <5>1. w \in Nat
            <6>1. file[p + 1] \in Frame
              BY <1>1, <2>1, ElementOfSeq
            <6> QED
              BY <6>1 DEF Frame
          <5> HIDE DEF w
          <5> QED
            BY <5>1 DEF Torn, Frame
        <4> QED
          BY <4>1
      <3>2. g = h \o T
        BY <1>4
      <3> HIDE DEF T
      <3>3. Len(h \o T) = Len(h) + Len(T)
        BY <1>2, <3>1, ConcatProperties
      <3> QED
        BY <1>1, <1>2, <3>1, <3>2, <3>3
    <2> QED
      BY <1>4, <2>4, <2>5
  <1> QED
    BY <1>3, <1>4 DEF h

\* The process dies or the power fails.
LEMMA CrashKeeps ==
    ASSUME WalInv, Crash \/ CloseFails
    PROVE  WalInv'
  <1>1. PICK p \in synced..Len(log) :
          /\ \/ log' = SubSeq(log, 1, p)
             \/ p < Len(log) /\ log' = SubSeq(log, 1, p) \o <<Torn(log[p + 1].w)>>
          /\ acked' = acked \cap RecoveredWrites(log')
          /\ \/ synced' = Len(log') /\ promised' = acked'
             \/ "process" \in model.crashes /\ synced' = synced
    BY DEF Crash, CloseFails
  <1>2. UNCHANGED <<sizes, model>> /\ status' = "closed" /\ (engineSeq' = 0 \/ engineSeq' = engineSeq)
    BY DEF Crash, CloseFails, Fault
  <1>3. ~thread' /\ writer' = {}
    <2>1. CASE Crash
      BY <2>1 DEF Crash
    <2>2. CASE CloseFails
      <3>1. status = "closing" /\ ~thread /\ UNCHANGED <<thread, writer>>
        BY <2>2 DEF CloseFails
      <3>2. Waits(log, sizes, status, writer)
        BY DEF WalInv
      <3> QED
        BY <3>1, <3>2 DEF Waits
    <2> QED
      BY <2>1, <2>2
  <1>4. /\ Framed(log, sizes) /\ Len(log) \in Nat /\ synced \in 0..Len(log) /\ engineSeq \in Nat
    BY LenProperties DEF WalInv, Kept, Framed
  <1>5. p \in 0..Len(log) /\ synced <= p
    BY <1>4
  <1>6. Framed(log', sizes) /\ p <= Len(log')
    BY <1>1, <1>4, <1>5, CrashedFile
  <1>7. log' \in Seq(Frame) /\ Len(log') \in Nat
    BY <1>6, LenProperties DEF Framed
  <1>8. Kept(log', synced', sizes', engineSeq', acked')
    <2>1. synced' \in 0..Len(log')
      BY <1>1, <1>4, <1>5, <1>6, <1>7
    <2>2. acked' \subseteq SealedUpTo(log', sizes', Len(log'))
      <3>1. RecoveredWrites(log') \subseteq SealedUpTo(log', sizes, Len(log'))
        BY <1>6, RecoversOnlySealed
      <3> QED
        BY <1>1, <1>2, <3>1
    <2>3. engineSeq' \in Nat
      BY <1>2, <1>4
    <2> QED
      BY <1>2, <1>6, <2>1, <2>2, <2>3 DEF Kept
  <1>9. Waits(log', sizes', status', writer')
    BY <1>3 DEF Waits
  <1>10. ASSUME CleanFaults PROVE Durable(log', synced', status', mode', buffered', promised')
    <2>1. "process" \notin model.crashes
      BY <1>10 DEF CleanFaults
    <2>2. synced' = Len(log') /\ promised' = acked'
      BY <1>1, <2>1
    <2>3. SubSeq(log', 1, Len(log')) = log'
      BY <1>7, WholeFile
    <2>4. promised' \subseteq RecoveredWrites(SubSeq(log', 1, synced'))
      BY <1>1, <2>2, <2>3
    <2> QED
      BY <1>2, <2>2, <2>4 DEF Durable
  <1>11. CleanFaults' <=> CleanFaults
    BY <1>2 DEF CleanFaults
  <1> QED
    BY <1>3, <1>8, <1>9, <1>10, <1>11 DEF WalInv

\* Recovery: replay, and truncation to the durable prefix.
LEMMA OpenKeeps ==
    ASSUME WalInv, Open
    PROVE  WalInv'
  <1>1. /\ status = "closed" /\ status' = "open" /\ log' = SubSeq(log, 1, ReadPath(log).durable)
        /\ synced' = IF Len(log') < Len(log) \/ synced > Len(log') THEN Len(log') ELSE synced
        /\ engineSeq' = RecoveredSeq(log) /\ buffered' = 0
        /\ acked' = acked \cap RecoveredWrites(log)
        /\ UNCHANGED <<writer, sizes, promised, model>>
    BY DEF Open, boundVars
  <1>2. /\ Framed(log, sizes) /\ log \in Seq(Frame) /\ Len(log) \in Nat /\ synced \in 0..Len(log)
        /\ Waits(log, sizes, status, writer)
    BY LenProperties DEF WalInv, Kept, Framed
  <1> DEFINE e == ReadPath(log).durable
  <1>3. e \in 0..Len(log) /\ ReadsWhole(log') /\ RecoveredWrites(log') = RecoveredWrites(log)
    BY <1>1, <1>2, CutReadsWhole
  <1>4. Framed(log', sizes) /\ log' \in Seq(Frame) /\ Len(log') = e
    BY <1>1, <1>2, <1>3, PrefixFramed, PrefixIs
  <1> HIDE DEF e
  <1>5. Kept(log', synced', sizes', engineSeq', acked')
    <2>1. synced' \in 0..Len(log')
      BY <1>1, <1>2, <1>3, <1>4
    <2>2. acked' \subseteq SealedUpTo(log', sizes', Len(log'))
      <3>1. RecoveredWrites(log') \subseteq SealedUpTo(log', sizes, Len(log'))
        BY <1>4, RecoversOnlySealed
      <3> QED
        BY <1>1, <1>3, <3>1
    <2>3. engineSeq' \in Nat
      BY <1>1, <1>2, RecoveredSeqNat
    <2> QED
      BY <1>1, <1>4, <2>1, <2>2, <2>3 DEF Kept
  <1>6. Waits(log', sizes', status', writer')
    <2>1. writer' = {}
      BY <1>1, <1>2 DEF Waits
    <2> QED
      BY <2>1 DEF Waits
  <1>7. ASSUME CleanFaults PROVE Durable(log', synced', status', mode', buffered', promised')
    <2>1. Durable(log, synced, status, mode, buffered, promised)
      BY <1>7 DEF WalInv
    <2>2. synced = Len(log) /\ promised \subseteq RecoveredWrites(log)
      <3>1. synced = Len(log)
        BY <1>1, <2>1 DEF Durable
      <3>2. promised \subseteq RecoveredWrites(SubSeq(log, 1, synced))
        BY <2>1 DEF Durable
      <3> QED
        BY <1>2, <3>1, <3>2, WholeFile
    <2>3. synced' = Len(log')
      BY <1>1, <1>2, <1>3, <1>4, <2>2
    <2>4. promised' \subseteq RecoveredWrites(SubSeq(log', 1, synced'))
      <3>1. SubSeq(log', 1, Len(log')) = log'
        BY <1>4, WholeFile
      <3> QED
        BY <1>1, <1>3, <2>2, <2>3, <3>1
    <2>5. buffered' = Len(log') - synced'
      <3>1. Len(log') \in Nat
        BY <1>4, LenProperties
      <3>2. Len(log') - Len(log') = 0
        BY <3>1
      <3>3. buffered' = 0
        BY <1>1
      <3> QED
        BY <2>3, <3>2, <3>3
    <2> QED
      BY <1>1, <1>3, <2>4, <2>5 DEF Durable
  <1>8. CleanFaults' <=> CleanFaults
    BY <1>1 DEF CleanFaults
  <1> QED
    BY <1>1, <1>5, <1>6, <1>7, <1>8 DEF WalInv

\* Every step keeps the invariant.
LEMMA NextInv == WalInv /\ [Next]_vars => WalInv'
  <1> SUFFICES ASSUME WalInv, [Next]_vars PROVE WalInv'
    OBVIOUS
  <1>1. CASE UNCHANGED vars
    <2>1. UNCHANGED <<log, synced, status, mode, engineSeq, buffered, thread, writer, sizes, acked, promised, model>>
      BY <1>1 DEF vars, syncVars, histVars, boundVars
    <2>2. CleanFaults' <=> CleanFaults
      BY <2>1 DEF CleanFaults
    <2> QED
      BY <2>1, <2>2 DEF WalInv
  <1>2. CASE Next
    BY <1>2, OpenKeeps, WriteKeeps, WaitKeeps, AppendFailsKeeps, ImmediateSyncFailsKeeps, WriterWakesKeeps,
       SyncKeeps, TickFailsKeeps, CloseEndsKeeps, CrashKeeps DEF Next
  <1> QED
    BY <1>1, <1>2

\* WalInv holds in every state, under every fault model.
THEOREM WalInvariant == Spec => []WalInv
  <1> QED
    BY InitInv, NextInv, PTL DEF Spec

-----------------------------------------------------------------------------
(* The theorems *)

\* A write promised to be durable (in Immediate mode every acknowledged one; in group mode
\* every one before an fsync, a sync() or a close()) is recovered by read_path and the
\* replay after any power failure, whatever the sizes of the batches and the number of
\* writes, restarts and failed fsyncs.
THEOREM PromisesSurvive == Spec => []PromisedSurvive
  <1>1. WalInv => PromisedSurvive
    <2> SUFFICES ASSUME WalInv, CleanFaults, NEW p \in synced..Len(log)
                 PROVE  promised \subseteq RecoveredWrites(SubSeq(log, 1, p))
      BY DEF PromisedSurvive, CrashFiles
    <2>1. Framed(log, sizes) /\ Len(log) \in Nat /\ synced \in 0..Len(log)
      BY LenProperties DEF WalInv, Kept, Framed
    <2>2. p \in 0..Len(log) /\ synced <= p
      BY <2>1
    <2>3. promised \subseteq RecoveredWrites(SubSeq(log, 1, synced))
      BY DEF WalInv, Durable
    <2> QED
      BY <2>1, <2>2, <2>3, RecoversMore
  <1> QED
    BY <1>1, WalInvariant, PTL

\* Whatever a crash, a failed append or a failed fsync leaves of the file, recovery applies
\* each write completely or not at all, and the writes in the order they were made.
THEOREM WritesAreAtomic == Spec => []WritesAtomic
  <1>1. WalInv => WritesAtomic
    <2> SUFFICES ASSUME WalInv, NEW p \in synced..Len(log), NEW f, f = SubSeq(log, 1, p)
                 PROVE  LET r == Recovered(f)
                        IN /\ \A k \in DOMAIN r :
                                 Cardinality({j \in DOMAIN r : r[j].w = r[k].w}) = sizes[r[k].w]
                           /\ \A k \in DOMAIN r : k > 1 => r[k - 1].w <= r[k].w
      BY DEF WritesAtomic, CrashFiles
    <2>1. Framed(log, sizes) /\ Len(log) \in Nat /\ synced \in 0..Len(log)
      BY LenProperties DEF WalInv, Kept, Framed
    <2>2. Framed(f, sizes)
      BY <2>1, PrefixFramed
    <2> QED
      BY <2>2, RecoversWhole
  <1> QED
    BY <1>1, WalInvariant, PTL

\* What a crash loses of the acknowledged writes is a suffix: none is recovered without
\* those acknowledged before it.
THEOREM LossIsASuffix == Spec => []NoHoles
  <1>1. WalInv => NoHoles
    <2> SUFFICES ASSUME WalInv, NEW p \in synced..Len(log), NEW v \in acked, NEW w \in acked,
                        w \in RecoveredWrites(SubSeq(log, 1, p)), v < w
                 PROVE  v \in RecoveredWrites(SubSeq(log, 1, p))
      BY DEF NoHoles, CrashFiles
    <2>1. /\ Framed(log, sizes) /\ Len(log) \in Nat /\ synced \in 0..Len(log)
          /\ acked \subseteq SealedUpTo(log, sizes, Len(log))
      BY LenProperties DEF WalInv, Kept, Framed
    <2>2. p \in 0..Len(log) /\ v \in SealedUpTo(log, sizes, Len(log))
      BY <2>1
    <2> QED
      BY <2>1, <2>2, RecoversInOrder
  <1> QED
    BY <1>1, WalInvariant, PTL
=============================================================================
