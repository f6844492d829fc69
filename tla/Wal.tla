-------------------------------- MODULE Wal ---------------------------------
(***************************************************************************)
(* One write-ahead log generation: frames and atomic batches (wal.rs), the *)
(* two sync modes, the group-commit thread with its backpressure and       *)
(* poisoning (wal_sync.rs, EngineCore::wal_append and sync), and what      *)
(* recovery makes of the file after a crash: WalReader::read_path, the     *)
(* replay of its records and the truncation to the durable prefix.         *)
(*                                                                         *)
(* Data: an operation is the frame that carries it; a frame knows the      *)
(* write attempt w it belongs to and counts as one byte.  A frame whose    *)
(* bytes are not all there is "torn": neither its length nor its checksum  *)
(* can be right.  Option<T> is a set with at most one member.              *)
(***************************************************************************)
EXTENDS Integers, Sequences, FiniteSets, SequencesExt

CONSTANTS
    MaxWrites,       \* bound: write attempts per history
    MaxBatch,        \* bound: operations per write
    MaxFaults,       \* bound: failed appends and fsyncs
    MaxRestarts,     \* bound: crashes and clean shutdowns
    Modes,           \* the WalSyncModes an open may choose: "group", "immediate"
    HardCap,         \* hard_cap_bytes, in frames
    MaxSyncFailures, \* MAX_SYNC_FAILURES
    FaultModels      \* what may go wrong, one chosen at the start: [torn: may an append fail
                     \* half-way, crashes: of which kinds, writes: bound on the attempts]

ASSUME WalAssumption ==
    /\ MaxWrites \in Nat /\ MaxBatch \in Nat /\ MaxFaults \in Nat /\ MaxRestarts \in Nat
    /\ HardCap \in Nat \ {0} /\ MaxSyncFailures \in Nat \ {0}
    /\ Modes \subseteq {"group", "immediate"}
    /\ \A m \in FaultModels :
        m.torn \in BOOLEAN /\ m.crashes \subseteq {"power", "process"} /\ m.writes \in 0..MaxWrites

Attempts == 1..MaxWrites
Sizes    == 1..MaxBatch

VARIABLES
    log,        \* the frames handed to the writer, in order
    synced,     \* how many of them an fsync has covered
    status,     \* "closed", "open" or "closing"
    mode,       \* wal_sync_mode of this open
    engineSeq,
    buffered,   \* buffered_bytes
    errCount,   \* sync_error_count
    poisoned,
    shutdown,
    thread,     \* the group-commit thread runs
    writer,     \* the write blocked at the hard cap: [w, n, woken]
    (* history and bounds *)
    sizes,      \* sizes[w]: the operations of attempt w
    acked,      \* the attempts that returned Ok and were not lost since
    promised,   \* those of them the engine has promised to be durable
    model,      \* the fault model of this history
    faults, restarts

syncVars  == <<buffered, errCount, poisoned, shutdown, thread>>
histVars  == <<sizes, acked, promised>>
boundVars == <<model, faults, restarts>>
vars == <<log, synced, status, mode, engineSeq, syncVars, writer, histVars, boundVars>>

-----------------------------------------------------------------------------
(* Frames *)

OpFrame(w, s)     == [kind |-> "op", w |-> w, seq |-> s, count |-> 0]
Begin(w, s, n)    == [kind |-> "begin", w |-> w, seq |-> s, count |-> n]
Commit(w, s, n)   == [kind |-> "commit", w |-> w, seq |-> s, count |-> n]
Torn(w)           == [kind |-> "torn", w |-> w, seq |-> 0, count |-> 0]

\* Mutant: batches are written without their control frames.
BareFrames(w, s, n) == [k \in 1..n |-> OpFrame(w, s + k)]

\* append of one operation, append_batch of several: what attempt w writes behind
\* sequence number s.
Frames(w, s, n) ==
    IF n = 1 THEN <<OpFrame(w, s + 1)>>
    ELSE <<Begin(w, s + 1, n)>> \o [k \in 1..n |-> OpFrame(w, s + k)] \o <<Commit(w, s + 1, n)>>

-----------------------------------------------------------------------------
(* Recovery *)

\* Does read_path take the next frame f?  A batch must be closed, contiguous and complete.
Accepts(r, f) ==
    \/ f.kind = "op" /\ \A b \in r.open : b.read < b.count /\ f.seq = b.first + b.read
    \/ f.kind = "begin" /\ r.open = {} /\ f.seq # 0 /\ f.count >= 2
    \/ f.kind = "commit" /\ \E b \in r.open : b.first = f.seq /\ b.count = f.count /\ b.read = f.count

\* The open batch after frame f.
OpenAfter(r, f) ==
    CASE f.kind = "begin"  -> {[first |-> f.seq, count |-> f.count, read |-> 0]}
      [] f.kind = "op"     -> {[b EXCEPT !.read = @ + 1] : b \in r.open}
      [] f.kind = "commit" -> {}

\* Mutant: the durable prefix ends behind the last frame read, dangling batch or not.
ReadStepDangling(r, f) ==
    IF r.stop \/ ~Accepts(r, f) THEN [r EXCEPT !.stop = TRUE]
    ELSE [stop |-> FALSE, records |-> Append(r.records, f), open |-> OpenAfter(r, f),
          durable |-> Len(r.records) + 1]

\* Mutant: a frame that does not fit is skipped.
ReadStepSkipping(r, f) ==
    IF ~Accepts(r, f) THEN r
    ELSE [stop |-> FALSE, records |-> Append(r.records, f), open |-> OpenAfter(r, f),
          durable |-> IF OpenAfter(r, f) = {} THEN Len(r.records) + 1 ELSE r.durable]

\* One turn of the loop of read_path; durable_len moves only outside batches.
ReadStep(r, f) ==
    IF r.stop \/ ~Accepts(r, f) THEN [r EXCEPT !.stop = TRUE]
    ELSE [stop    |-> FALSE,
          records |-> Append(r.records, f),
          open    |-> OpenAfter(r, f),
          durable |-> IF OpenAfter(r, f) = {} THEN Len(r.records) + 1 ELSE r.durable]

\* The state of read_path after each frame.
ReadStart == [stop |-> FALSE, records |-> <<>>, open |-> {}, durable |-> 0]
ReadLoop(file) ==
    LET r[i \in 0..Len(file)] == IF i = 0 THEN ReadStart ELSE ReadStep(r[i - 1], file[i]) IN r

ReadPath(file) == ReadLoop(file)[Len(file)]

\* Replay puts the operations of a batch aside until its commit record matches.
MatchesCommit(b, f) ==
    /\ b.first = f.seq /\ b.count = f.count /\ Len(b.ops) = f.count
    /\ \A k \in 1..Len(b.ops) : b.ops[k].seq = b.first + k - 1

ReplayStep(r, f) ==
    CASE r.stop -> r
      [] ~r.stop /\ f.kind = "op" /\ r.open = {} ->
            [r EXCEPT !.applied = Append(@, f)]
      [] ~r.stop /\ f.kind = "op" /\ r.open # {} ->
            IF \E b \in r.open : Len(b.ops) >= b.count THEN [r EXCEPT !.stop = TRUE]
            ELSE [r EXCEPT !.open = {[b EXCEPT !.ops = Append(@, f)] : b \in r.open}]
      [] ~r.stop /\ f.kind = "begin" ->
            IF r.open # {} \/ f.seq = 0 \/ f.count < 2 THEN [r EXCEPT !.stop = TRUE]
            ELSE [r EXCEPT !.open = {[first |-> f.seq, count |-> f.count, ops |-> <<>>]}]
      [] ~r.stop /\ f.kind = "commit" ->
            IF \E b \in r.open : MatchesCommit(b, f)
            THEN [r EXCEPT !.open = {},
                           !.applied = @ \o (CHOOSE b \in r.open : MatchesCommit(b, f)).ops]
            ELSE [r EXCEPT !.stop = TRUE, !.open = {}]

\* The state of the replay after each record.
ReplayStart == [stop |-> FALSE, open |-> {}, applied |-> <<>>]
ReplayLoop(records) ==
    LET r[i \in 0..Len(records)] == IF i = 0 THEN ReplayStart ELSE ReplayStep(r[i - 1], records[i]) IN r

\* The operations recovery applies to the memtable, in order.
Recovered(file) ==
    LET records == ReadPath(file).records IN ReplayLoop(records)[Len(records)].applied

RecoveredWrites(file) == {f.w : f \in Range(Recovered(file))}

\* The sequence number replay continues from.
RecoveredSeq(file) == Max({0} \cup {f.seq : f \in Range(Recovered(file))})

-----------------------------------------------------------------------------
Init ==
    /\ log = <<>> /\ synced = 0 /\ status = "closed" /\ mode \in Modes /\ engineSeq = 0
    /\ buffered = 0 /\ errCount = 0 /\ poisoned = FALSE /\ shutdown = FALSE /\ thread = FALSE
    /\ writer = {} /\ sizes = <<>> /\ acked = {} /\ promised = {}
    /\ model \in FaultModels /\ faults = 0 /\ restarts = 0

\* Replay, truncation of the file to its durable prefix, start of the sync thread.
\* The bytes kept are not fsynced again unless the file is truncated.
Open ==
    /\ status = "closed" /\ status' = "open"
    /\ mode' \in Modes
    /\ log' = SubSeq(log, 1, ReadPath(log).durable)
    /\ synced' = IF Len(log') < Len(log) \/ synced > Len(log') THEN Len(log') ELSE synced
    /\ engineSeq' = RecoveredSeq(log)
    /\ buffered' = 0 /\ errCount' = 0 /\ poisoned' = FALSE /\ shutdown' = FALSE
    /\ thread' = (mode' = "group")
    /\ acked' = acked \cap RecoveredWrites(log)
    /\ UNCHANGED <<writer, sizes, promised, boundVars>>

GroupCommit == mode = "group"

Idle == status = "open" /\ writer = {}

\* What a successful wal_append of attempt w does; Immediate mode fsyncs it.
AppendOk(w, n) ==
    /\ log' = log \o Frames(w, engineSeq, n)
    /\ engineSeq' = engineSeq + n
    /\ acked' = acked \cup {w}
    /\ \/ /\ GroupCommit
          /\ buffered' = buffered + Len(Frames(w, engineSeq, n))
          /\ UNCHANGED <<synced, promised>>
       \/ /\ ~GroupCommit
          /\ synced' = Len(log') /\ promised' = promised \cup {w}
          /\ UNCHANGED buffered

\* The attempt is given its number.
Start(n) == Idle /\ Len(sizes) < model.writes /\ sizes' = Append(sizes, n)

Write(n) ==
    /\ Start(n) /\ ~poisoned
    /\ GroupCommit => buffered < HardCap
    /\ AppendOk(Len(sizes'), n)
    /\ UNCHANGED <<status, mode, errCount, poisoned, shutdown, thread, writer, boundVars>>

\* A write to a poisoned log returns WalSyncFailed.
WriteRejected(n) ==
    /\ Start(n) /\ poisoned
    /\ UNCHANGED <<log, synced, status, mode, engineSeq, syncVars, writer, acked, promised, boundVars>>

\* At the hard cap the writer waits on the condition variable, with the core locked.
WriteBlocks(n) ==
    /\ Start(n) /\ GroupCommit /\ ~poisoned /\ buffered >= HardCap
    /\ writer' = {[w |-> Len(sizes'), n |-> n, woken |-> FALSE]}
    /\ UNCHANGED <<log, synced, status, mode, engineSeq, syncVars, acked, promised, boundVars>>

\* notify_all on the condition variable.
Notified == {[x EXCEPT !.woken = TRUE] : x \in writer}

\* The blocked writer is woken: it returns the poison, waits again or appends.
WriterWakes ==
    /\ \E x \in writer :
          /\ x.woken
          /\ \/ /\ poisoned /\ writer' = {}
                /\ UNCHANGED <<log, synced, engineSeq, buffered, acked, promised>>
             \/ /\ ~poisoned /\ buffered >= HardCap
                /\ writer' = {[x EXCEPT !.woken = FALSE]}
                /\ UNCHANGED <<log, synced, engineSeq, buffered, acked, promised>>
             \/ /\ ~poisoned /\ buffered < HardCap
                /\ writer' = {} /\ AppendOk(x.w, x.n)
    /\ UNCHANGED <<status, mode, errCount, poisoned, shutdown, thread, sizes, boundVars>>

Fault == faults < MaxFaults /\ faults' = faults + 1 /\ UNCHANGED model

\* The append fails with part of the frames written; nothing takes them back, and
\* neither the sequence number nor buffered_bytes moves.
AppendFails(n) ==
    /\ Start(n) /\ ~poisoned /\ Fault
    /\ GroupCommit => buffered < HardCap
    /\ \/ UNCHANGED log
       \/ /\ model.torn
          /\ LET frames == Frames(Len(sizes'), engineSeq, n)
             IN \E k \in 0..(Len(frames) - 1), tail \in {<<>>, <<Torn(Len(sizes'))>>} :
                   log' = log \o SubSeq(frames, 1, k) \o tail
    /\ UNCHANGED <<synced, status, mode, engineSeq, syncVars, writer, acked, promised, restarts>>

\* Immediate mode: the append succeeds and the fsync fails.  The caller gets an error;
\* the frames stay in the file and the sequence numbers will be used again.
ImmediateSyncFails(n) ==
    /\ Start(n) /\ ~GroupCommit /\ Fault
    /\ log' = log \o Frames(Len(sizes'), engineSeq, n)
    /\ UNCHANGED <<synced, status, mode, engineSeq, syncVars, writer, acked, promised, restarts>>

\* A successful fsync of everything handed to the writer.
SyncOk ==
    /\ synced' = Len(log) /\ promised' = acked
    /\ buffered' = 0 /\ errCount' = 0
    /\ writer' = Notified

\* sync(), and the first step of freeze_memtable, in GroupCommit mode.
Sync ==
    /\ Idle /\ GroupCommit /\ ~poisoned
    /\ \/ buffered > 0 /\ SyncOk
       \/ /\ buffered = 0 /\ promised' = acked
          /\ UNCHANGED <<synced, buffered, errCount, writer>>
    /\ UNCHANGED <<log, status, mode, engineSeq, poisoned, shutdown, thread, sizes, acked, boundVars>>

\* The sync thread wakes, by timer or notification, and fsyncs what is buffered.
Tick ==
    /\ thread
    /\ \/ buffered > 0 /\ SyncOk
       \/ buffered = 0 /\ shutdown /\ UNCHANGED <<synced, promised, buffered, errCount, writer>>
    /\ thread' = ~shutdown
    /\ UNCHANGED <<log, status, mode, engineSeq, poisoned, shutdown, sizes, acked, boundVars>>

\* Mutant: poisoning does not wake the writers.
TickFailsQuietly ==
    /\ thread /\ buffered > 0 /\ Fault
    /\ errCount' = errCount + 1
    /\ poisoned' = (errCount + 1 >= MaxSyncFailures)
    /\ thread' = (~poisoned' /\ ~shutdown)
    /\ UNCHANGED <<log, synced, status, mode, engineSeq, buffered, shutdown, writer, histVars, restarts>>

\* Mutant: the thread ends at the first failed fsync.
TickFailsOnce ==
    /\ thread /\ buffered > 0 /\ Fault
    /\ errCount' = errCount + 1 /\ thread' = FALSE
    /\ UNCHANGED <<log, synced, status, mode, engineSeq, buffered, poisoned, shutdown, writer, histVars,
                   restarts>>

\* The fsync fails; after MAX_SYNC_FAILURES in a row the engine is poisoned.
TickFails ==
    /\ thread /\ buffered > 0 /\ Fault
    /\ errCount' = errCount + 1
    /\ poisoned' = (errCount + 1 >= MaxSyncFailures)
    /\ writer' = IF poisoned' THEN Notified ELSE writer
    /\ thread' = (~poisoned' /\ ~shutdown)
    /\ UNCHANGED <<log, synced, status, mode, engineSeq, buffered, shutdown, histVars, restarts>>

\* close(): signal the thread, join it, fsync what is left.
Close ==
    /\ Idle /\ restarts < MaxRestarts
    /\ status' = "closing" /\ shutdown' = TRUE
    /\ UNCHANGED <<log, synced, mode, engineSeq, buffered, errCount, poisoned, thread, writer, histVars,
                   boundVars>>

CloseEnds ==
    /\ status = "closing" /\ ~thread
    /\ \/ /\ \/ ~GroupCommit \/ buffered > 0
          /\ synced' = Len(log) /\ promised' = acked
       \/ GroupCommit /\ buffered = 0 /\ promised' = acked /\ UNCHANGED synced
    /\ status' = "closed" /\ buffered' = 0
    /\ restarts' = restarts + 1
    /\ UNCHANGED <<log, mode, engineSeq, errCount, poisoned, shutdown, thread, writer, sizes, acked,
                   model, faults>>

\* The last fsync fails: close() returns the error, the process goes on to end.
CloseFails ==
    /\ status = "closing" /\ ~thread /\ Fault
    /\ "process" \in model.crashes
    /\ GroupCommit => buffered > 0
    /\ \E p \in synced..Len(log) : log' = SubSeq(log, 1, p)
    /\ acked' = acked \cap RecoveredWrites(log')
    /\ status' = "closed" /\ buffered' = 0
    /\ restarts' = restarts + 1
    /\ UNCHANGED <<synced, mode, engineSeq, errCount, poisoned, shutdown, thread, writer, sizes,
                   promised>>

\* The process dies: its buffers are lost, what the system holds is kept, on disk or
\* not.  The power fails: some prefix not shorter than what was fsynced is on disk, the
\* last frame maybe torn.
Crash ==
    /\ status # "closed" /\ restarts < MaxRestarts /\ restarts' = restarts + 1
    /\ \E kind \in model.crashes, p \in synced..Len(log) :
          /\ \/ log' = SubSeq(log, 1, p)
             \/ p < Len(log) /\ log' = SubSeq(log, 1, p) \o <<Torn(log[p + 1].w)>>
          /\ acked' = acked \cap RecoveredWrites(log')
          /\ \/ kind = "power" /\ synced' = Len(log') /\ promised' = acked'
             \/ kind = "process" /\ UNCHANGED <<synced, promised>>
    /\ status' = "closed" /\ engineSeq' = 0
    /\ buffered' = 0 /\ errCount' = 0 /\ poisoned' = FALSE /\ shutdown' = FALSE /\ thread' = FALSE
    /\ writer' = {}
    /\ UNCHANGED <<mode, sizes, model, faults>>

Next ==
    \/ Open
    \/ \E n \in Sizes : Write(n) \/ WriteRejected(n) \/ WriteBlocks(n)
    \/ \E n \in Sizes : AppendFails(n) \/ ImmediateSyncFails(n)
    \/ WriterWakes \/ Sync \/ Tick \/ TickFails
    \/ Close \/ CloseEnds \/ CloseFails
    \/ Crash

Spec == Init /\ [][Next]_vars

-----------------------------------------------------------------------------
(* Properties *)

FrameSet == [kind : {"op", "begin", "commit", "torn"}, w : Attempts,
             seq : 0..(MaxWrites * MaxBatch), count : 0..MaxBatch]

\* The state is well formed, and buffered_bytes never runs ahead of what is unsynced.
TypeOK ==
    /\ log \in Seq(FrameSet) /\ synced \in 0..Len(log)
    /\ status \in {"closed", "open", "closing"} /\ mode \in {"group", "immediate"}
    /\ engineSeq \in 0..(MaxWrites * MaxBatch)
    /\ buffered \in 0..(Len(log) - synced) /\ errCount \in 0..MaxSyncFailures
    /\ poisoned \in BOOLEAN /\ shutdown \in BOOLEAN /\ thread \in BOOLEAN
    /\ writer \subseteq [w : Attempts, n : Sizes, woken : BOOLEAN]
    /\ sizes \in Seq(Sizes) /\ acked \subseteq Attempts /\ promised \subseteq Attempts
    /\ model \in FaultModels /\ faults \in Nat /\ restarts \in Nat

\* The files a power failure at this instant can leave, without their torn last frame.
CrashFiles == {SubSeq(log, 1, p) : p \in synced..Len(log)}

\* The fault models in which wal_append leaves no half of a frame in the file and open takes
\* over no frames that an fsync has not covered.
CleanFaults == ~model.torn /\ model.crashes = {"power"}

\* A write promised to be durable (every acknowledged one in Immediate mode, every one
\* before an fsync, a sync() or a close() otherwise) is recovered after any power failure.
PromisedSurvive ==
    CleanFaults => \A f \in CrashFiles : promised \subseteq RecoveredWrites(f)

\* Whatever the file, recovery applies a write completely or not at all, and the writes
\* in the order in which they were made.
WritesAtomic ==
    \A f \in CrashFiles :
        LET r == Recovered(f)
        IN /\ \A k \in DOMAIN r : Cardinality({j \in DOMAIN r : r[j].w = r[k].w}) = sizes[r[k].w]
           /\ \A k \in DOMAIN r : k > 1 => r[k - 1].w <= r[k].w

\* A crash loses a suffix of the acknowledged writes: none is recovered without those
\* acknowledged before it.
NoHoles ==
    \A f \in CrashFiles :
        LET r == acked \cap RecoveredWrites(f) IN \A v \in acked, w \in r : v < w => v \in r

\* Liveness: the sync thread keeps waking on its timer, and a woken writer runs.
Fairness == WF_vars(Tick \/ TickFails) /\ WF_vars(WriterWakes) /\ WF_vars(CloseEnds)

FairSpec == Spec /\ Fairness

\* A writer blocked at the hard cap returns, by appending or with the poison.
BlockedWriterReturns == writer # {} ~> writer = {}

\* An acknowledged write becomes durable without anyone calling sync(), unless the
\* engine is poisoned, closed or crashes (or took the write over from a process that died).
AckedBecomesDurable ==
    \A w \in Attempts : CleanFaults /\ w \in acked ~> (w \in promised \/ poisoned \/ status # "open")
=============================================================================
