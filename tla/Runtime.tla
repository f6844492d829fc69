------------------------------ MODULE Runtime -------------------------------
(***************************************************************************)
(* The concurrent shell around the storage engine: DbRuntime               *)
(* (engine/mod.rs).  Client threads call into one shared handle; reads are *)
(* admitted with an atomic counter, mutating calls become commands in a    *)
(* bounded queue that the coordinator thread executes one at a time,       *)
(* compact_with_progress takes the mutating barrier and works on the       *)
(* caller's thread, and close() drains everybody before it takes the core. *)
(*                                                                         *)
(* A section executed under the lifecycle mutex, or under the core mutex,  *)
(* is one step; so is each atomic load, store or read-modify-write.  A     *)
(* thread in Condvar::wait is in asleep (lifecycle_cv) or in drainAsleep   *)
(* (read_drain_cv) and leaves it only by notify_all: std may also wake it  *)
(* spuriously, but then it only evaluates its loop condition again.        *)
(*                                                                         *)
(* The core itself is reduced to its background jobs (flushes and          *)
(* compactions): running, finished with an event nobody has drained yet,   *)
(* and about to notify.  StorageEngine models what they do.                *)
(***************************************************************************)
EXTENDS Integers, Sequences, FiniteSets

CONSTANTS
    Clients,       \* client threads
    Coordinator,   \* the coordinator thread
    Kinds,         \* subset of {"read", "query", "write", "flush", "compact", "close"}
    Keys,          \* SecondaryIndexReadFollowupKey
    Capacity,      \* coordinator_queue_capacity
    MaxImmutable,  \* background jobs outstanding before a write must wait
    MaxJobs,       \* bound: background jobs started per history
    MaxCalls       \* bound: calls per history

ASSUME RuntimeAssumption ==
    /\ Coordinator \notin Clients
    /\ Keys # {}
    /\ Kinds \subseteq {"read", "query", "write", "flush", "compact", "close"}
    /\ Capacity \in Nat \ {0} /\ MaxImmutable \in Nat \ {0}
    /\ MaxJobs \in Nat /\ MaxCalls \in Nat

Threads  == Clients \cup {Coordinator}
Mutating == {"write", "flush"}
Requests == [kind : {"write", "flush"}, by : Clients] \cup [kind : {"followup"}, key : Keys]

VARIABLES
    openState,     \* the atomic RuntimeOpenState
    reads,         \* the atomic active_read_ops
    nonRead,       \* active_non_read_ops
    mutating,      \* active_mutating_ops
    closing, closed,
    barrier,       \* mutating_barrier_active
    workReady,     \* lifecycle_work_ready
    shutdown,      \* coordinator_shutdown_requested
    pending,       \* pending_core_writes
    active,        \* coordinator_active_command
    followups,     \* pending_secondary_index_followups
    seq,           \* progress_seq
    core,          \* the core is there: Mutex<Option<EngineCore>> is Some
    current,       \* current_command of the coordinator: a set with at most one member
    waiting,       \* waiting_for_lifecycle of the coordinator
    sawShutdown,   \* shutdown_requested of the coordinator's pass
    running, ready, signals, \* background jobs: running, finished, about to notify
    pc,            \* where each thread is
    kind,          \* the call a client is in
    index,         \* the key of the followup a query has to enqueue
    seen,          \* wait_seq of a thread in a barrier
    progressed,    \* what a thread's last run_lifecycle_batch_if_open returned
    asleep, drainAsleep,
    calls, jobs    \* bounds: calls and jobs started

lifecycle   == <<nonRead, mutating, closing, closed, barrier, shutdown, pending, active, followups>>
coordinator == <<current, waiting, sawShutdown>>
background  == <<running, ready, signals, jobs>>
locals      == <<seen, progressed>>
vars == <<openState, reads, lifecycle, workReady, seq, core, coordinator, background,
          locals, pc, kind, index, asleep, drainAsleep, calls>>

Init ==
    /\ openState = "Open" /\ reads = 0 /\ nonRead = 0 /\ mutating = 0
    /\ closing = FALSE /\ closed = FALSE /\ barrier = FALSE
    /\ workReady = FALSE /\ shutdown = FALSE
    /\ pending = <<>> /\ active = FALSE /\ followups = {}
    /\ seq = 0 /\ core = TRUE
    /\ current = {} /\ waiting = FALSE /\ sawShutdown = FALSE
    /\ running = 0 /\ ready = 0 /\ signals = 0
    /\ pc = [t \in Threads |-> IF t = Coordinator THEN "wait" ELSE "idle"]
    /\ kind = [c \in Clients |-> "none"]
    /\ index = [c \in Clients |-> CHOOSE key \in Keys : TRUE]
    /\ seen = [t \in Threads |-> 0] /\ progressed = [t \in Threads |-> FALSE]
    /\ asleep = {} /\ drainAsleep = {}
    /\ calls = 0 /\ jobs = 0

At(t, label)   == pc[t] = label /\ t \notin asleep
Goto(t, label) == pc' = [pc EXCEPT ![t] = label]
NotifyAll      == asleep' = {}
Sleep(t)       == asleep' = asleep \cup {t}

Return(c) ==
    /\ Goto(c, "idle")
    /\ kind' = [kind EXCEPT ![c] = "none"]

(* A client enters the library. *)
Entry(k) == CASE k \in {"read", "query"} -> "admit"
              [] k \in Mutating          -> "submit"
              [] k = "compact"           -> "barrier"
              [] k = "close"             -> "close"

Call(c, k) ==
    /\ pc[c] = "idle" /\ calls < MaxCalls
    /\ calls' = calls + 1
    /\ kind' = [kind EXCEPT ![c] = k]
    /\ Goto(c, Entry(k))
    /\ UNCHANGED <<openState, reads, lifecycle, workReady, seq, core, coordinator, background,
                   locals, index, asleep, drainAsleep>>

-----------------------------------------------------------------------------
(* Reads: admit_operation, published_snapshot, the drop of the read guard *)

GuardFrame == UNCHANGED <<openState, lifecycle, workReady, seq, core, coordinator, background,
                          locals, asleep, calls>>
ReadFrame  == UNCHANGED index /\ GuardFrame

Admit(c) ==
    /\ At(c, "admit")
    /\ IF openState = "Open" THEN Goto(c, "count") /\ UNCHANGED kind ELSE Return(c)
    /\ UNCHANGED <<reads, drainAsleep>> /\ ReadFrame

Count(c) ==
    /\ At(c, "count")
    /\ reads' = reads + 1
    /\ Goto(c, "recheck")
    /\ UNCHANGED <<kind, drainAsleep>> /\ ReadFrame

\* Mutant: admission does not look at the state again.
RecheckSkipped(c) ==
    /\ At(c, "recheck")
    /\ Goto(c, "reading")
    /\ UNCHANGED <<reads, kind, drainAsleep>> /\ ReadFrame

Recheck(c) ==
    /\ At(c, "recheck")
    /\ Goto(c, IF openState = "Open" THEN "reading" ELSE "finish")
    /\ UNCHANGED <<reads, kind, drainAsleep>> /\ ReadFrame

(* finish_read_operation: the decrement, and then the wakeup of a closer. *)
FinishRead(c) ==
    /\ At(c, "finish") \/ At(c, "reading")
    /\ reads' = reads - 1
    /\ IF reads = 1 THEN Goto(c, "wake") /\ UNCHANGED kind ELSE Return(c)
    /\ UNCHANGED drainAsleep /\ ReadFrame

WakeCloser(c) ==
    /\ At(c, "wake")
    /\ drainAsleep' = IF openState = "Closing" THEN {} ELSE drainAsleep
    /\ Return(c)
    /\ UNCHANGED reads /\ ReadFrame

-----------------------------------------------------------------------------
(* Commands: submit_core_write, enqueue_secondary_index_read_followup *)

Occupancy == Len(pending) + (IF active THEN 1 ELSE 0)

Enqueue(request) ==
    /\ nonRead' = nonRead + 1
    /\ mutating' = mutating + 1
    /\ pending' = Append(pending, request)
    /\ NotifyAll

SubmitFrame == UNCHANGED <<openState, reads, closing, closed, barrier, workReady, shutdown, active,
                           seq, core, coordinator, background, locals, index, drainAsleep, calls>>

\* Mutant: the barrier is not tested.
SubmitThroughBarrier(c) ==
    /\ At(c, "submit")
    /\ \/ /\ closing \/ closed
          /\ Return(c)
          /\ UNCHANGED <<nonRead, mutating, pending, asleep>>
       \/ /\ ~closing /\ ~closed
          /\ Occupancy >= Capacity
          /\ Sleep(c)
          /\ UNCHANGED <<nonRead, mutating, pending, pc, kind>>
       \/ /\ ~closing /\ ~closed /\ Occupancy < Capacity
          /\ Enqueue([kind |-> kind[c], by |-> c])
          /\ Goto(c, "reply")
          /\ UNCHANGED kind
    /\ UNCHANGED followups /\ SubmitFrame

(* One pass of the loop in submit_core_write. *)
Submit(c) ==
    /\ At(c, "submit")
    /\ \/ /\ closing \/ closed
          /\ Return(c)
          /\ UNCHANGED <<nonRead, mutating, pending, asleep>>
       \/ /\ ~closing /\ ~closed
          /\ barrier \/ Occupancy >= Capacity
          /\ Sleep(c)
          /\ UNCHANGED <<nonRead, mutating, pending, pc, kind>>
       \/ /\ ~closing /\ ~closed /\ ~barrier /\ Occupancy < Capacity
          /\ Enqueue([kind |-> kind[c], by |-> c])
          /\ Goto(c, "reply")
          /\ UNCHANGED kind
    /\ UNCHANGED followups /\ SubmitFrame

(* A query whose secondary-index sidecar failed, still holding its guard.  *)
NeedsFollowup(c, key) ==
    /\ At(c, "reading") /\ kind[c] = "query"
    /\ index' = [index EXCEPT ![c] = key]
    /\ Goto(c, "followup")
    /\ UNCHANGED <<reads, kind, drainAsleep>> /\ GuardFrame

(* One pass of the loop in enqueue_secondary_index_read_followup. *)
Followup(c) ==
    /\ At(c, "followup")
    /\ \/ /\ closing \/ closed \/ index[c] \in followups
          /\ Goto(c, "finish")
          /\ UNCHANGED <<nonRead, mutating, pending, followups, asleep>>
       \/ /\ ~closing /\ ~closed /\ index[c] \notin followups
          /\ barrier \/ Occupancy >= Capacity
          /\ Sleep(c)
          /\ UNCHANGED <<nonRead, mutating, pending, followups, pc>>
       \/ /\ ~closing /\ ~closed /\ index[c] \notin followups
          /\ ~barrier /\ Occupancy < Capacity
          /\ followups' = followups \cup {index[c]}
          /\ Enqueue([kind |-> "followup", key |-> index[c]])
          /\ Goto(c, "finish")
    /\ UNCHANGED kind /\ SubmitFrame

-----------------------------------------------------------------------------
(* The mutating barrier: begin_mutating_barrier and the drop of its guard *)

BarrierFrame == UNCHANGED <<openState, reads, mutating, closing, closed, workReady, shutdown,
                            pending, active, followups, seq, core, coordinator, background,
                            locals, index, drainAsleep, calls>>

BeginBarrier(c) ==
    /\ At(c, "barrier")
    /\ \/ /\ closing \/ closed
          /\ Return(c)
          /\ UNCHANGED <<barrier, nonRead, asleep>>
       \/ /\ ~closing /\ ~closed /\ barrier
          /\ Sleep(c)
          /\ UNCHANGED <<barrier, nonRead, pc, kind>>
       \/ /\ ~closing /\ ~closed /\ ~barrier
          /\ barrier' = TRUE
          /\ nonRead' = nonRead + 1
          /\ IF mutating > 0
               THEN Sleep(c) /\ Goto(c, "draining")
               ELSE Goto(c, "observe") /\ UNCHANGED asleep
          /\ UNCHANGED kind
    /\ BarrierFrame

\* Mutant: a barrier given up keeps its count.
DrainKeepsCount(c) ==
    /\ At(c, "draining")
    /\ \/ /\ closing \/ closed
          /\ barrier' = FALSE
          /\ nonRead' = nonRead
          /\ NotifyAll
          /\ Return(c)
       \/ /\ ~closing /\ ~closed /\ mutating > 0
          /\ Sleep(c)
          /\ UNCHANGED <<barrier, nonRead, pc, kind>>
       \/ /\ ~closing /\ ~closed /\ mutating = 0
          /\ Goto(c, "observe")
          /\ UNCHANGED <<barrier, nonRead, asleep, kind>>
    /\ BarrierFrame

(* The inner loop, after a wakeup. *)
DrainMutating(c) ==
    /\ At(c, "draining")
    /\ \/ /\ closing \/ closed
          /\ barrier' = FALSE
          /\ nonRead' = nonRead - 1
          /\ NotifyAll
          /\ Return(c)
       \/ /\ ~closing /\ ~closed /\ mutating > 0
          /\ Sleep(c)
          /\ UNCHANGED <<barrier, nonRead, pc, kind>>
       \/ /\ ~closing /\ ~closed /\ mutating = 0
          /\ Goto(c, "observe")
          /\ UNCHANGED <<barrier, nonRead, asleep, kind>>
    /\ BarrierFrame

\* Mutant: the guard's drop does not notify.
EndBarrierSilently(c) ==
    /\ At(c, "release")
    /\ barrier' = FALSE
    /\ nonRead' = nonRead - 1
    /\ UNCHANGED asleep
    /\ Return(c)
    /\ BarrierFrame

EndBarrier(c) ==
    /\ At(c, "release")
    /\ barrier' = FALSE
    /\ nonRead' = nonRead - 1
    /\ NotifyAll
    /\ Return(c)
    /\ BarrierFrame

-----------------------------------------------------------------------------
(* Background jobs and run_lifecycle_batch_if_open *)

Outstanding == running + ready

JobEnds ==
    /\ running > 0
    /\ running' = running - 1
    /\ ready' = ready + 1
    /\ signals' = signals + 1
    /\ UNCHANGED <<openState, reads, lifecycle, workReady, seq, core, coordinator, jobs, locals,
                   pc, kind, index, asleep, drainAsleep, calls>>

(* notify_lifecycle_work *)
JobNotifies ==
    /\ signals > 0
    /\ signals' = signals - 1
    /\ workReady' = TRUE
    /\ NotifyAll
    /\ UNCHANGED <<openState, reads, lifecycle, seq, core, coordinator, running, ready, jobs, locals,
                   pc, kind, index, drainAsleep, calls>>

BatchLabels == {"batch", "afterBatch", "barrierBatch"}

(* Under the core mutex: drain the events; an adopted flush may start a    *)
(* compaction.                                                             *)
DrainEvents(t) ==
    /\ pc[t] \in BatchLabels /\ t \notin asleep
    /\ progressed' = [progressed EXCEPT ![t] = core /\ ready > 0]
    /\ Goto(t, CASE pc[t] = "batch"        -> "batched"
                 [] pc[t] = "afterBatch"   -> "afterBatched"
                 [] pc[t] = "barrierBatch" -> "barrierBatched")
    /\ IF core
         THEN /\ ready' = 0
              /\ \E more \in {0} \cup {n \in {1} : ready > 0 /\ jobs < MaxJobs} :
                    running' = running + more /\ jobs' = jobs + more
         ELSE UNCHANGED <<ready, running, jobs>>
    /\ UNCHANGED <<openState, reads, lifecycle, workReady, seq, core, coordinator, signals, seen,
                   kind, index, asleep, drainAsleep, calls>>

(* Under the lifecycle mutex: publish the progress. *)
Progress(t) ==
    IF progressed[t] THEN seq' = seq + 1 /\ NotifyAll ELSE UNCHANGED <<seq, asleep>>

BarrierWorkFrame == UNCHANGED <<openState, reads, lifecycle, workReady, core, coordinator, background,
                                progressed, kind, index, drainAsleep, calls>>

(* execute_flush_barrier and execute_compaction_barrier, on the            *)
(* coordinator for flush() and on the caller's thread behind the barrier:  *)
(* run a batch and wait for an event until what they wait for is done.     *)
Observe(t) ==
    /\ At(t, "observe")
    /\ seen' = [seen EXCEPT ![t] = seq]
    /\ Goto(t, "inspect")
    /\ UNCHANGED <<seq, asleep>> /\ BarrierWorkFrame

(* A compaction waits for every outstanding job, a flush for its target    *)
(* epoch, which may be done or not while jobs are outstanding.             *)
Inspect(t) ==
    /\ At(t, "inspect")
    /\ \/ core /\ Outstanding > 0 /\ Goto(t, "barrierBatch")
       \/ t = Coordinator /\ Goto(t, "afterBatch")
       \/ t # Coordinator /\ ~(core /\ Outstanding > 0) /\ Goto(t, "release")
    /\ UNCHANGED <<seen, seq, asleep>> /\ BarrierWorkFrame

BarrierBatched(t) ==
    /\ At(t, "barrierBatched")
    /\ Progress(t)
    /\ Goto(t, IF progressed[t] THEN "observe" ELSE "event")
    /\ UNCHANGED seen /\ BarrierWorkFrame

(* The batch the coordinator runs behind a command it has executed. *)
CommandBatched ==
    /\ At(Coordinator, "afterBatched")
    /\ Progress(Coordinator)
    /\ Goto(Coordinator, "complete")
    /\ UNCHANGED seen /\ BarrierWorkFrame

(* wait_for_lifecycle_event *)
AwaitEvent(t) ==
    /\ At(t, "event")
    /\ IF seq = seen[t] /\ ~workReady /\ ~closed /\ ~shutdown
         THEN Sleep(t) /\ UNCHANGED pc
         ELSE Goto(t, "observe") /\ UNCHANGED asleep
    /\ UNCHANGED <<seen, seq>> /\ BarrierWorkFrame

-----------------------------------------------------------------------------
(* The coordinator thread: coordinator_loop *)

CoordFrame == UNCHANGED <<openState, reads, closing, closed, barrier, core, kind, index, drainAsleep,
                          calls, signals, seen>>

(* The wait at the head of the loop, and the section behind it.  Whatever  *)
(* ends the wait also makes the pass run a batch.                          *)
PickCommand ==
    /\ At(Coordinator, "wait")
    /\ \/ /\ ~shutdown /\ ~workReady
          /\ (current = {} /\ pending = <<>>) \/ waiting
          /\ Sleep(Coordinator)
          /\ UNCHANGED <<current, active, pending, sawShutdown, workReady, pc>>
       \/ /\ shutdown \/ workReady \/ ~((current = {} /\ pending = <<>>) \/ waiting)
          /\ IF current = {} /\ pending # <<>>
               THEN /\ current' = {Head(pending)}
                    /\ active' = TRUE
                    /\ pending' = Tail(pending)
               ELSE UNCHANGED <<current, active, pending>>
          /\ sawShutdown' = shutdown
          /\ workReady' = FALSE
          /\ Goto(Coordinator, "batch")
          /\ UNCHANGED asleep
    /\ UNCHANGED <<nonRead, mutating, shutdown, followups, seq, waiting, running, ready, jobs,
                   progressed>> /\ CoordFrame

(* The end of the batch: wait again, stop, or execute the command. *)
Dispatch ==
    /\ At(Coordinator, "batched")
    /\ Progress(Coordinator)
    /\ waiting' = (waiting /\ ~progressed[Coordinator])
    /\ Goto(Coordinator,
            IF current # {} /\ (sawShutdown \/ ~waiting') THEN "execute"
            ELSE IF current = {} /\ sawShutdown /\ ~progressed[Coordinator] THEN "stop" ELSE "wait")
    /\ UNCHANGED <<nonRead, mutating, shutdown, pending, active, followups, workReady, current,
                   sawShutdown, running, ready, jobs, progressed>> /\ CoordFrame

(* execute_core_write_command: a write under backpressure waits for the    *)
(* lifecycle, any other one is done here and may start a flush; flush()    *)
(* waits on the spot.                                                      *)
Execute(request) ==
    /\ At(Coordinator, "execute") /\ request \in current
    /\ \/ /\ request.kind = "write" /\ core /\ Outstanding >= MaxImmutable
          /\ waiting' = TRUE
          /\ Goto(Coordinator, "wait")
          /\ UNCHANGED <<running, jobs>>
       \/ /\ request.kind = "write" => ~core \/ Outstanding < MaxImmutable
          /\ Goto(Coordinator, IF request.kind = "flush" /\ core THEN "observe" ELSE "afterBatch")
          /\ \E more \in {0} \cup {n \in {1} : core /\ request.kind # "followup" /\ jobs < MaxJobs} :
                running' = running + more /\ jobs' = jobs + more
          /\ UNCHANGED waiting
    /\ UNCHANGED <<nonRead, mutating, shutdown, pending, active, followups, workReady, seq, current,
                   sawShutdown, ready, progressed, asleep>> /\ CoordFrame

(* The command is complete: its reply releases the caller. *)
Answered(request) == IF request.kind = "followup" THEN {} ELSE {request.by}

\* Mutant: the followup key is not removed.
CompleteKeepsKey(request) ==
    /\ At(Coordinator, "complete") /\ request \in current
    /\ followups' = followups
    /\ active' = FALSE
    /\ nonRead' = nonRead - 1
    /\ mutating' = mutating - 1
    /\ current' = {}
    /\ NotifyAll
    /\ pc' = [t \in Threads |-> IF t \in Answered(request) THEN "replied"
                               ELSE IF t = Coordinator THEN "wait" ELSE pc[t]]
    /\ UNCHANGED <<shutdown, pending, workReady, seq, waiting, sawShutdown, running, ready, jobs,
                   progressed>> /\ CoordFrame

\* Mutant: completion does not notify.
CompleteSilently(request) ==
    /\ At(Coordinator, "complete") /\ request \in current
    /\ followups' = IF request.kind = "followup" THEN followups \ {request.key} ELSE followups
    /\ active' = FALSE
    /\ nonRead' = nonRead - 1
    /\ mutating' = mutating - 1
    /\ current' = {}
    /\ UNCHANGED asleep
    /\ pc' = [t \in Threads |-> IF t \in Answered(request) THEN "replied"
                               ELSE IF t = Coordinator THEN "wait" ELSE pc[t]]
    /\ UNCHANGED <<shutdown, pending, workReady, seq, waiting, sawShutdown, running, ready, jobs,
                   progressed>> /\ CoordFrame

Complete(request) ==
    /\ At(Coordinator, "complete") /\ request \in current
    /\ followups' = IF request.kind = "followup" THEN followups \ {request.key} ELSE followups
    /\ active' = FALSE
    /\ nonRead' = nonRead - 1
    /\ mutating' = mutating - 1
    /\ current' = {}
    /\ NotifyAll
    /\ pc' = [t \in Threads |-> IF t \in Answered(request) THEN "replied"
                               ELSE IF t = Coordinator THEN "wait" ELSE pc[t]]
    /\ UNCHANGED <<shutdown, pending, workReady, seq, waiting, sawShutdown, running, ready, jobs,
                   progressed>> /\ CoordFrame

Replied(c) ==
    /\ At(c, "replied")
    /\ Return(c)
    /\ UNCHANGED <<reads, drainAsleep>> /\ ReadFrame

Stop ==
    /\ At(Coordinator, "stop")
    /\ Goto(Coordinator, "stopped")
    /\ NotifyAll
    /\ UNCHANGED <<nonRead, mutating, shutdown, pending, active, followups, workReady, seq,
                   coordinator, running, ready, jobs, progressed>> /\ CoordFrame

-----------------------------------------------------------------------------
(* close() and close_fast() *)

CloseFrame == UNCHANGED <<reads, nonRead, mutating, barrier, pending, active, followups, seq,
                          coordinator, signals, jobs, locals, index, calls>>

Close(c) ==
    /\ At(c, "close")
    /\ IF closed \/ closing
         THEN Return(c) /\ UNCHANGED <<closing, openState>>
         ELSE /\ closing' = TRUE
              /\ openState' = "Closing"
              /\ Goto(c, "drainReads")
              /\ UNCHANGED kind
    /\ UNCHANGED <<closed, shutdown, workReady, core, running, ready, asleep, drainAsleep>>
    /\ CloseFrame

(* wait_for_reads_to_drain: the check without the mutex and the loop       *)
(* condition are the same test; a thread at "sleepy" has found the count   *)
(* positive and is about to enter Condvar::wait.                           *)
DrainReads(c) ==
    /\ At(c, "drainReads") /\ c \notin drainAsleep
    /\ Goto(c, IF reads = 0 THEN "drainOps" ELSE "sleepy")
    /\ UNCHANGED <<openState, closing, closed, shutdown, workReady, core, running, ready, kind,
                   asleep, drainAsleep>>
    /\ CloseFrame

SleepForReads(c) ==
    /\ At(c, "sleepy")
    /\ drainAsleep' = drainAsleep \cup {c}
    /\ Goto(c, "drainReads")
    /\ UNCHANGED <<openState, closing, closed, shutdown, workReady, core, running, ready, kind,
                   asleep>>
    /\ CloseFrame

DrainOps(c) ==
    /\ At(c, "drainOps")
    /\ IF nonRead > 0
         THEN Sleep(c) /\ UNCHANGED pc
         ELSE Goto(c, "request") /\ UNCHANGED asleep
    /\ UNCHANGED <<openState, closing, closed, shutdown, workReady, core, running, ready, kind,
                   drainAsleep>>
    /\ CloseFrame

\* Mutant: the coordinator is not notified.
RequestShutdownSilently(c) ==
    /\ At(c, "request")
    /\ shutdown' = TRUE
    /\ workReady' = TRUE
    /\ UNCHANGED asleep
    /\ Goto(c, "join")
    /\ UNCHANGED <<openState, closing, closed, core, running, ready, kind, drainAsleep>>
    /\ CloseFrame

RequestShutdown(c) ==
    /\ At(c, "request")
    /\ shutdown' = TRUE
    /\ workReady' = TRUE
    /\ NotifyAll
    /\ Goto(c, "join")
    /\ UNCHANGED <<openState, closing, closed, core, running, ready, kind, drainAsleep>>
    /\ CloseFrame

Join(c) ==
    /\ At(c, "join") /\ pc[Coordinator] = "stopped"
    /\ NotifyAll
    /\ Goto(c, "takeCore")
    /\ UNCHANGED <<openState, closing, closed, shutdown, workReady, core, running, ready, kind,
                   drainAsleep>>
    /\ CloseFrame

(* The core is taken out of its mutex and closed, jobs and all. *)
TakeCore(c) ==
    /\ At(c, "takeCore")
    /\ core' = FALSE
    /\ running' = 0 /\ ready' = 0
    /\ Goto(c, "setClosed")
    /\ UNCHANGED <<openState, closing, closed, shutdown, workReady, kind, asleep, drainAsleep>>
    /\ CloseFrame

SetClosed(c) ==
    /\ At(c, "setClosed")
    /\ openState' = "Closed"
    /\ Goto(c, "announce")
    /\ UNCHANGED <<closing, closed, shutdown, workReady, core, running, ready, kind, asleep,
                   drainAsleep>>
    /\ CloseFrame

Announce(c) ==
    /\ At(c, "announce")
    /\ closed' = TRUE
    /\ NotifyAll
    /\ Return(c)
    /\ UNCHANGED <<openState, closing, shutdown, workReady, core, running, ready, drainAsleep>>
    /\ CloseFrame

-----------------------------------------------------------------------------
ReadStep(c) ==
    \/ Admit(c) \/ Count(c) \/ Recheck(c) \/ FinishRead(c) \/ WakeCloser(c)
    \/ \E key \in Keys : NeedsFollowup(c, key)
    \/ Followup(c)

MutateStep(c) ==
    \/ Submit(c) \/ Replied(c)
    \/ BeginBarrier(c) \/ DrainMutating(c) \/ EndBarrier(c)

CloseStep(c) ==
    \/ Close(c) \/ DrainReads(c) \/ SleepForReads(c) \/ DrainOps(c) \/ RequestShutdown(c)
    \/ Join(c) \/ TakeCore(c) \/ SetClosed(c) \/ Announce(c)

BarrierStep(t) ==
    \/ DrainEvents(t) \/ Observe(t) \/ Inspect(t) \/ BarrierBatched(t) \/ AwaitEvent(t)

ClientStep(c) == ReadStep(c) \/ MutateStep(c) \/ CloseStep(c) \/ BarrierStep(c)

CoordinatorStep ==
    \/ PickCommand \/ Dispatch \/ CommandBatched \/ Stop
    \/ \E request \in current : Execute(request) \/ Complete(request)
    \/ BarrierStep(Coordinator)

Next ==
    \/ \E c \in Clients, k \in Kinds : Call(c, k)
    \/ \E c \in Clients : ClientStep(c)
    \/ CoordinatorStep
    \/ JobEnds \/ JobNotifies

Spec == Init /\ [][Next]_vars

(* Threads are scheduled: the operating system runs every thread that can  *)
(* run.  Nobody has to call.                                               *)
FairSpec ==
    /\ Spec
    /\ \A c \in Clients : WF_vars(ClientStep(c))
    /\ WF_vars(CoordinatorStep) /\ WF_vars(JobEnds) /\ WF_vars(JobNotifies)

-----------------------------------------------------------------------------
(* Properties *)

Labels == {"idle", "admit", "count", "recheck", "reading", "finish", "wake", "followup",
           "submit", "reply", "replied", "barrier", "draining", "release",
           "observe", "inspect", "barrierBatch", "barrierBatched", "event",
           "wait", "batch", "batched", "execute", "afterBatch", "afterBatched", "complete",
           "stop", "stopped", "close", "drainReads", "sleepy", "drainOps", "request", "join",
           "takeCore", "setClosed", "announce"}

FlagsTypeOK ==
    /\ openState \in {"Open", "Closing", "Closed"}
    /\ closing \in BOOLEAN /\ closed \in BOOLEAN /\ barrier \in BOOLEAN
    /\ workReady \in BOOLEAN /\ shutdown \in BOOLEAN /\ active \in BOOLEAN
    /\ core \in BOOLEAN /\ waiting \in BOOLEAN /\ sawShutdown \in BOOLEAN

CountersTypeOK ==
    /\ reads \in Nat /\ nonRead \in Nat /\ mutating \in Nat /\ seq \in Nat
    /\ running \in Nat /\ ready \in Nat /\ signals \in Nat
    /\ pending \in Seq(Requests) /\ current \subseteq Requests /\ followups \subseteq Keys
    /\ calls \in Nat /\ jobs \in Nat

ThreadsTypeOK ==
    /\ pc \in [Threads -> Labels]
    /\ kind \in [Clients -> Kinds \cup {"none"}] /\ index \in [Clients -> Keys]
    /\ seen \in [Threads -> Nat] /\ progressed \in [Threads -> BOOLEAN]
    /\ asleep \subseteq Threads /\ drainAsleep \subseteq Clients

(* Every field of RuntimeLifecycleState and of DbRuntime keeps its type;   *)
(* the counters, usize in the code, never go below zero (the code          *)
(* subtracts with saturating_sub and a debug assertion).                   *)
TypeOK == FlagsTypeOK /\ CountersTypeOK /\ ThreadsTypeOK

Guarded    == {"recheck", "reading", "followup", "finish"}
Barriered  == {"observe", "inspect", "barrierBatch", "barrierBatched", "event", "release"}
Readers    == {c \in Clients : pc[c] \in Guarded}
Exclusive  == {c \in Clients : pc[c] \in Barriered}
Unanswered == {c \in Clients : pc[c] = "reply"}

(* compact_with_progress works on its own thread: while it holds the       *)
(* barrier no command is queued or executing and nobody else holds it.     *)
BarrierExcludesMutations ==
    \A c \in Exclusive : pending = <<>> /\ current = {} /\ \A d \in Exclusive : d = c

(* close() hands the core over only when nothing can reach it any more: no *)
(* admitted reader, no barrier, no command, and the coordinator stopped.   *)
NoWorkAfterClose ==
    ~core => /\ {c \in Readers : pc[c] \in {"reading", "followup"}} = {} /\ Exclusive = {}
             /\ pending = <<>> /\ current = {} /\ pc[Coordinator] = "stopped"

(* The counters close() and the barrier wait on are exact: one for every   *)
(* queued or executing command, one more for the barrier, one for every    *)
(* guard of a reader; and the queue with the command in hand never exceeds *)
(* its capacity.                                                           *)
CommandsCounted ==
    /\ mutating = Occupancy /\ Occupancy <= Capacity
    /\ nonRead = mutating + (IF barrier THEN 1 ELSE 0)
    /\ active <=> current # {}

CountersExact == CommandsCounted /\ reads = Cardinality(Readers)

(* A submitted command is never dropped, duplicated or answered twice:     *)
(* exactly the clients that wait for a reply have one command in the       *)
(* queue or in the coordinator's hands, and a pending followup key has     *)
(* exactly one command.                                                    *)
Asks(r, c)       == r.kind # "followup" /\ r.by = c
Repairs(r, key)  == r.kind = "followup" /\ r.key = key
SameCaller(r, s) == \/ \E c \in Clients : Asks(r, c) /\ Asks(s, c)
                    \/ \E key \in Keys : Repairs(r, key) /\ Repairs(s, key)
Commands         == {pending[i] : i \in DOMAIN pending} \cup current

OneReplyPerSubmit ==
    /\ \A c \in Clients : c \in Unanswered <=> \E r \in Commands : Asks(r, c)
    /\ \A key \in Keys : key \in followups <=> \E r \in Commands : Repairs(r, key)
    /\ \A i, j \in DOMAIN pending : SameCaller(pending[i], pending[j]) => i = j
    /\ \A i \in DOMAIN pending : \A r \in current : ~SameCaller(pending[i], r)
    /\ \A r, s \in current : r = s

(* Something will still notify a thread that waits for a lifecycle event.  *)
Announcing == \E t \in Threads : /\ pc[t] \in {"batched", "afterBatched", "barrierBatched"}
                                 /\ progressed[t]

EventComing ==
    \/ running > 0 \/ signals > 0
    \/ ready > 0 /\ pc[Coordinator] = "batch"
    \/ Announcing

(* What a thread that sleeps on lifecycle_cv waits for. *)
HasReason(t) ==
    /\ pc[t] \in {"submit", "followup"} => barrier \/ Occupancy >= Capacity
    /\ pc[t] = "barrier"  => barrier
    /\ pc[t] = "draining" => mutating > 0
    /\ pc[t] = "drainOps" => nonRead > 0
    /\ pc[t] = "event"    => EventComing
    /\ pc[t] = "wait"     => ~shutdown /\ IF waiting THEN EventComing ELSE pending = <<>>

(* No missed wakeup on lifecycle_cv: whoever sleeps there sleeps for       *)
(* something that is still to come, although close() sets closing without  *)
(* a notification.                                                         *)
SleepersHaveAReason == \A t \in asleep : HasReason(t)

-----------------------------------------------------------------------------
(* Why these invariants are inductive *)

CoordinatorLabels == {"wait", "batch", "batched", "execute", "observe", "inspect", "barrierBatch",
                      "barrierBatched", "event", "afterBatch", "afterBatched", "complete", "stop",
                      "stopped"}
ClientLabels      == (Labels \ CoordinatorLabels)
                       \cup {"observe", "inspect", "barrierBatch", "barrierBatched", "event"}
SleepLabels       == {"submit", "followup", "barrier", "draining", "drainOps", "event", "wait"}

(* Each thread stays in its own part of the code and sleeps only in a loop *)
(* that waits on the condition variable.                                   *)
ControlInv ==
    /\ \A c \in Clients : pc[c] \in ClientLabels
    /\ pc[Coordinator] \in CoordinatorLabels
    /\ \A c \in Clients : pc[c] = "submit" => kind[c] \in Mutating
    /\ \A t \in asleep : pc[t] \in SleepLabels

(* The flag of the barrier belongs to one thread, which has waited for the *)
(* commands to end before it works.                                        *)
Holding == Barriered \cup {"draining"}

BarrierInv ==
    /\ barrier => \E c \in Clients : pc[c] \in Holding
    /\ \A c \in Clients : pc[c] \in Holding => barrier
    /\ \A c, d \in Clients : pc[c] \in Holding /\ pc[d] \in Holding => c = d
    /\ \A c \in Clients : pc[c] \in Barriered => mutating = 0

(* close() goes through its phases once; from each phase on, what it has   *)
(* waited for stays away.                                                  *)
FromSetClosed  == {"setClosed", "announce"}
FromTakeCore   == FromSetClosed \cup {"takeCore"}
FromJoin       == FromTakeCore \cup {"join"}
FromRequest    == FromJoin \cup {"request"}
FromDrainOps   == FromRequest \cup {"drainOps"}
FromDrainReads == FromDrainOps \cup {"drainReads", "sleepy"}

CloseIn(phase) == closed \/ \E c \in Clients : pc[c] \in phase

CloseInv ==
    /\ \A c, d \in Clients : pc[c] \in FromDrainReads /\ pc[d] \in FromDrainReads => c = d
    /\ \A c \in Clients : pc[c] \in FromDrainReads => closing /\ ~closed
    /\ closed => closing
    /\ closing <=> openState # "Open"
    /\ CloseIn(FromDrainOps) => \A c \in Clients : pc[c] \notin {"reading", "followup"}
    /\ CloseIn(FromRequest) => nonRead = 0
    /\ shutdown => CloseIn(FromJoin)
    /\ sawShutdown => shutdown
    /\ CloseIn(FromTakeCore) => pc[Coordinator] = "stopped"
    /\ ~core => CloseIn(FromSetClosed) /\ running = 0 /\ ready = 0

(* An event on its way is not forgotten: a finished job has signalled or   *)
(* is about to, or the coordinator is on its way to drain it; a write that *)
(* waits for the lifecycle has a job to wait for, which nobody else can    *)
(* drain; a barrier that goes to sleep has seen the progress counter       *)
(* before the job it waits for ended.                                      *)
AwaitsJob(t) == \/ pc[t] \in {"barrierBatch", "event"}
                \/ pc[t] = "barrierBatched" /\ ~progressed[t]

WakeInv ==
    /\ \A t \in Threads : seen[t] <= seq
    /\ ready > 0 => signals > 0 \/ workReady \/ pc[Coordinator] = "batch"
    /\ waiting => current # {} /\ pc[Coordinator] \in {"wait", "batch", "batched"}
    /\ waiting /\ ~(pc[Coordinator] = "batched" /\ progressed[Coordinator]) => Outstanding > 0
    /\ \A t \in Threads : AwaitsJob(t) => seen[t] < seq \/ Outstanding > 0 \/ Announcing

RuntimeInv ==
    /\ TypeOK /\ ControlInv /\ BarrierInv /\ CloseInv
    /\ CountersExact /\ IsFiniteSet(Readers)
    /\ OneReplyPerSubmit
    /\ WakeInv /\ SleepersHaveAReason

(* Every call of client c other than close returns: a queued write is      *)
(* executed, a caller held up by a full queue, a barrier or backpressure   *)
(* gets its turn or an error.                                              *)
CallReturns(c) ==
    kind[c] \in {"read", "query", "write", "flush", "compact"} ~> kind[c] = "none"

(* Once the admitted reads are drained, close() returns to client c,       *)
(* whatever commands, barriers and background jobs it finds.               *)
DrainedCloseReturns(c) == pc[c] = "drainOps" ~> kind[c] = "none"

(* close() returns. *)
CloseReturns == \A c \in Clients : kind[c] = "close" ~> kind[c] = "none"
=============================================================================
