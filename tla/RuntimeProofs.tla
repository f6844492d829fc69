--------------------------- MODULE RuntimeProofs ----------------------------
(***************************************************************************)
(* The safety invariants of the runtime shell, for any number of clients,  *)
(* calls, background jobs and any capacity of the command queue.           *)
(***************************************************************************)
EXTENDS Runtime, TLAPS, FiniteSetTheorems

\* The steps, by the thread that takes them.
LEMMA StepCases ==
    ASSUME [Next]_vars
    PROVE  \/ \E c \in Clients, k \in Kinds : Call(c, k)
           \/ \E c \in Clients : ReadStep(c) \/ MutateStep(c) \/ CloseStep(c)
           \/ \E t \in Threads : BarrierStep(t)
           \/ PickCommand \/ Dispatch \/ CommandBatched \/ Stop
           \/ \E request \in current : Execute(request) \/ Complete(request)
           \/ JobEnds \/ JobNotifies \/ UNCHANGED vars
    BY DEF Next, ClientStep, CoordinatorStep, Threads

\* A reply goes to a client.
LEMMA AnsweredClients ==
    ASSUME current \subseteq Requests, NEW request \in current
    PROVE  Answered(request) \subseteq Clients
    BY DEF Answered, Requests

\* A command in hand is that of a client which waits for its reply.
LEMMA AnsweredWaits ==
    ASSUME RuntimeInv, NEW request \in current
    PROVE  \A c \in Answered(request) : c \in Clients /\ pc[c] = "reply"
    <1>1. current \subseteq Requests /\ OneReplyPerSubmit
        BY DEF RuntimeInv, TypeOK, CountersTypeOK
    <1>2. QED
        BY <1>1, AnsweredClients DEF OneReplyPerSubmit, Answered, Asks, Commands, Unanswered

\* The counters are positive where the code subtracts from them.
LEMMA CountersPositive ==
    ASSUME RuntimeInv
    PROVE  /\ \A c \in Clients : pc[c] \in Guarded => reads > 0
           /\ \A c \in Clients : pc[c] \in Holding => nonRead > 0
           /\ current # {} => mutating > 0 /\ nonRead > 0
    <1>1. ASSUME NEW c \in Clients, pc[c] \in Guarded
          PROVE  reads > 0
        <2>1. Readers # {}
            BY <1>1 DEF Readers
        <2>2. QED
            BY <2>1, FS_EmptySet, FS_CardinalityType DEF RuntimeInv, CountersExact
    <1>2. ASSUME NEW c \in Clients, pc[c] \in Holding
          PROVE  nonRead > 0
        BY <1>2 DEF RuntimeInv, BarrierInv, CountersExact, CommandsCounted, TypeOK, CountersTypeOK
    <1>3. ASSUME current # {}
          PROVE  mutating > 0 /\ nonRead > 0
        <2>1. active
            BY <1>3 DEF RuntimeInv, CountersExact, CommandsCounted
        <2>2. Occupancy = Len(pending) + 1
            BY <2>1 DEF Occupancy
        <2>3. mutating = Occupancy /\ nonRead = mutating + (IF barrier THEN 1 ELSE 0)
            BY DEF RuntimeInv, CountersExact, CommandsCounted
        <2>4. QED
            BY <2>2, <2>3 DEF RuntimeInv, TypeOK, CountersTypeOK
    <1>4. QED
        BY <1>1, <1>2, <1>3

-----------------------------------------------------------------------------
(* Types *)

\* The flags stay Booleans.
LEMMA FlagsStep ==
    ASSUME FlagsTypeOK, [Next]_vars
    PROVE  FlagsTypeOK'
    <1>1. ASSUME NEW c \in Clients, NEW k \in Kinds, Call(c, k)
          PROVE  FlagsTypeOK'
        BY <1>1 DEF Call, FlagsTypeOK, lifecycle, coordinator
    <1>2. ASSUME NEW c \in Clients, ReadStep(c)
          PROVE  FlagsTypeOK'
        BY <1>2 DEF ReadStep, Admit, Count, Recheck, FinishRead, WakeCloser, NeedsFollowup, Followup, ReadFrame, GuardFrame, SubmitFrame, FlagsTypeOK, lifecycle, coordinator
    <1>3. ASSUME NEW c \in Clients, MutateStep(c)
          PROVE  FlagsTypeOK'
        <2>1. CASE Submit(c)
            BY <2>1, Zenon DEF Submit, SubmitFrame, FlagsTypeOK, coordinator
        <2>2. CASE Replied(c)
            BY <2>2 DEF Replied, ReadFrame, GuardFrame, FlagsTypeOK, lifecycle, coordinator
        <2>3. CASE BeginBarrier(c) \/ DrainMutating(c) \/ EndBarrier(c)
            <3>1. BarrierFrame /\ barrier' \in {barrier, TRUE, FALSE}
                BY <2>3 DEF BeginBarrier, DrainMutating, EndBarrier
            <3>2. UNCHANGED <<openState, closing, closed, workReady, shutdown, active, core, waiting, sawShutdown, drainAsleep>>
                BY <3>1 DEF BarrierFrame, coordinator
            <3>3. QED
                BY <3>1, <3>2 DEF FlagsTypeOK
        <2>4. QED
            BY <1>3, <2>1, <2>2, <2>3 DEF MutateStep
    <1>4. ASSUME NEW c \in Clients, CloseStep(c)
          PROVE  FlagsTypeOK'
        <2>1. CASE Close(c)
            BY <2>1 DEF Close, CloseFrame, FlagsTypeOK, coordinator
        <2>2. CASE DrainReads(c) \/ SleepForReads(c) \/ DrainOps(c)
            BY <2>2 DEF DrainReads, SleepForReads, DrainOps, CloseFrame, FlagsTypeOK, coordinator
        <2>3. CASE RequestShutdown(c)
            BY <2>3 DEF RequestShutdown, CloseFrame, FlagsTypeOK, coordinator
        <2>4. CASE Join(c)
            BY <2>4 DEF Join, CloseFrame, FlagsTypeOK, coordinator
        <2>5. CASE TakeCore(c)
            BY <2>5 DEF TakeCore, CloseFrame, FlagsTypeOK, coordinator
        <2>6. CASE SetClosed(c) \/ Announce(c)
            <3>1. CASE SetClosed(c)
                BY <3>1 DEF SetClosed, CloseFrame, FlagsTypeOK, coordinator
            <3>2. CASE Announce(c)
                BY <3>2 DEF Announce, CloseFrame, FlagsTypeOK, coordinator
            <3>3. QED
                BY <2>6, <3>1, <3>2
        <2>7. QED
            BY <1>4, <2>1, <2>2, <2>3, <2>4, <2>5, <2>6 DEF CloseStep
    <1>5. ASSUME NEW t \in Threads, BarrierStep(t)
          PROVE  FlagsTypeOK'
        BY <1>5 DEF BarrierStep, DrainEvents, Observe, Inspect, BarrierBatched, AwaitEvent, BarrierWorkFrame, FlagsTypeOK, lifecycle, coordinator
    <1>6. CASE PickCommand
        BY <1>6 DEF PickCommand, CoordFrame, FlagsTypeOK
    <1>7. CASE Dispatch
        BY <1>7 DEF Dispatch, CoordFrame, FlagsTypeOK
    <1>8. CASE CommandBatched \/ Stop
        BY <1>8 DEF CommandBatched, Stop, BarrierWorkFrame, CoordFrame, FlagsTypeOK, lifecycle, coordinator
    <1>9. ASSUME NEW request \in current, Execute(request)
          PROVE  FlagsTypeOK'
        BY <1>9 DEF Execute, CoordFrame, FlagsTypeOK
    <1>10. ASSUME NEW request \in current, Complete(request)
           PROVE  FlagsTypeOK'
        BY <1>10 DEF Complete, CoordFrame, FlagsTypeOK
    <1>11. CASE JobEnds \/ UNCHANGED vars
        BY <1>11 DEF JobEnds, vars, FlagsTypeOK, lifecycle, coordinator
    <1>12. CASE JobNotifies
        BY <1>12 DEF JobNotifies, FlagsTypeOK, lifecycle, coordinator
    <1>13. QED
        BY StepCases, <1>1, <1>2, <1>3, <1>4, <1>5, <1>6, <1>7, <1>8, <1>9, <1>10, <1>11, <1>12

\* The counters stay natural numbers, the queue a queue of requests.
LEMMA CountersStep ==
    ASSUME RuntimeInv, [Next]_vars
    PROVE  CountersTypeOK'
    <1> USE RuntimeAssumption
    <1>0. CountersTypeOK /\ ThreadsTypeOK /\ ControlInv
        BY DEF RuntimeInv, TypeOK
    <1>1. ASSUME NEW c \in Clients, NEW k \in Kinds, Call(c, k)
          PROVE  CountersTypeOK'
        BY <1>0, <1>1 DEF Call, CountersTypeOK, lifecycle, coordinator, background
    <1>2. ASSUME NEW c \in Clients, ReadStep(c)
          PROVE  CountersTypeOK'
        <2>1. CASE Admit(c) \/ Count(c) \/ Recheck(c) \/ WakeCloser(c) \/ \E key \in Keys : NeedsFollowup(c, key)
            <3>1. GuardFrame /\ reads' \in {reads, reads + 1}
                BY <2>1 DEF Admit, Count, Recheck, WakeCloser, NeedsFollowup, ReadFrame
            <3>2. UNCHANGED <<nonRead, mutating, seq, running, ready, signals, pending, current, followups, calls, jobs>>
                BY <3>1 DEF GuardFrame, lifecycle, coordinator, background
            <3>3. QED
                BY <1>0, <3>1, <3>2 DEF CountersTypeOK
        <2>2. CASE FinishRead(c)
            BY <1>0, <2>2, CountersPositive DEF FinishRead, At, Guarded, ReadFrame, GuardFrame, CountersTypeOK, lifecycle, coordinator, background
        <2>3. CASE Followup(c)
            <3>1. [kind |-> "followup", key |-> index[c]] \in Requests /\ index[c] \in Keys
                BY <1>0 DEF ThreadsTypeOK, Requests
            <3>2. SubmitFrame
                BY <2>3 DEF Followup
            <3>3. \/ UNCHANGED <<nonRead, mutating, pending, followups>>
                  \/ /\ followups' = followups \cup {index[c]}
                     /\ Enqueue([kind |-> "followup", key |-> index[c]])
                BY <2>3 DEF Followup
            <3>4. QED
                BY <1>0, <3>1, <3>2, <3>3 DEF Enqueue, SubmitFrame, CountersTypeOK, coordinator, background
        <2>4. QED
            BY <1>2, <2>1, <2>2, <2>3 DEF ReadStep
    <1>3. ASSUME NEW c \in Clients, MutateStep(c)
          PROVE  CountersTypeOK'
        <2>1. CASE Submit(c)
            <3>1. [kind |-> kind[c], by |-> c] \in Requests
                BY <1>0, <2>1 DEF Submit, At, ControlInv, Mutating, Requests
            <3>2. SubmitFrame /\ followups' = followups
                BY <2>1 DEF Submit
            <3>3. UNCHANGED <<nonRead, mutating, pending>> \/ Enqueue([kind |-> kind[c], by |-> c])
                BY <2>1 DEF Submit
            <3>4. QED
                BY <1>0, <3>1, <3>2, <3>3 DEF Enqueue, SubmitFrame, CountersTypeOK, coordinator, background
        <2>2. CASE Replied(c)
            <3>1. UNCHANGED <<reads, nonRead, mutating, seq, running, ready, signals, pending, current, followups, calls, jobs>>
                BY <2>2 DEF Replied, ReadFrame, GuardFrame, lifecycle, coordinator, background
            <3>2. QED
                BY <1>0, <3>1 DEF CountersTypeOK
        <2>3. CASE BeginBarrier(c)
            BY <1>0, <2>3 DEF BeginBarrier, BarrierFrame, CountersTypeOK, coordinator, background
        <2>4. CASE DrainMutating(c)
            BY <1>0, <2>4, CountersPositive DEF DrainMutating, At, Holding, BarrierFrame, CountersTypeOK, coordinator, background
        <2>5. CASE EndBarrier(c)
            BY <1>0, <2>5, CountersPositive DEF EndBarrier, At, Holding, Barriered, BarrierFrame, CountersTypeOK, coordinator, background
        <2>6. QED
            BY <1>3, <2>1, <2>2, <2>3, <2>4, <2>5 DEF MutateStep
    <1>4. ASSUME NEW c \in Clients, CloseStep(c)
          PROVE  CountersTypeOK'
        <2>1. CloseFrame
            BY <1>4 DEF CloseStep, Close, DrainReads, SleepForReads, DrainOps, RequestShutdown, Join, TakeCore, SetClosed, Announce
        <2>2. UNCHANGED <<running, ready>> \/ (running' = 0 /\ ready' = 0)
            BY <1>4 DEF CloseStep, Close, DrainReads, SleepForReads, DrainOps, RequestShutdown, Join, TakeCore, SetClosed, Announce
        <2>3. QED
            BY <1>0, <2>1, <2>2 DEF CloseFrame, CountersTypeOK, coordinator
    <1>5. ASSUME NEW t \in Threads, BarrierStep(t)
          PROVE  CountersTypeOK'
        <2>1. CASE DrainEvents(t)
            <3>1. UNCHANGED <<reads, nonRead, mutating, seq, signals, pending, current, followups, calls>>
                BY <2>1 DEF DrainEvents, lifecycle, coordinator
            <3>2. /\ ready' \in {ready, 0}
                  /\ \E more \in {0, 1} : running' = running + more /\ jobs' = jobs + more
                BY <1>0, <2>1 DEF DrainEvents, CountersTypeOK
            <3>3. QED
                BY <1>0, <3>1, <3>2 DEF CountersTypeOK
        <2>2. CASE Observe(t) \/ Inspect(t) \/ BarrierBatched(t) \/ AwaitEvent(t)
            <3>1. BarrierWorkFrame /\ seq' \in {seq, seq + 1}
                BY <2>2 DEF Observe, Inspect, BarrierBatched, AwaitEvent, Progress
            <3>2. UNCHANGED <<reads, nonRead, mutating, running, ready, signals, pending, current, followups, calls, jobs>>
                BY <3>1 DEF BarrierWorkFrame, lifecycle, coordinator, background
            <3>3. QED
                BY <1>0, <3>1, <3>2 DEF CountersTypeOK
        <2>3. QED
            BY <1>5, <2>1, <2>2 DEF BarrierStep
    <1>6. CASE PickCommand
        BY <1>0, <1>6 DEF PickCommand, CoordFrame, CountersTypeOK
    <1>7. CASE Dispatch \/ CommandBatched \/ Stop
        <2>1. CASE Dispatch
            BY <1>0, <2>1 DEF Dispatch, Progress, CoordFrame, CountersTypeOK
        <2>2. CASE CommandBatched \/ Stop
            <3>1. CASE CommandBatched
                BY <1>0, <3>1 DEF CommandBatched, Progress, BarrierWorkFrame, CountersTypeOK, lifecycle, coordinator, background
            <3>2. CASE Stop
                <4>1. UNCHANGED <<reads, nonRead, mutating, seq, running, ready, signals, pending, current, followups, calls, jobs>>
                    BY <3>2 DEF Stop, CoordFrame, coordinator
                <4>2. QED
                    BY <1>0, <4>1 DEF CountersTypeOK
            <3>3. QED
                BY <2>2, <3>1, <3>2
        <2>3. QED
            BY <1>7, <2>1, <2>2
    <1>8. ASSUME NEW request \in current, Execute(request)
          PROVE  CountersTypeOK'
        BY <1>0, <1>8 DEF Execute, CoordFrame, CountersTypeOK
    <1>9. ASSUME NEW request \in current, Complete(request)
          PROVE  CountersTypeOK'
        BY <1>0, <1>9, CountersPositive DEF Complete, CoordFrame, CountersTypeOK
    <1>10. CASE JobEnds
        BY <1>0, <1>10 DEF JobEnds, CountersTypeOK, lifecycle, coordinator
    <1>11. CASE JobNotifies
        BY <1>0, <1>11 DEF JobNotifies, CountersTypeOK, lifecycle, coordinator
    <1>12. CASE UNCHANGED vars
        BY <1>0, <1>12 DEF vars, CountersTypeOK, lifecycle, coordinator, background
    <1>13. QED
        BY StepCases, <1>1, <1>2, <1>3, <1>4, <1>5, <1>6, <1>7, <1>8, <1>9, <1>10, <1>11, <1>12

\* Each thread's place in the code and its local variables keep their types.
LEMMA ThreadsStep ==
    ASSUME RuntimeInv, [Next]_vars
    PROVE  ThreadsTypeOK'
    <1> USE RuntimeAssumption
    <1>0. ThreadsTypeOK /\ CountersTypeOK
        BY DEF RuntimeInv, TypeOK
    <1>1. ASSUME NEW c \in Clients, NEW k \in Kinds, Call(c, k)
          PROVE  ThreadsTypeOK'
        <2>1. Entry(k) \in Labels
            BY DEF Entry, Mutating, Labels
        <2>2. QED
            BY <1>0, <1>1, <2>1 DEF Call, Goto, Threads, ThreadsTypeOK, locals
    <1>2. ASSUME NEW c \in Clients, ReadStep(c)
          PROVE  ThreadsTypeOK'
        <2>1. CASE Admit(c) \/ Count(c) \/ Recheck(c)
            BY <1>0, <2>1 DEF Admit, Count, Recheck, ReadFrame, GuardFrame, ThreadsTypeOK, locals, Return, Goto, Threads, Labels
        <2>2. CASE FinishRead(c) \/ WakeCloser(c)
            BY <1>0, <2>2 DEF FinishRead, WakeCloser, ReadFrame, GuardFrame, ThreadsTypeOK, locals, Return, Goto, Threads, Labels
        <2>3. ASSUME NEW key \in Keys, NeedsFollowup(c, key)
              PROVE  ThreadsTypeOK'
            BY <1>0, <2>3 DEF NeedsFollowup, GuardFrame, ThreadsTypeOK, locals, Goto, Threads, Labels
        <2>4. CASE Followup(c)
            BY <1>0, <2>4 DEF Followup, Enqueue, NotifyAll, Sleep, SubmitFrame, ThreadsTypeOK, locals, Goto, Threads, Labels
        <2>5. QED
            BY <1>2, <2>1, <2>2, <2>3, <2>4 DEF ReadStep
    <1>3. ASSUME NEW c \in Clients, MutateStep(c)
          PROVE  ThreadsTypeOK'
        <2>1. CASE Submit(c)
            BY <1>0, <2>1 DEF Submit, Enqueue, NotifyAll, Sleep, SubmitFrame, ThreadsTypeOK, locals, Return, Goto, Threads, Labels
        <2>2. CASE Replied(c)
            BY <1>0, <2>2 DEF Replied, ReadFrame, GuardFrame, ThreadsTypeOK, locals, Return, Goto, Threads, Labels
        <2>3. CASE BeginBarrier(c)
            BY <1>0, <2>3 DEF BeginBarrier, Sleep, BarrierFrame, ThreadsTypeOK, locals, Return, Goto, Threads, Labels
        <2>4. CASE DrainMutating(c)
            BY <1>0, <2>4 DEF DrainMutating, Sleep, NotifyAll, BarrierFrame, ThreadsTypeOK, locals, Return, Goto, Threads, Labels
        <2>5. CASE EndBarrier(c)
            BY <1>0, <2>5 DEF EndBarrier, NotifyAll, BarrierFrame, ThreadsTypeOK, locals, Return, Goto, Threads, Labels
        <2>6. QED
            BY <1>3, <2>1, <2>2, <2>3, <2>4, <2>5 DEF MutateStep
    <1>4. ASSUME NEW c \in Clients, CloseStep(c)
          PROVE  ThreadsTypeOK'
        <2>1. CASE Close(c) \/ DrainReads(c) \/ SleepForReads(c)
            BY <1>0, <2>1 DEF Close, DrainReads, SleepForReads, CloseFrame, ThreadsTypeOK, locals, Return, Goto, Threads, Labels
        <2>2. CASE DrainOps(c) \/ RequestShutdown(c) \/ Join(c)
            BY <1>0, <2>2 DEF DrainOps, RequestShutdown, Join, Sleep, NotifyAll, CloseFrame, ThreadsTypeOK, locals, Goto, Threads, Labels
        <2>3. CASE TakeCore(c) \/ SetClosed(c) \/ Announce(c)
            BY <1>0, <2>3 DEF TakeCore, SetClosed, Announce, NotifyAll, CloseFrame, ThreadsTypeOK, locals, Return, Goto, Threads, Labels
        <2>4. QED
            BY <1>4, <2>1, <2>2, <2>3 DEF CloseStep
    <1>5. ASSUME NEW t \in Threads, BarrierStep(t)
          PROVE  ThreadsTypeOK'
        <2>1. CASE DrainEvents(t)
            BY <1>0, <2>1 DEF DrainEvents, BatchLabels, ThreadsTypeOK, Goto, Labels
        <2>2. CASE Observe(t)
            BY <1>0, <2>2 DEF Observe, BarrierWorkFrame, ThreadsTypeOK, CountersTypeOK, Goto, Labels
        <2>3. CASE Inspect(t)
            BY <1>0, <2>3 DEF Inspect, BarrierWorkFrame, ThreadsTypeOK, Goto, Labels
        <2>4. CASE BarrierBatched(t) \/ AwaitEvent(t)
            BY <1>0, <2>4 DEF BarrierBatched, AwaitEvent, Progress, NotifyAll, Sleep, BarrierWorkFrame, ThreadsTypeOK, Goto, Labels
        <2>5. QED
            BY <1>5, <2>1, <2>2, <2>3, <2>4 DEF BarrierStep
    <1>6. CASE PickCommand
        BY <1>0, <1>6 DEF PickCommand, Sleep, CoordFrame, ThreadsTypeOK, Goto, Threads, Labels
    <1>7. CASE Dispatch
        BY <1>0, <1>7 DEF Dispatch, Progress, NotifyAll, CoordFrame, ThreadsTypeOK, Goto, Threads, Labels
    <1>8. CASE CommandBatched \/ Stop
        BY <1>0, <1>8 DEF CommandBatched, Stop, Progress, NotifyAll, BarrierWorkFrame, CoordFrame, ThreadsTypeOK, Goto, Threads, Labels
    <1>9. ASSUME NEW request \in current, Execute(request)
          PROVE  ThreadsTypeOK'
        BY <1>0, <1>9 DEF Execute, CoordFrame, ThreadsTypeOK, Goto, Threads, Labels
    <1>10. ASSUME NEW request \in current, Complete(request)
           PROVE  ThreadsTypeOK'
        BY <1>0, <1>10 DEF Complete, NotifyAll, CoordFrame, ThreadsTypeOK, Threads, Labels
    <1>11. CASE JobEnds \/ JobNotifies \/ UNCHANGED vars
        BY <1>0, <1>11 DEF JobEnds, JobNotifies, NotifyAll, vars, ThreadsTypeOK, locals
    <1>12. QED
        BY StepCases, <1>1, <1>2, <1>3, <1>4, <1>5, <1>6, <1>7, <1>8, <1>9, <1>10, <1>11

-----------------------------------------------------------------------------
(* Control: every thread in its own part of the code *)

\* A thread only moves within its part of the code, and never while it sleeps.
LEMMA ControlStep ==
    ASSUME RuntimeInv, [Next]_vars
    PROVE  ControlInv'
    <1> USE RuntimeAssumption
    <1>0. ThreadsTypeOK /\ ControlInv
        BY DEF RuntimeInv, TypeOK
    <1> USE DEF Labels, ClientLabels, CoordinatorLabels, SleepLabels
    <1>1. ASSUME NEW c \in Clients, NEW k \in Kinds, Call(c, k)
          PROVE  ControlInv'
        BY <1>0, <1>1 DEF Call, Entry, Mutating, Goto, Threads, ThreadsTypeOK, ControlInv
    <1>2. ASSUME NEW c \in Clients, ReadStep(c)
          PROVE  ControlInv'
        <2>1. CASE Admit(c) \/ Count(c) \/ Recheck(c)
            BY <1>0, <2>1 DEF Admit, Count, Recheck, ReadFrame, GuardFrame, ThreadsTypeOK, Return, Goto, At, Threads, ControlInv
        <2>2. CASE FinishRead(c) \/ WakeCloser(c)
            BY <1>0, <2>2 DEF FinishRead, WakeCloser, ReadFrame, GuardFrame, ThreadsTypeOK, Return, Goto, At, Threads, ControlInv
        <2>3. ASSUME NEW key \in Keys, NeedsFollowup(c, key)
              PROVE  ControlInv'
            BY <1>0, <2>3 DEF NeedsFollowup, GuardFrame, ThreadsTypeOK, Goto, At, Threads, ControlInv
        <2>4. CASE Followup(c)
            <3>1. pc[c] = "followup" /\ c \notin asleep /\ kind' = kind
                BY <2>4 DEF Followup, At
            <3>2. \/ Goto(c, "finish") /\ asleep' \in {asleep, {}}
                  \/ pc' = pc /\ Sleep(c)
                BY <2>4 DEF Followup, Enqueue, NotifyAll
            <3>3. QED
                BY <1>0, <3>1, <3>2 DEF Sleep, ThreadsTypeOK, Goto, Threads, ControlInv
        <2>5. QED
            BY <1>2, <2>1, <2>2, <2>3, <2>4 DEF ReadStep
    <1>3. ASSUME NEW c \in Clients, MutateStep(c)
          PROVE  ControlInv'
        <2>1. CASE Submit(c)
            <3>1. pc[c] = "submit" /\ c \notin asleep
                BY <2>1 DEF Submit, At
            <3>2. \/ Return(c) /\ asleep' = asleep
                  \/ Goto(c, "reply") /\ asleep' \in {asleep, {}} /\ kind' = kind
                  \/ pc' = pc /\ Sleep(c) /\ kind' = kind
                BY <2>1 DEF Submit, Enqueue, NotifyAll
            <3>3. QED
                BY <1>0, <3>1, <3>2 DEF Sleep, ThreadsTypeOK, Return, Goto, Threads, ControlInv
        <2>2. CASE Replied(c)
            BY <1>0, <2>2 DEF Replied, ReadFrame, GuardFrame, ThreadsTypeOK, Return, Goto, At, Threads, ControlInv
        <2>3. CASE BeginBarrier(c)
            BY <1>0, <2>3 DEF BeginBarrier, Sleep, BarrierFrame, ThreadsTypeOK, Return, Goto, At, Threads, ControlInv
        <2>4. CASE DrainMutating(c)
            BY <1>0, <2>4 DEF DrainMutating, Sleep, NotifyAll, BarrierFrame, ThreadsTypeOK, Return, Goto, At, Threads, ControlInv
        <2>5. CASE EndBarrier(c)
            BY <1>0, <2>5 DEF EndBarrier, NotifyAll, BarrierFrame, ThreadsTypeOK, Return, Goto, At, Threads, ControlInv
        <2>6. QED
            BY <1>3, <2>1, <2>2, <2>3, <2>4, <2>5 DEF MutateStep
    <1>4. ASSUME NEW c \in Clients, CloseStep(c)
          PROVE  ControlInv'
        <2>1. CASE Close(c) \/ DrainReads(c) \/ SleepForReads(c)
            BY <1>0, <2>1 DEF Close, DrainReads, SleepForReads, CloseFrame, ThreadsTypeOK, Return, Goto, At, Threads, ControlInv
        <2>2. CASE DrainOps(c) \/ RequestShutdown(c) \/ Join(c)
            BY <1>0, <2>2 DEF DrainOps, RequestShutdown, Join, Sleep, NotifyAll, CloseFrame, ThreadsTypeOK, Goto, At, Threads, ControlInv
        <2>3. CASE TakeCore(c) \/ SetClosed(c) \/ Announce(c)
            BY <1>0, <2>3 DEF TakeCore, SetClosed, Announce, NotifyAll, CloseFrame, ThreadsTypeOK, Return, Goto, At, Threads, ControlInv
        <2>4. QED
            BY <1>4, <2>1, <2>2, <2>3 DEF CloseStep
    <1>5. ASSUME NEW t \in Threads, BarrierStep(t)
          PROVE  ControlInv'
        <2>1. CASE DrainEvents(t)
            BY <1>0, <2>1 DEF DrainEvents, BatchLabels, ThreadsTypeOK, Goto, Threads, ControlInv
        <2>2. CASE Observe(t)
            BY <1>0, <2>2 DEF Observe, BarrierWorkFrame, ThreadsTypeOK, Goto, At, Threads, ControlInv
        <2>3. CASE Inspect(t)
            BY <1>0, <2>3 DEF Inspect, BarrierWorkFrame, ThreadsTypeOK, Goto, At, Threads, ControlInv
        <2>4. CASE BarrierBatched(t) \/ AwaitEvent(t)
            BY <1>0, <2>4 DEF BarrierBatched, AwaitEvent, Progress, NotifyAll, Sleep, BarrierWorkFrame, ThreadsTypeOK, Goto, At, Threads, ControlInv
        <2>5. QED
            BY <1>5, <2>1, <2>2, <2>3, <2>4 DEF BarrierStep
    <1>6. CASE PickCommand
        BY <1>0, <1>6 DEF PickCommand, Sleep, CoordFrame, ThreadsTypeOK, Goto, At, Threads, ControlInv
    <1>7. CASE Dispatch
        BY <1>0, <1>7 DEF Dispatch, Progress, NotifyAll, CoordFrame, ThreadsTypeOK, Goto, At, Threads, ControlInv
    <1>8. CASE CommandBatched \/ Stop
        BY <1>0, <1>8 DEF CommandBatched, Stop, Progress, NotifyAll, BarrierWorkFrame, CoordFrame, ThreadsTypeOK, Goto, At, Threads, ControlInv
    <1>9. ASSUME NEW request \in current, Execute(request)
          PROVE  ControlInv'
        BY <1>0, <1>9 DEF Execute, CoordFrame, ThreadsTypeOK, Goto, At, Threads, ControlInv
    <1>10. ASSUME NEW request \in current, Complete(request)
           PROVE  ControlInv'
        <2>1. Answered(request) \subseteq Clients
            BY AnsweredClients, <1>10 DEF RuntimeInv, TypeOK, CountersTypeOK
        <2>2. QED
            BY <1>0, <1>10, <2>1 DEF Complete, NotifyAll, CoordFrame, ThreadsTypeOK, Threads, ControlInv
    <1>11. CASE JobEnds \/ JobNotifies \/ UNCHANGED vars
        BY <1>0, <1>11 DEF JobEnds, JobNotifies, NotifyAll, vars, ControlInv
    <1>12. QED
        BY StepCases, <1>1, <1>2, <1>3, <1>4, <1>5, <1>6, <1>7, <1>8, <1>9, <1>10, <1>11

-----------------------------------------------------------------------------
(* The barrier: one holder, which works only when no command is left *)

\* A step of a thread outside the barrier's code leaves the barrier alone.
LEMMA BarrierKept ==
    ASSUME BarrierInv, barrier' = barrier,
           mutating' = mutating \/ \A c \in Clients : pc[c] \notin Barriered,
           \A c \in Clients : /\ pc'[c] \in Holding <=> pc[c] \in Holding
                              /\ pc'[c] \in Barriered <=> pc[c] \in Barriered
    PROVE  BarrierInv'
    BY DEF BarrierInv

\* The barrier is taken by one thread at a time, and only with no command left.
LEMMA BarrierInvStep ==
    ASSUME RuntimeInv, [Next]_vars
    PROVE  BarrierInv'
    <1> USE RuntimeAssumption
    <1>0. ThreadsTypeOK /\ ControlInv /\ BarrierInv
        BY DEF RuntimeInv, TypeOK
    <1> DEFINE Kept == \A c \in Clients : /\ pc'[c] \in Holding <=> pc[c] \in Holding
                                          /\ pc'[c] \in Barriered <=> pc[c] \in Barriered
    <1> USE DEF Holding, Barriered
    <1>1. ASSUME NEW c \in Clients, NEW k \in Kinds, Call(c, k)
          PROVE  BarrierInv'
        <2>1. Kept
            BY <1>0, <1>1 DEF Call, Entry, Mutating, Goto, Threads, ThreadsTypeOK
        <2>2. barrier' = barrier /\ mutating' = mutating
            BY <1>1 DEF Call, lifecycle
        <2>3. QED
            BY <1>0, <2>1, <2>2, BarrierKept
    <1>2. ASSUME NEW c \in Clients, ReadStep(c)
          PROVE  BarrierInv'
        <2>1. Kept
            BY <1>0, <1>2 DEF ReadStep, Admit, Count, Recheck, FinishRead, WakeCloser, NeedsFollowup, Followup, ThreadsTypeOK, Return, Goto, At, Threads
        <2>2. CASE ~Followup(c)
            <3>1. barrier' = barrier /\ mutating' = mutating
                BY <1>2, <2>2 DEF ReadStep, Admit, Count, Recheck, FinishRead, WakeCloser, NeedsFollowup, ReadFrame, GuardFrame, lifecycle
            <3>2. QED
                BY <1>0, <2>1, <3>1, BarrierKept
        <2>3. CASE Followup(c)
            <3>1. barrier' = barrier /\ (mutating' = mutating \/ ~barrier)
                BY <2>3 DEF Followup, SubmitFrame
            <3>2. QED
                BY <1>0, <2>1, <3>1, BarrierKept DEF BarrierInv
        <2>4. QED
            BY <2>2, <2>3
    <1>3. ASSUME NEW c \in Clients, Submit(c)
          PROVE  BarrierInv'
        <2>1. Kept
            BY <1>0, <1>3 DEF Submit, ThreadsTypeOK, Return, Goto, At, Threads
        <2>2. barrier' = barrier /\ (mutating' = mutating \/ ~barrier)
            BY <1>3 DEF Submit, SubmitFrame
        <2>3. QED
            BY <1>0, <2>1, <2>2, BarrierKept DEF BarrierInv
    <1>4. ASSUME NEW c \in Clients, Replied(c)
          PROVE  BarrierInv'
        <2>1. Kept
            BY <1>0, <1>4 DEF Replied, ThreadsTypeOK, Return, Goto, At, Threads
        <2>2. barrier' = barrier /\ mutating' = mutating
            BY <1>4 DEF Replied, ReadFrame, GuardFrame, lifecycle
        <2>3. QED
            BY <1>0, <2>1, <2>2, BarrierKept
    <1>5. ASSUME NEW c \in Clients, BeginBarrier(c)
          PROVE  BarrierInv'
        <2>1. CASE barrier' = barrier /\ (Return(c) \/ pc' = pc)
            <3>1. Kept
                BY <1>0, <1>5, <2>1 DEF BeginBarrier, ThreadsTypeOK, Return, Goto, At, Threads
            <3>2. mutating' = mutating
                BY <1>5 DEF BeginBarrier, BarrierFrame
            <3>3. QED
                BY <1>0, <2>1, <3>1, <3>2, BarrierKept
        <2>2. CASE ~barrier /\ barrier' = TRUE /\ mutating > 0 /\ Goto(c, "draining")
            BY <1>0, <2>2 DEF ThreadsTypeOK, Goto, Threads, BarrierInv
        <2>3. CASE ~barrier /\ barrier' = TRUE /\ ~(mutating > 0) /\ Goto(c, "observe")
            <3>1. mutating' = 0
                BY <1>5, <2>3 DEF BeginBarrier, BarrierFrame, RuntimeInv, TypeOK, CountersTypeOK
            <3>2. QED
                BY <1>0, <2>3, <3>1 DEF ThreadsTypeOK, Goto, Threads, BarrierInv
        <2>4. QED
            BY <1>5, <2>1, <2>2, <2>3 DEF BeginBarrier
    <1>6. ASSUME NEW c \in Clients, DrainMutating(c)
          PROVE  BarrierInv'
        <2>1. mutating' = mutating /\ pc[c] = "draining"
            BY <1>6 DEF DrainMutating, BarrierFrame, At
        <2>2. CASE barrier' = FALSE /\ Return(c)
            BY <1>0, <2>1, <2>2 DEF Return, ThreadsTypeOK, Goto, Threads, BarrierInv
        <2>3. CASE barrier' = barrier /\ pc' = pc
            BY <1>0, <2>1, <2>3, BarrierKept
        <2>4. CASE barrier' = barrier /\ mutating = 0 /\ Goto(c, "observe")
            BY <1>0, <2>1, <2>4 DEF ThreadsTypeOK, Goto, Threads, BarrierInv
        <2>5. QED
            BY <1>6, <2>2, <2>3, <2>4 DEF DrainMutating
    <1>7. ASSUME NEW c \in Clients, EndBarrier(c)
          PROVE  BarrierInv'
        BY <1>0, <1>7 DEF EndBarrier, At, Return, ThreadsTypeOK, Goto, Threads, BarrierInv
    <1>8. ASSUME NEW c \in Clients, CloseStep(c)
          PROVE  BarrierInv'
        <2>1. Kept
            BY <1>0, <1>8 DEF CloseStep, Close, DrainReads, SleepForReads, DrainOps, RequestShutdown, Join, TakeCore, SetClosed, Announce, ThreadsTypeOK, Return, Goto, At, Threads
        <2>2. barrier' = barrier /\ mutating' = mutating
            BY <1>8 DEF CloseStep, Close, DrainReads, SleepForReads, DrainOps, RequestShutdown, Join, TakeCore, SetClosed, Announce, CloseFrame
        <2>3. QED
            BY <1>0, <2>1, <2>2, BarrierKept
    <1>9. ASSUME NEW t \in Threads, BarrierStep(t)
          PROVE  BarrierInv'
        <2>1. Kept
            BY <1>0, <1>9 DEF BarrierStep, DrainEvents, BatchLabels, Observe, Inspect, BarrierBatched, AwaitEvent, ThreadsTypeOK, Goto, At, Threads, ControlInv, ClientLabels, CoordinatorLabels, Labels
        <2>2. barrier' = barrier /\ mutating' = mutating
            BY <1>9 DEF BarrierStep, DrainEvents, Observe, Inspect, BarrierBatched, AwaitEvent, BarrierWorkFrame, lifecycle
        <2>3. QED
            BY <1>0, <2>1, <2>2, BarrierKept
    <1>10. CASE PickCommand \/ Dispatch \/ CommandBatched \/ Stop
        <2>1. Kept
            BY <1>0, <1>10 DEF PickCommand, Dispatch, CommandBatched, Stop, ThreadsTypeOK, Goto, At, Threads
        <2>2. barrier' = barrier /\ mutating' = mutating
            BY <1>10 DEF PickCommand, Dispatch, CommandBatched, Stop, BarrierWorkFrame, CoordFrame, lifecycle
        <2>3. QED
            BY <1>0, <2>1, <2>2, BarrierKept
    <1>11. ASSUME NEW request \in current, Execute(request)
           PROVE  BarrierInv'
        <2>1. Kept
            BY <1>0, <1>11 DEF Execute, ThreadsTypeOK, Goto, At, Threads
        <2>2. barrier' = barrier /\ mutating' = mutating
            BY <1>11 DEF Execute, CoordFrame
        <2>3. QED
            BY <1>0, <2>1, <2>2, BarrierKept
    <1>12. ASSUME NEW request \in current, Complete(request)
           PROVE  BarrierInv'
        <2>1. mutating > 0
            BY CountersPositive, <1>12
        <2>2. \A c \in Clients : pc[c] \notin Barriered
            BY <1>0, <2>1 DEF BarrierInv
        <2>3. \A c \in Answered(request) : c \in Clients /\ pc[c] = "reply"
            BY <1>12, AnsweredWaits
        <2>4. Kept
            BY <1>0, <1>12, <2>3 DEF Complete, ThreadsTypeOK, Threads
        <2>5. barrier' = barrier
            BY <1>12 DEF Complete, CoordFrame
        <2>6. QED
            BY <1>0, <2>2, <2>4, <2>5, BarrierKept
    <1>13. CASE JobEnds \/ JobNotifies \/ UNCHANGED vars
        <2>1. pc' = pc /\ barrier' = barrier /\ mutating' = mutating
            BY <1>13 DEF JobEnds, JobNotifies, vars, lifecycle
        <2>2. QED
            BY <1>0, <2>1, BarrierKept
    <1>14. QED
        BY StepCases, <1>1, <1>2, <1>3, <1>4, <1>5, <1>6, <1>7, <1>8, <1>9, <1>10, <1>11, <1>12, <1>13 DEF MutateStep

-----------------------------------------------------------------------------
(* The counters *)

\* The counters of the commands, across the steps that touch neither queue nor barrier.
LEMMA CommandsKept ==
    ASSUME CommandsCounted, UNCHANGED <<mutating, nonRead, barrier, pending, active, current>>
    PROVE  CommandsCounted'
    BY DEF CommandsCounted, Occupancy

\* A command that enters the queue is counted once in either counter.
LEMMA EnqueueCounted ==
    ASSUME CommandsCounted, CountersTypeOK, FlagsTypeOK, NEW request \in Requests,
           ~barrier, Occupancy < Capacity, Enqueue(request),
           UNCHANGED <<barrier, active, current>>
    PROVE  CommandsCounted'
    <1>1. Len(pending') = Len(pending) + 1 /\ Len(pending) \in Nat
        BY DEF Enqueue, CountersTypeOK
    <1>2. Occupancy' = Occupancy + 1 /\ Occupancy \in Nat
        BY <1>1 DEF Occupancy
    <1>3. mutating' = mutating + 1 /\ nonRead' = nonRead + 1
        BY DEF Enqueue
    <1>4. mutating' = Occupancy' /\ Occupancy' <= Capacity
        BY <1>2, <1>3, RuntimeAssumption DEF CommandsCounted
    <1>5. nonRead' = mutating' + (IF barrier' THEN 1 ELSE 0)
        BY <1>3 DEF CommandsCounted, CountersTypeOK
    <1>6. QED
        BY <1>4, <1>5 DEF CommandsCounted

\* close() and the barrier wait on exact counters of the commands.
LEMMA CommandsStep ==
    ASSUME RuntimeInv, [Next]_vars
    PROVE  CommandsCounted'
    <1> USE RuntimeAssumption
    <1>0. CountersTypeOK /\ FlagsTypeOK /\ CommandsCounted
        BY DEF RuntimeInv, TypeOK, CountersExact
    <1> DEFINE Kept == UNCHANGED <<mutating, nonRead, barrier, pending, active, current>>
    <1>1. ASSUME NEW c \in Clients, NEW k \in Kinds, Call(c, k)
          PROVE  Kept
        BY <1>1 DEF Call, lifecycle, coordinator
    <1>2. ASSUME NEW c \in Clients, ReadStep(c)
          PROVE  Kept \/ CommandsCounted'
        <2>1. CASE Followup(c)
            <3>1. [kind |-> "followup", key |-> index[c]] \in Requests
                BY DEF RuntimeInv, TypeOK, ThreadsTypeOK, Requests
            <3>2. UNCHANGED <<barrier, active, current>>
                BY <2>1 DEF Followup, SubmitFrame, coordinator
            <3>3. \/ UNCHANGED <<nonRead, mutating, pending>>
                  \/ ~barrier /\ Occupancy < Capacity /\ Enqueue([kind |-> "followup", key |-> index[c]])
                BY <2>1 DEF Followup
            <3>4. QED
                BY <1>0, <3>1, <3>2, <3>3, EnqueueCounted
        <2>2. CASE ~Followup(c)
            BY <1>2, <2>2 DEF ReadStep, Admit, Count, Recheck, FinishRead, WakeCloser, NeedsFollowup, ReadFrame, GuardFrame, lifecycle, coordinator
        <2>3. QED
            BY <2>1, <2>2
    <1>3. ASSUME NEW c \in Clients, Submit(c)
          PROVE  Kept \/ CommandsCounted'
        <2>1. [kind |-> kind[c], by |-> c] \in Requests
            BY <1>3 DEF Submit, At, RuntimeInv, ControlInv, Mutating, Requests
        <2>2. UNCHANGED <<barrier, active, current>>
            BY <1>3 DEF Submit, SubmitFrame, coordinator
        <2>3. \/ UNCHANGED <<nonRead, mutating, pending>>
              \/ ~barrier /\ Occupancy < Capacity /\ Enqueue([kind |-> kind[c], by |-> c])
            BY <1>3 DEF Submit
        <2>4. QED
            BY <1>0, <2>1, <2>2, <2>3, EnqueueCounted
    <1>4. ASSUME NEW c \in Clients, Replied(c)
          PROVE  Kept
        BY <1>4 DEF Replied, ReadFrame, GuardFrame, lifecycle, coordinator
    <1>5. ASSUME NEW c \in Clients, BeginBarrier(c) \/ DrainMutating(c) \/ EndBarrier(c)
          PROVE  Kept \/ CommandsCounted'
        <2>1. UNCHANGED <<mutating, pending, active, current>>
            BY <1>5 DEF BeginBarrier, DrainMutating, EndBarrier, BarrierFrame, coordinator
        <2>2. BarrierInv
            BY DEF RuntimeInv
        <2>3. \/ UNCHANGED <<barrier, nonRead>>
              \/ ~barrier /\ barrier' /\ nonRead' = nonRead + 1
              \/ barrier /\ ~barrier' /\ nonRead' = nonRead - 1
            BY <1>5, <2>2 DEF BeginBarrier, DrainMutating, EndBarrier, At, BarrierInv, Holding, Barriered
        <2>4. Occupancy' = Occupancy
            BY <2>1 DEF Occupancy
        <2>5. QED
            BY <1>0, <2>1, <2>3, <2>4 DEF CommandsCounted, CountersTypeOK
    <1>6. ASSUME NEW c \in Clients, CloseStep(c)
          PROVE  Kept
        BY <1>6 DEF CloseStep, Close, DrainReads, SleepForReads, DrainOps, RequestShutdown, Join, TakeCore, SetClosed, Announce, CloseFrame, coordinator
    <1>7. ASSUME NEW t \in Threads, BarrierStep(t)
          PROVE  Kept
        BY <1>7 DEF BarrierStep, DrainEvents, Observe, Inspect, BarrierBatched, AwaitEvent, BarrierWorkFrame, lifecycle, coordinator
    <1>8. CASE PickCommand
        <2>1. UNCHANGED <<mutating, nonRead, barrier>>
            BY <1>8 DEF PickCommand, CoordFrame
        <2>2. CASE UNCHANGED <<current, active, pending>>
            BY <1>0, <2>1, <2>2, CommandsKept
        <2>3. CASE /\ current = {} /\ pending # <<>>
                   /\ current' = {Head(pending)} /\ active' = TRUE /\ pending' = Tail(pending)
            <3>1. ~active
                BY <1>0, <2>3 DEF CommandsCounted
            <3>2. Len(pending') = Len(pending) - 1 /\ Len(pending) \in Nat
                BY <1>0, <2>3 DEF CountersTypeOK
            <3>3. Occupancy' = Occupancy
                BY <2>3, <3>1, <3>2 DEF Occupancy
            <3>4. active' <=> current' # {}
                BY <2>3
            <3>5. mutating' = Occupancy' /\ Occupancy' <= Capacity
                BY <1>0, <2>1, <3>3 DEF CommandsCounted
            <3>6. nonRead' = mutating' + (IF barrier' THEN 1 ELSE 0)
                BY <1>0, <2>1 DEF CommandsCounted
            <3>7. QED
                BY <3>4, <3>5, <3>6 DEF CommandsCounted
        <2>4. QED
            BY <1>8, <2>2, <2>3 DEF PickCommand
    <1>9. ASSUME Dispatch \/ CommandBatched \/ Stop
          PROVE  Kept
        BY <1>9 DEF Dispatch, CommandBatched, Stop, BarrierWorkFrame, CoordFrame, lifecycle, coordinator
    <1>10. ASSUME NEW request \in current, Execute(request)
           PROVE  Kept
        BY <1>10 DEF Execute, CoordFrame
    <1>11. ASSUME NEW request \in current, Complete(request)
           PROVE  CommandsCounted'
        <2>1. /\ active' = FALSE /\ current' = {} /\ UNCHANGED <<pending, barrier>>
              /\ nonRead' = nonRead - 1 /\ mutating' = mutating - 1
            BY <1>11 DEF Complete, CoordFrame
        <2>2. active
            BY <1>0, <1>11 DEF CommandsCounted
        <2>3. Occupancy' = Occupancy - 1 /\ Occupancy \in Nat
            BY <1>0, <2>1, <2>2 DEF Occupancy, CountersTypeOK
        <2>4. nonRead' = mutating' + (IF barrier' THEN 1 ELSE 0)
            BY <1>0, <2>1 DEF CommandsCounted, CountersTypeOK
        <2>5. mutating' = Occupancy' /\ Occupancy' <= Capacity
            BY <1>0, <2>1, <2>3 DEF CommandsCounted
        <2>6. QED
            BY <2>1, <2>4, <2>5 DEF CommandsCounted
    <1>12. ASSUME JobEnds \/ JobNotifies \/ UNCHANGED vars
           PROVE  Kept
        BY <1>12 DEF JobEnds, JobNotifies, vars, lifecycle, coordinator
    <1>13. QED
        BY StepCases, CommandsKept, <1>0, <1>1, <1>2, <1>3, <1>4, <1>5, <1>6, <1>7, <1>8, <1>9, <1>10, <1>11, <1>12 DEF MutateStep

\* active_read_ops is the number of read guards, from admission to finish_read_operation.
LEMMA ReadersStep ==
    ASSUME RuntimeInv, [Next]_vars
    PROVE  reads' = Cardinality(Readers') /\ IsFiniteSet(Readers')
    <1> USE RuntimeAssumption
    <1>0. /\ ThreadsTypeOK /\ ControlInv /\ reads = Cardinality(Readers) /\ IsFiniteSet(Readers)
          /\ reads \in Nat
        BY DEF RuntimeInv, TypeOK, CountersTypeOK, CountersExact
    <1> DEFINE Kept == reads' = reads /\ \A c \in Clients : pc'[c] \in Guarded <=> pc[c] \in Guarded
    <1>k. ASSUME Kept
          PROVE  reads' = Cardinality(Readers') /\ IsFiniteSet(Readers')
        <2>1. Readers' = Readers
            BY <1>k DEF Readers
        <2>2. QED
            BY <1>0, <1>k, <2>1
    <1> USE DEF Guarded
    <1>1. ASSUME NEW c \in Clients, NEW k \in Kinds, Call(c, k)
          PROVE  Kept
        BY <1>0, <1>1 DEF Call, Entry, Mutating, Goto, Threads, ThreadsTypeOK
    <1>2. ASSUME NEW c \in Clients, ReadStep(c)
          PROVE  reads' = Cardinality(Readers') /\ IsFiniteSet(Readers')
        <2>1. CASE Count(c)
            <3>1. Readers' = Readers \cup {c} /\ c \notin Readers
                BY <1>0, <2>1 DEF Count, At, Goto, Threads, ThreadsTypeOK, Readers
            <3>2. QED
                BY <1>0, <2>1, <3>1, FS_AddElement DEF Count
        <2>2. CASE FinishRead(c)
            <3>1. Readers' = Readers \ {c} /\ c \in Readers
                BY <1>0, <2>2 DEF FinishRead, Return, At, Goto, Threads, ThreadsTypeOK, Readers
            <3>2. QED
                BY <1>0, <2>2, <3>1, FS_RemoveElement DEF FinishRead
        <2>3. ASSUME Admit(c) \/ Recheck(c) \/ WakeCloser(c) \/ \E key \in Keys : NeedsFollowup(c, key)
              PROVE  Kept
            BY <1>0, <2>3 DEF Admit, Recheck, WakeCloser, NeedsFollowup, Return, At, Goto, Threads, ThreadsTypeOK
        <2>4. ASSUME Followup(c)
              PROVE  Kept
            BY <1>0, <2>4 DEF Followup, SubmitFrame, At, Goto, Threads, ThreadsTypeOK
        <2>5. QED
            BY <1>k, <1>2, <2>1, <2>2, <2>3, <2>4 DEF ReadStep
    <1>3. ASSUME NEW c \in Clients, MutateStep(c)
          PROVE  Kept
        <2>1. CASE Submit(c) \/ Replied(c)
            BY <1>0, <2>1 DEF Submit, Replied, SubmitFrame, ReadFrame, GuardFrame, Return, At, Goto, Threads, ThreadsTypeOK
        <2>2. CASE BeginBarrier(c) \/ DrainMutating(c) \/ EndBarrier(c)
            BY <1>0, <2>2 DEF BeginBarrier, DrainMutating, EndBarrier, BarrierFrame, Return, At, Goto, Threads, ThreadsTypeOK
        <2>3. QED
            BY <1>3, <2>1, <2>2 DEF MutateStep
    <1>4. ASSUME NEW c \in Clients, CloseStep(c)
          PROVE  Kept
        BY <1>0, <1>4 DEF CloseStep, Close, DrainReads, SleepForReads, DrainOps, RequestShutdown, Join, TakeCore, SetClosed, Announce, CloseFrame, Return, At, Goto, Threads, ThreadsTypeOK
    <1>5. ASSUME NEW t \in Threads, BarrierStep(t)
          PROVE  Kept
        BY <1>0, <1>5 DEF BarrierStep, DrainEvents, BatchLabels, Observe, Inspect, BarrierBatched, AwaitEvent, BarrierWorkFrame, At, Goto, Threads, ThreadsTypeOK
    <1>6. ASSUME PickCommand \/ Dispatch \/ CommandBatched \/ Stop
          PROVE  Kept
        BY <1>0, <1>6 DEF PickCommand, Dispatch, CommandBatched, Stop, BarrierWorkFrame, CoordFrame, At, Goto, Threads, ThreadsTypeOK
    <1>7. ASSUME NEW request \in current, Execute(request)
          PROVE  Kept
        BY <1>0, <1>7 DEF Execute, CoordFrame, At, Goto, Threads, ThreadsTypeOK
    <1>8. ASSUME NEW request \in current, Complete(request)
          PROVE  Kept
        <2>1. \A c \in Answered(request) : c \in Clients /\ pc[c] = "reply"
            BY <1>8, AnsweredWaits
        <2>2. QED
            BY <1>0, <1>8, <2>1 DEF Complete, CoordFrame, Threads, ThreadsTypeOK
    <1>9. ASSUME JobEnds \/ JobNotifies \/ UNCHANGED vars
          PROVE  Kept
        BY <1>9 DEF JobEnds, JobNotifies, vars
    <1>10. QED
        BY StepCases, <1>k, <1>1, <1>2, <1>3, <1>4, <1>5, <1>6, <1>7, <1>8, <1>9

-----------------------------------------------------------------------------
(* close(): once it has drained something, that stays drained *)

\* What the steps of the other threads may do while a close() is on its way.
CloseUndisturbed ==
    /\ UNCHANGED <<closing, closed, openState, shutdown, core>>
    /\ \A c \in Clients : \/ pc'[c] = pc[c]
                          \/ pc'[c] \notin FromDrainReads /\ pc[c] \notin FromDrainReads
    /\ \A c \in Clients : pc'[c] \in {"reading", "followup"} =>
                             pc[c] \in {"reading", "followup"} \/ openState = "Open"
    /\ nonRead' = nonRead \/ (~closing /\ ~closed) \/ nonRead > 0
    /\ sawShutdown' => shutdown
    /\ pc[Coordinator] = "stopped" => pc'[Coordinator] = "stopped"
    /\ core \/ (running' = running /\ ready' = ready) \/ running > 0

\* The phases of close() are ordered.
LEMMA Phases ==
    /\ FromSetClosed \subseteq FromTakeCore /\ FromTakeCore \subseteq FromJoin
    /\ FromJoin \subseteq FromRequest /\ FromRequest \subseteq FromDrainOps
    /\ FromDrainOps \subseteq FromDrainReads
    BY DEF FromSetClosed, FromTakeCore, FromJoin, FromRequest, FromDrainOps, FromDrainReads

LEMMA CloseKept ==
    ASSUME CloseInv, CloseUndisturbed
    PROVE  CloseInv'
    <1> USE Phases
    <1>1. /\ CloseIn(FromDrainOps)' <=> CloseIn(FromDrainOps)
          /\ CloseIn(FromRequest)' <=> CloseIn(FromRequest)
          /\ CloseIn(FromJoin)' <=> CloseIn(FromJoin)
          /\ CloseIn(FromTakeCore)' <=> CloseIn(FromTakeCore)
          /\ CloseIn(FromSetClosed)' <=> CloseIn(FromSetClosed)
        BY DEF CloseIn, CloseUndisturbed
    <1>2. CloseIn(FromDrainOps) \/ CloseIn(FromRequest) => closing /\ openState # "Open"
        BY DEF CloseIn, CloseInv
    <1>3. /\ \A c, d \in Clients : pc'[c] \in FromDrainReads /\ pc'[d] \in FromDrainReads => c = d
          /\ \A c \in Clients : pc'[c] \in FromDrainReads => closing' /\ ~closed'
        BY DEF CloseInv, CloseUndisturbed
    <1>4. (closed' => closing') /\ (closing' <=> openState' # "Open")
        BY DEF CloseInv, CloseUndisturbed
    <1>5. CloseIn(FromDrainOps)' => \A c \in Clients : pc'[c] \notin {"reading", "followup"}
        BY <1>1, <1>2 DEF CloseInv, CloseUndisturbed
    <1>6. CloseIn(FromRequest)' => nonRead' = 0
        BY <1>1, <1>2 DEF CloseInv, CloseUndisturbed
    <1>7. (shutdown' => CloseIn(FromJoin)') /\ (sawShutdown' => shutdown')
        BY <1>1 DEF CloseInv, CloseUndisturbed
    <1>8. CloseIn(FromTakeCore)' => pc'[Coordinator] = "stopped"
        BY <1>1 DEF CloseInv, CloseUndisturbed
    <1>9. ~core' => CloseIn(FromSetClosed)' /\ running' = 0 /\ ready' = 0
        BY <1>1 DEF CloseInv, CloseUndisturbed
    <1>10. QED
        BY <1>3, <1>4, <1>5, <1>6, <1>7, <1>8, <1>9 DEF CloseInv

\* The steps of reads, commands, barriers, the coordinator and the jobs do not disturb close().
LEMMA OthersUndisturbing ==
    ASSUME RuntimeInv, [Next]_vars, \A c \in Clients : ~CloseStep(c)
    PROVE  CloseUndisturbed
    <1> USE RuntimeAssumption
    <1>0. ThreadsTypeOK /\ ControlInv /\ CloseInv /\ CommandsCounted /\ BarrierInv
        BY DEF RuntimeInv, TypeOK, CountersExact
    <1> USE DEF FromSetClosed, FromTakeCore, FromJoin, FromRequest, FromDrainOps, FromDrainReads
    <1>1. ASSUME NEW c \in Clients, NEW k \in Kinds, Call(c, k)
          PROVE  CloseUndisturbed
        BY <1>0, <1>1 DEF Call, Entry, Mutating, Goto, Threads, ThreadsTypeOK, CloseInv, CloseUndisturbed, lifecycle, coordinator, background
    <1>2. ASSUME NEW c \in Clients, ReadStep(c)
          PROVE  CloseUndisturbed
        <2>1. CASE Followup(c)
            <3>1. SubmitFrame
                BY <2>1 DEF Followup
            <3>2. nonRead' = nonRead \/ (~closing /\ ~closed)
                BY <2>1 DEF Followup
            <3>3. pc[c] = "followup" /\ (pc' = pc \/ Goto(c, "finish"))
                BY <2>1 DEF Followup, At
            <3>4. QED
                BY <1>0, <3>1, <3>2, <3>3 DEF SubmitFrame, Goto, Threads, ThreadsTypeOK, CloseInv, CloseUndisturbed, coordinator, background
        <2>2. CASE ~Followup(c)
            <3>1. GuardFrame
                BY <1>2, <2>2 DEF ReadStep, Admit, Count, Recheck, FinishRead, WakeCloser, NeedsFollowup, ReadFrame
            <3>2. \E label : /\ Goto(c, label)
                             /\ label \notin FromDrainReads /\ pc[c] \notin FromDrainReads
                             /\ label \in {"reading", "followup"} => pc[c] \in {"reading", "followup"} \/ openState = "Open"
                BY <1>2, <2>2 DEF ReadStep, Admit, Count, Recheck, FinishRead, WakeCloser, NeedsFollowup, Return, At
            <3>3. QED
                BY <1>0, <3>1, <3>2 DEF GuardFrame, Goto, Threads, ThreadsTypeOK, CloseInv, CloseUndisturbed, lifecycle, coordinator, background
        <2>3. QED
            BY <2>1, <2>2
    <1>3. ASSUME NEW c \in Clients, Submit(c)
          PROVE  CloseUndisturbed
        <2>1. SubmitFrame
            BY <1>3 DEF Submit
        <2>2. nonRead' = nonRead \/ (~closing /\ ~closed)
            BY <1>3 DEF Submit
        <2>3. pc[c] = "submit" /\ (pc' = pc \/ Goto(c, "idle") \/ Goto(c, "reply"))
            BY <1>3 DEF Submit, At, Return
        <2>4. QED
            BY <1>0, <2>1, <2>2, <2>3 DEF SubmitFrame, Goto, Threads, ThreadsTypeOK, CloseInv, CloseUndisturbed, coordinator, background
    <1>4. ASSUME NEW c \in Clients, Replied(c)
          PROVE  CloseUndisturbed
        BY <1>0, <1>4 DEF Replied, Return, At, ReadFrame, GuardFrame, Goto, Threads, ThreadsTypeOK, CloseInv, CloseUndisturbed, lifecycle, coordinator, background
    <1>5. ASSUME NEW c \in Clients, BeginBarrier(c) \/ DrainMutating(c) \/ EndBarrier(c)
          PROVE  CloseUndisturbed
        <2>1. BarrierFrame
            BY <1>5 DEF BeginBarrier, DrainMutating, EndBarrier
        <2>2. nonRead' = nonRead \/ (~closing /\ ~closed) \/ nonRead > 0
            BY <1>5, CountersPositive DEF BeginBarrier, DrainMutating, EndBarrier, At, Holding, Barriered
        <2>3. pc[c] \in {"barrier", "draining", "release"} /\ (pc' = pc \/ \E label \in {"idle", "draining", "observe"} : Goto(c, label))
            BY <1>5 DEF BeginBarrier, DrainMutating, EndBarrier, At, Return
        <2>4. QED
            BY <1>0, <2>1, <2>2, <2>3 DEF BarrierFrame, Goto, Threads, ThreadsTypeOK, CloseInv, CloseUndisturbed, coordinator, background
    <1>6. ASSUME NEW t \in Threads, BarrierStep(t)
          PROVE  CloseUndisturbed
        <2>1. UNCHANGED <<openState, closing, closed, shutdown, core, nonRead, sawShutdown>>
            BY <1>6 DEF BarrierStep, DrainEvents, Observe, Inspect, BarrierBatched, AwaitEvent, BarrierWorkFrame, lifecycle, coordinator
        <2>2. core \/ (running' = running /\ ready' = ready)
            BY <1>6 DEF BarrierStep, DrainEvents, Observe, Inspect, BarrierBatched, AwaitEvent, BarrierWorkFrame, background
        <2>3. \/ pc' = pc
              \/ \E label : /\ Goto(t, label) /\ pc[t] # "stopped"
                            /\ label \notin FromDrainReads \cup {"reading", "followup"} /\ pc[t] \notin FromDrainReads
            BY <1>6 DEF BarrierStep, DrainEvents, BatchLabels, Observe, Inspect, BarrierBatched, AwaitEvent, At
        <2>4. QED
            BY <1>0, <2>1, <2>2, <2>3 DEF Goto, Threads, ThreadsTypeOK, CloseInv, CloseUndisturbed
    <1>7. ASSUME PickCommand \/ Dispatch \/ CommandBatched \/ Stop
          PROVE  CloseUndisturbed
        <2>1. UNCHANGED <<openState, closing, closed, shutdown, core, nonRead, running, ready>>
            BY <1>7 DEF PickCommand, Dispatch, CommandBatched, Stop, BarrierWorkFrame, CoordFrame, lifecycle, background
        <2>2. sawShutdown' \in {sawShutdown, shutdown}
            BY <1>7 DEF PickCommand, Dispatch, CommandBatched, Stop, BarrierWorkFrame, coordinator
        <2>3. pc' = pc \/ \E label : Goto(Coordinator, label) /\ pc[Coordinator] # "stopped"
            BY <1>7 DEF PickCommand, Dispatch, CommandBatched, Stop, At
        <2>4. QED
            BY <1>0, <2>1, <2>2, <2>3 DEF Goto, Threads, ThreadsTypeOK, CloseInv, CloseUndisturbed
    <1>8. ASSUME NEW request \in current, Execute(request)
          PROVE  CloseUndisturbed
        <2>1. UNCHANGED <<openState, closing, closed, shutdown, core, nonRead, ready, sawShutdown>>
            BY <1>8 DEF Execute, CoordFrame
        <2>2. \E label : Goto(Coordinator, label) /\ pc[Coordinator] # "stopped"
            BY <1>8 DEF Execute, At
        <2>3. core \/ running' = running
            BY <1>8 DEF Execute, RuntimeInv, TypeOK, CountersTypeOK
        <2>4. QED
            BY <1>0, <2>1, <2>2, <2>3 DEF Goto, Threads, ThreadsTypeOK, CloseInv, CloseUndisturbed
    <1>9. ASSUME NEW request \in current, Complete(request)
          PROVE  CloseUndisturbed
        <2>1. UNCHANGED <<openState, closing, closed, shutdown, core, running, ready, sawShutdown>>
            BY <1>9 DEF Complete, CoordFrame
        <2>2. nonRead > 0
            BY <1>9, CountersPositive
        <2>3. \A c \in Answered(request) : c \in Clients /\ pc[c] = "reply"
            BY <1>9, AnsweredWaits
        <2>4. pc[Coordinator] = "complete"
            BY <1>9 DEF Complete, At
        <2>5. \A c \in Clients : pc'[c] = pc[c] \/ (pc[c] = "reply" /\ pc'[c] = "replied")
            BY <1>9, <2>3 DEF Complete, Threads
        <2>6. QED
            BY <1>0, <2>1, <2>2, <2>4, <2>5 DEF CloseInv, CloseUndisturbed
    <1>10. ASSUME JobEnds
           PROVE  CloseUndisturbed
        BY <1>0, <1>10 DEF JobEnds, CloseInv, CloseUndisturbed, lifecycle, coordinator
    <1>11. ASSUME JobNotifies \/ UNCHANGED vars
           PROVE  CloseUndisturbed
        BY <1>0, <1>11 DEF JobNotifies, vars, CloseInv, CloseUndisturbed, lifecycle, coordinator, background
    <1>12. QED
        BY StepCases, <1>1, <1>2, <1>3, <1>4, <1>5, <1>6, <1>7, <1>8, <1>9, <1>10, <1>11 DEF MutateStep

\* close() moves from phase to phase only with what the phase waits for.
LEMMA CloseInvStep ==
    ASSUME RuntimeInv, [Next]_vars
    PROVE  CloseInv'
    <1> USE RuntimeAssumption
    <1>0. ThreadsTypeOK /\ ControlInv /\ CloseInv
        BY DEF RuntimeInv, TypeOK
    <1>1. CASE \A c \in Clients : ~CloseStep(c)
        BY <1>0, <1>1, OthersUndisturbing, CloseKept
    <1>2. ASSUME NEW c \in Clients, CloseStep(c)
          PROVE  CloseInv'
        <2> USE DEF FromSetClosed, FromTakeCore, FromJoin, FromRequest, FromDrainOps, FromDrainReads
        <2>0. c \in Threads /\ Coordinator \in Threads /\ c # Coordinator
            BY DEF Threads
        <2>1. UNCHANGED <<nonRead, sawShutdown>>
            BY <1>2 DEF CloseStep, Close, DrainReads, SleepForReads, DrainOps, RequestShutdown, Join, TakeCore, SetClosed, Announce, CloseFrame, coordinator
        <2>2. CASE Close(c)
            <3>1. CASE Return(c) /\ UNCHANGED <<closing, openState>>
                <4>1. CloseUndisturbed
                    BY <1>0, <2>0, <2>1, <2>2, <3>1 DEF Close, At, Return, Goto, ThreadsTypeOK, CloseInv, CloseUndisturbed
                <4>2. QED
                    BY <1>0, <4>1, CloseKept
            <3>2. CASE ~closed /\ ~closing /\ closing' = TRUE /\ openState' = "Closing" /\ Goto(c, "drainReads")
                <4>1. UNCHANGED <<closed, shutdown, core, running, ready>>
                    BY <2>2 DEF Close
                <4>2. \A d \in Clients : pc[d] \notin FromDrainReads
                    BY <1>0, <3>2 DEF CloseInv
                <4>3. \A d \in Clients : pc'[d] = IF d = c THEN "drainReads" ELSE pc[d]
                    BY <1>0, <2>0, <3>2 DEF Goto, ThreadsTypeOK, Threads
                <4>4. ~shutdown /\ ~sawShutdown /\ core
                    BY <1>0, <3>2, <4>2 DEF CloseInv, CloseIn
                <4>5. \A d \in Clients : pc'[d] \notin FromDrainOps
                    BY <4>2, <4>3
                <4>6. QED
                    BY <2>1, <3>2, <4>1, <4>2, <4>3, <4>4, <4>5 DEF CloseInv, CloseIn
            <3>3. QED
                BY <2>2, <3>1, <3>2 DEF Close
        <2>3. CASE DrainReads(c) \/ SleepForReads(c)
            <3>1. UNCHANGED <<openState, closing, closed, shutdown, core, running, ready>>
                BY <2>3 DEF DrainReads, SleepForReads
            <3>2. CASE \E label \in {"drainReads", "sleepy"} : Goto(c, label)
                <4>1. pc[c] \in {"drainReads", "sleepy"}
                    BY <2>3 DEF DrainReads, SleepForReads, At
                <4>2. \A d \in Clients : pc'[d] = pc[d] \/ (d = c /\ pc'[d] \in {"drainReads", "sleepy"})
                    BY <1>0, <2>0, <3>2 DEF Goto, ThreadsTypeOK, Threads
                <4>3. pc'[Coordinator] = pc[Coordinator]
                    BY <1>0, <2>0, <3>2 DEF Goto, ThreadsTypeOK
                <4>4. QED
                    BY <1>0, <2>1, <3>1, <4>1, <4>2, <4>3 DEF CloseInv, CloseIn
            <3>3. CASE reads = 0 /\ Goto(c, "drainOps")
                <4>1. pc[c] \in {"drainReads", "sleepy"}
                    BY <2>3 DEF DrainReads, SleepForReads, At
                <4>2. \A d \in Clients : pc'[d] = IF d = c THEN "drainOps" ELSE pc[d]
                    BY <1>0, <2>0, <3>3 DEF Goto, ThreadsTypeOK, Threads
                <4>3. pc'[Coordinator] = pc[Coordinator]
                    BY <1>0, <2>0, <3>3 DEF Goto, ThreadsTypeOK
                <4>4. \A d \in Clients : pc[d] \notin {"reading", "followup"}
                    BY <3>3, CountersPositive DEF Guarded
                <4>5. QED
                    BY <1>0, <2>1, <3>1, <4>1, <4>2, <4>3, <4>4 DEF CloseInv, CloseIn
            <3>4. QED
                BY <2>3, <3>2, <3>3 DEF DrainReads, SleepForReads
        <2>4. CASE DrainOps(c)
            <3>1. UNCHANGED <<openState, closing, closed, shutdown, core, running, ready>> /\ pc[c] = "drainOps"
                BY <2>4 DEF DrainOps, At
            <3>2. CASE pc' = pc
                BY <1>0, <2>1, <3>1, <3>2 DEF CloseInv, CloseIn
            <3>3. CASE ~(nonRead > 0) /\ Goto(c, "request")
                <4>1. nonRead = 0
                    BY <3>3 DEF RuntimeInv, TypeOK, CountersTypeOK
                <4>2. \A d \in Clients : pc'[d] = IF d = c THEN "request" ELSE pc[d]
                    BY <1>0, <2>0, <3>3 DEF Goto, ThreadsTypeOK, Threads
                <4>3. pc'[Coordinator] = pc[Coordinator]
                    BY <1>0, <2>0, <3>3 DEF Goto, ThreadsTypeOK
                <4>4. QED
                    BY <1>0, <2>1, <3>1, <4>1, <4>2, <4>3 DEF CloseInv, CloseIn
            <3>4. QED
                BY <2>4, <3>2, <3>3 DEF DrainOps
        <2>5. CASE RequestShutdown(c)
            <3>1. UNCHANGED <<openState, closing, closed, core, running, ready>> /\ pc[c] = "request"
                BY <2>5 DEF RequestShutdown, At
            <3>2. \A d \in Clients : pc'[d] = IF d = c THEN "join" ELSE pc[d]
                BY <1>0, <2>0, <2>5 DEF RequestShutdown, Goto, ThreadsTypeOK, Threads
            <3>3. pc'[Coordinator] = pc[Coordinator]
                BY <1>0, <2>0, <2>5 DEF RequestShutdown, Goto, ThreadsTypeOK
            <3>4. shutdown' = TRUE
                BY <2>5 DEF RequestShutdown
            <3>5. QED
                BY <1>0, <2>1, <3>1, <3>2, <3>3, <3>4 DEF CloseInv, CloseIn
        <2>6. CASE Join(c)
            <3>1. /\ UNCHANGED <<openState, closing, closed, shutdown, core, running, ready>>
                  /\ pc[c] = "join" /\ pc[Coordinator] = "stopped"
                BY <2>6 DEF Join, At
            <3>2. \A d \in Clients : pc'[d] = IF d = c THEN "takeCore" ELSE pc[d]
                BY <1>0, <2>0, <2>6 DEF Join, Goto, ThreadsTypeOK, Threads
            <3>3. pc'[Coordinator] = pc[Coordinator]
                BY <1>0, <2>0, <2>6 DEF Join, Goto, ThreadsTypeOK
            <3>4. QED
                BY <1>0, <2>1, <3>1, <3>2, <3>3 DEF CloseInv, CloseIn
        <2>7. CASE TakeCore(c)
            <3>1. /\ UNCHANGED <<openState, closing, closed, shutdown>>
                  /\ pc[c] = "takeCore" /\ core' = FALSE /\ running' = 0 /\ ready' = 0
                BY <2>7 DEF TakeCore, At
            <3>2. \A d \in Clients : pc'[d] = IF d = c THEN "setClosed" ELSE pc[d]
                BY <1>0, <2>0, <2>7 DEF TakeCore, Goto, ThreadsTypeOK, Threads
            <3>3. pc'[Coordinator] = pc[Coordinator]
                BY <1>0, <2>0, <2>7 DEF TakeCore, Goto, ThreadsTypeOK
            <3>4. QED
                BY <1>0, <2>1, <3>1, <3>2, <3>3 DEF CloseInv, CloseIn
        <2>8. CASE SetClosed(c)
            <3>1. /\ UNCHANGED <<closing, closed, shutdown, core, running, ready>>
                  /\ pc[c] = "setClosed" /\ openState' = "Closed"
                BY <2>8 DEF SetClosed, At
            <3>2. \A d \in Clients : pc'[d] = IF d = c THEN "announce" ELSE pc[d]
                BY <1>0, <2>0, <2>8 DEF SetClosed, Goto, ThreadsTypeOK, Threads
            <3>3. pc'[Coordinator] = pc[Coordinator]
                BY <1>0, <2>0, <2>8 DEF SetClosed, Goto, ThreadsTypeOK
            <3>4. QED
                BY <1>0, <2>1, <3>1, <3>2, <3>3 DEF CloseInv, CloseIn
        <2>9. CASE Announce(c)
            <3>1. /\ UNCHANGED <<openState, closing, shutdown, core, running, ready>>
                  /\ pc[c] = "announce" /\ closed' = TRUE
                BY <2>9 DEF Announce, At
            <3>2. \A d \in Clients : pc'[d] = IF d = c THEN "idle" ELSE pc[d]
                BY <1>0, <2>0, <2>9 DEF Announce, Return, Goto, ThreadsTypeOK, Threads
            <3>3. pc'[Coordinator] = pc[Coordinator]
                BY <1>0, <2>0, <2>9 DEF Announce, Return, Goto, ThreadsTypeOK
            <3>4. QED
                BY <1>0, <2>1, <3>1, <3>2, <3>3 DEF CloseInv, CloseIn
        <2>10. QED
            BY <1>2, <2>2, <2>3, <2>4, <2>5, <2>6, <2>7, <2>8, <2>9 DEF CloseStep
    <1>3. QED
        BY <1>1, <1>2

-----------------------------------------------------------------------------
(* Commands and the clients that wait for their replies *)

\* The steps that leave the queue and the command in hand alone.
LEMMA RepliesKept ==
    ASSUME OneReplyPerSubmit, UNCHANGED <<pending, current, followups>>,
           \A c \in Clients : pc'[c] = "reply" <=> pc[c] = "reply"
    PROVE  OneReplyPerSubmit'
    BY DEF OneReplyPerSubmit, Commands, Unanswered, SameCaller, Asks, Repairs

\* What a request asks for.
LEMMA RequestFacts ==
    /\ \A r \in Requests : \/ \E c \in Clients : /\ \A d \in Clients : Asks(r, d) <=> d = c
                                                 /\ \A key \in Keys : ~Repairs(r, key)
                                                 /\ r.kind # "followup" /\ r.by = c
                           \/ \E key \in Keys : /\ \A k \in Keys : Repairs(r, k) <=> k = key
                                                /\ \A d \in Clients : ~Asks(r, d)
                                                /\ r.kind = "followup" /\ r.key = key
    BY DEF Requests, Asks, Repairs

\* The commands after one has entered the queue.
LEMMA AppendCommands ==
    ASSUME pending \in Seq(Requests), NEW request \in Requests,
           pending' = Append(pending, request), current' = current
    PROVE  /\ DOMAIN pending' = DOMAIN pending \cup {Len(pending) + 1}
           /\ Len(pending) + 1 \notin DOMAIN pending
           /\ pending'[Len(pending) + 1] = request
           /\ \A i \in DOMAIN pending : pending'[i] = pending[i]
           /\ Commands' = Commands \cup {request}
    <1>1. /\ DOMAIN pending' = DOMAIN pending \cup {Len(pending) + 1}
          /\ Len(pending) + 1 \notin DOMAIN pending
          /\ pending'[Len(pending) + 1] = request
          /\ \A i \in DOMAIN pending : pending'[i] = pending[i]
        OBVIOUS
    <1>2. QED
        BY <1>1 DEF Commands

\* The commands after the coordinator has taken the first one.
LEMMA TakeCommands ==
    ASSUME pending \in Seq(Requests), pending # <<>>, current = {},
           pending' = Tail(pending), current' = {Head(pending)}
    PROVE  /\ 1 \in DOMAIN pending /\ Head(pending) = pending[1]
           /\ \A i \in DOMAIN pending' : /\ i + 1 \in DOMAIN pending /\ i + 1 # 1 /\ i \in Nat
                                         /\ pending'[i] = pending[i + 1]
           /\ Commands' = Commands
    <1>1. /\ 1 \in DOMAIN pending /\ Head(pending) = pending[1]
          /\ \A i \in DOMAIN pending' : /\ i + 1 \in DOMAIN pending /\ i + 1 # 1 /\ i \in Nat
                                        /\ pending'[i] = pending[i + 1]
        OBVIOUS
    <1>2. \A i \in DOMAIN pending : i = 1 \/ (i - 1 \in DOMAIN pending' /\ pending'[i - 1] = pending[i])
        OBVIOUS
    <1>3. Commands' \subseteq Commands
        BY <1>1 DEF Commands
    <1>4. \A i \in DOMAIN pending : pending[i] \in Commands'
        <2>1. pending[1] \in Commands'
            BY <1>1 DEF Commands
        <2>2. \A j \in DOMAIN pending' : pending'[j] \in Commands'
            BY DEF Commands
        <2>3. QED
            BY <1>2, <2>1, <2>2
    <1>5. Commands \subseteq Commands'
        BY <1>4 DEF Commands
    <1>6. QED
        BY <1>1, <1>3, <1>5

\* A client has at most one command, and waits as long as it has one.
LEMMA RepliesStep ==
    ASSUME RuntimeInv, [Next]_vars
    PROVE  OneReplyPerSubmit'
    <1> USE RuntimeAssumption
    <1>0. /\ ThreadsTypeOK /\ ControlInv /\ OneReplyPerSubmit
          /\ pending \in Seq(Requests) /\ current \subseteq Requests
        BY DEF RuntimeInv, TypeOK, CountersTypeOK
    <1> DEFINE Kept == /\ UNCHANGED <<pending, current, followups>>
                       /\ \A c \in Clients : pc'[c] = "reply" <=> pc[c] = "reply"
    <1>k. ASSUME Kept
          PROVE  OneReplyPerSubmit'
        BY <1>0, <1>k, RepliesKept
    <1>1. ASSUME NEW c \in Clients, NEW k \in Kinds, Call(c, k)
          PROVE  Kept
        BY <1>0, <1>1 DEF Call, Entry, Mutating, Goto, Threads, ThreadsTypeOK, lifecycle, coordinator
    <1>2. ASSUME NEW c \in Clients, ReadStep(c), ~Followup(c)
          PROVE  Kept
        BY <1>0, <1>2 DEF ReadStep, Admit, Count, Recheck, FinishRead, WakeCloser, NeedsFollowup, ReadFrame, GuardFrame, Return, At, Goto, Threads, ThreadsTypeOK, lifecycle, coordinator
    <1>3. ASSUME NEW c \in Clients, Followup(c)
          PROVE  OneReplyPerSubmit'
        <2>1. current' = current /\ \A d \in Clients : pc'[d] = "reply" <=> pc[d] = "reply"
            BY <1>0, <1>3 DEF Followup, SubmitFrame, At, Goto, Threads, ThreadsTypeOK, coordinator
        <2>2. CASE UNCHANGED <<pending, followups>>
            BY <1>0, <2>1, <2>2, RepliesKept
        <2>3. CASE /\ index[c] \notin followups /\ followups' = followups \cup {index[c]}
                   /\ Enqueue([kind |-> "followup", key |-> index[c]])
            <3> DEFINE request == [kind |-> "followup", key |-> index[c]]
            <3>1. request \in Requests /\ index[c] \in Keys
                BY <1>0 DEF ThreadsTypeOK, Requests
            <3>2. /\ \A key \in Keys : Repairs(request, key) <=> key = index[c]
                  /\ \A d \in Clients : ~Asks(request, d)
                BY <3>1 DEF Repairs, Asks
            <3> HIDE DEF request
            <3>3. pending' = Append(pending, request)
                BY <2>3 DEF Enqueue, request
            <3>4. /\ DOMAIN pending' = DOMAIN pending \cup {Len(pending) + 1}
                  /\ pending'[Len(pending) + 1] = request
                  /\ \A i \in DOMAIN pending : pending'[i] = pending[i]
                  /\ Commands' = Commands \cup {request}
                BY <1>0, <2>1, <3>1, <3>3, AppendCommands
            <3>5. \A r \in Commands : ~SameCaller(r, request) /\ ~SameCaller(request, r)
                BY <1>0, <2>3, <3>1, <3>2 DEF OneReplyPerSubmit, SameCaller
            <3>6. \A i \in DOMAIN pending : pending[i] \in Commands
                BY DEF Commands
            <3>7. current \subseteq Commands
                BY DEF Commands
            <3>8. \A d \in Clients : d \in Unanswered' <=> \E r \in Commands' : Asks(r, d)
                BY <1>0, <2>1, <3>2, <3>4 DEF OneReplyPerSubmit, Unanswered
            <3>9. \A key \in Keys : key \in followups' <=> \E r \in Commands' : Repairs(r, key)
                BY <1>0, <2>3, <3>1, <3>2, <3>4 DEF OneReplyPerSubmit
            <3>10. \A i, j \in DOMAIN pending' : SameCaller(pending'[i], pending'[j]) => i = j
                BY <1>0, <3>4, <3>5, <3>6 DEF OneReplyPerSubmit
            <3>11. \A i \in DOMAIN pending' : \A r \in current' : ~SameCaller(pending'[i], r)
                BY <1>0, <2>1, <3>4, <3>5, <3>7 DEF OneReplyPerSubmit
            <3>12. \A r, s \in current' : r = s
                BY <1>0, <2>1 DEF OneReplyPerSubmit
            <3>13. QED
                BY <3>8, <3>9, <3>10, <3>11, <3>12 DEF OneReplyPerSubmit, Asks, Repairs, SameCaller
        <2>4. QED
            BY <1>3, <2>2, <2>3 DEF Followup
    <1>4. ASSUME NEW c \in Clients, Submit(c)
          PROVE  OneReplyPerSubmit'
        <2>1. current' = current /\ followups' = followups
            BY <1>4 DEF Submit, SubmitFrame, coordinator
        <2>2. CASE pending' = pending /\ (pc' = pc \/ Return(c))
            BY <1>0, <1>4, <2>1, <2>2, RepliesKept DEF Submit, Return, At, Goto, Threads, ThreadsTypeOK
        <2>3. CASE Enqueue([kind |-> kind[c], by |-> c]) /\ Goto(c, "reply")
            <3> DEFINE request == [kind |-> kind[c], by |-> c]
            <3>1. request \in Requests /\ pc[c] = "submit"
                BY <1>0, <1>4 DEF Submit, At, ControlInv, Mutating, Requests
            <3>2. /\ \A d \in Clients : Asks(request, d) <=> d = c
                  /\ \A key \in Keys : ~Repairs(request, key)
                BY <1>0, <3>1 DEF Repairs, Asks, ControlInv, Mutating
            <3> HIDE DEF request
            <3>3. pending' = Append(pending, request)
                BY <2>3 DEF Enqueue, request
            <3>4. /\ DOMAIN pending' = DOMAIN pending \cup {Len(pending) + 1}
                  /\ pending'[Len(pending) + 1] = request
                  /\ \A i \in DOMAIN pending : pending'[i] = pending[i]
                  /\ Commands' = Commands \cup {request}
                BY <1>0, <2>1, <3>1, <3>3, AppendCommands
            <3>5. \A r \in Commands : ~SameCaller(r, request) /\ ~SameCaller(request, r)
                BY <1>0, <3>1, <3>2 DEF OneReplyPerSubmit, SameCaller, Unanswered
            <3>6. \A i \in DOMAIN pending : pending[i] \in Commands
                BY DEF Commands
            <3>7. current \subseteq Commands
                BY DEF Commands
            <3>8. \A d \in Clients : pc'[d] = IF d = c THEN "reply" ELSE pc[d]
                BY <1>0, <2>3 DEF Goto, Threads, ThreadsTypeOK
            <3>9. \A d \in Clients : d \in Unanswered' <=> \E r \in Commands' : Asks(r, d)
                BY <1>0, <3>2, <3>4, <3>8 DEF OneReplyPerSubmit, Unanswered
            <3>10. \A key \in Keys : key \in followups' <=> \E r \in Commands' : Repairs(r, key)
                BY <1>0, <2>1, <3>2, <3>4 DEF OneReplyPerSubmit
            <3>11. \A i, j \in DOMAIN pending' : SameCaller(pending'[i], pending'[j]) => i = j
                BY <1>0, <3>4, <3>5, <3>6 DEF OneReplyPerSubmit
            <3>12. \A i \in DOMAIN pending' : \A r \in current' : ~SameCaller(pending'[i], r)
                BY <1>0, <2>1, <3>4, <3>5, <3>7 DEF OneReplyPerSubmit
            <3>13. \A r, s \in current' : r = s
                BY <1>0, <2>1 DEF OneReplyPerSubmit
            <3>14. QED
                BY <3>9, <3>10, <3>11, <3>12, <3>13 DEF OneReplyPerSubmit, Asks, Repairs, SameCaller
        <2>4. QED
            BY <1>4, <2>2, <2>3 DEF Submit
    <1>5. ASSUME NEW c \in Clients, Replied(c)
          PROVE  Kept
        BY <1>0, <1>5 DEF Replied, ReadFrame, GuardFrame, Return, At, Goto, Threads, ThreadsTypeOK, lifecycle, coordinator
    <1>6. ASSUME NEW c \in Clients, BeginBarrier(c) \/ DrainMutating(c) \/ EndBarrier(c)
          PROVE  Kept
        BY <1>0, <1>6 DEF BeginBarrier, DrainMutating, EndBarrier, BarrierFrame, Return, At, Goto, Threads, ThreadsTypeOK, coordinator
    <1>7. ASSUME NEW c \in Clients, CloseStep(c)
          PROVE  Kept
        BY <1>0, <1>7 DEF CloseStep, Close, DrainReads, SleepForReads, DrainOps, RequestShutdown, Join, TakeCore, SetClosed, Announce, CloseFrame, Return, At, Goto, Threads, ThreadsTypeOK, coordinator
    <1>8. ASSUME NEW t \in Threads, BarrierStep(t)
          PROVE  Kept
        BY <1>0, <1>8 DEF BarrierStep, DrainEvents, BatchLabels, Observe, Inspect, BarrierBatched, AwaitEvent, BarrierWorkFrame, At, Goto, Threads, ThreadsTypeOK, lifecycle, coordinator
    <1>9. CASE PickCommand
        <2>1. followups' = followups /\ \A c \in Clients : pc'[c] = pc[c]
            BY <1>0, <1>9 DEF PickCommand, Goto, Threads, ThreadsTypeOK
        <2>2. CASE UNCHANGED <<current, active, pending>>
            BY <1>0, <2>1, <2>2, RepliesKept
        <2>3. CASE /\ current = {} /\ pending # <<>>
                   /\ current' = {Head(pending)} /\ pending' = Tail(pending)
            <3>1. /\ 1 \in DOMAIN pending /\ Head(pending) = pending[1]
                  /\ \A i \in DOMAIN pending' : /\ i + 1 \in DOMAIN pending /\ i + 1 # 1 /\ i \in Nat
                                                /\ pending'[i] = pending[i + 1]
                  /\ Commands' = Commands
                BY <1>0, <2>3, TakeCommands
            <3>2. /\ \A d \in Clients : d \in Unanswered' <=> \E r \in Commands' : Asks(r, d)
                  /\ \A key \in Keys : key \in followups' <=> \E r \in Commands' : Repairs(r, key)
                BY <1>0, <2>1, <3>1 DEF OneReplyPerSubmit, Unanswered
            <3>3. \A i, j \in DOMAIN pending' : SameCaller(pending'[i], pending'[j]) => i = j
                BY <1>0, <3>1 DEF OneReplyPerSubmit
            <3>4. \A i \in DOMAIN pending' : \A r \in current' : ~SameCaller(pending'[i], r)
                BY <1>0, <2>3, <3>1 DEF OneReplyPerSubmit
            <3>5. \A r, s \in current' : r = s
                BY <2>3
            <3>6. QED
                BY <3>2, <3>3, <3>4, <3>5 DEF OneReplyPerSubmit, Asks, Repairs, SameCaller
        <2>4. QED
            BY <1>9, <2>2, <2>3 DEF PickCommand
    <1>10. ASSUME Dispatch \/ CommandBatched \/ Stop
           PROVE  Kept
        BY <1>0, <1>10 DEF Dispatch, CommandBatched, Stop, BarrierWorkFrame, CoordFrame, At, Goto, Threads, ThreadsTypeOK, lifecycle, coordinator
    <1>11. ASSUME NEW request \in current, Execute(request)
           PROVE  Kept
        BY <1>0, <1>11 DEF Execute, CoordFrame, At, Goto, Threads, ThreadsTypeOK
    <1>12. ASSUME NEW request \in current, Complete(request)
           PROVE  OneReplyPerSubmit'
        <2>1. current' = {} /\ pending' = pending
            BY <1>12 DEF Complete
        <2>2. /\ request \in Requests /\ current = {request}
              /\ \A i \in DOMAIN pending : ~SameCaller(pending[i], request)
            BY <1>0, <1>12 DEF OneReplyPerSubmit
        <2>3. Commands = Commands' \cup {request} /\ Commands' = {pending[i] : i \in DOMAIN pending}
            BY <2>1, <2>2 DEF Commands
        <2>4. \A d \in Clients : d \in Unanswered' <=> d \in Unanswered /\ ~Asks(request, d)
            <3>1. Answered(request) \subseteq Clients
                BY <1>0, <1>12, AnsweredClients
            <3>2. \A d \in Clients : d \in Answered(request) <=> Asks(request, d)
                BY <2>2 DEF Answered, Asks
            <3>3. \A d \in Clients : pc'[d] = IF d \in Answered(request) THEN "replied" ELSE pc[d]
                BY <1>12 DEF Complete, Threads
            <3>4. QED
                BY <3>2, <3>3 DEF Unanswered
        <2>5. \A key \in Keys : key \in followups' <=> key \in followups /\ ~Repairs(request, key)
            BY <1>12, <2>2 DEF Complete, Repairs
        <2>6. /\ \A r \in Commands' : \A d \in Clients : ~(Asks(r, d) /\ Asks(request, d))
              /\ \A r \in Commands' : \A key \in Keys : ~(Repairs(r, key) /\ Repairs(request, key))
            BY <2>2, <2>3 DEF SameCaller
        <2>7. \A d \in Clients : d \in Unanswered' <=> \E r \in Commands' : Asks(r, d)
            BY <1>0, <2>3, <2>4, <2>6 DEF OneReplyPerSubmit
        <2>8. \A key \in Keys : key \in followups' <=> \E r \in Commands' : Repairs(r, key)
            BY <1>0, <2>3, <2>5, <2>6 DEF OneReplyPerSubmit
        <2>9. /\ \A i, j \in DOMAIN pending' : SameCaller(pending'[i], pending'[j]) => i = j
              /\ \A i \in DOMAIN pending' : \A r \in current' : ~SameCaller(pending'[i], r)
              /\ \A r, s \in current' : r = s
            BY <1>0, <2>1 DEF OneReplyPerSubmit
        <2>10. QED
            BY <2>7, <2>8, <2>9 DEF OneReplyPerSubmit, Asks, Repairs, SameCaller
    <1>13. ASSUME JobEnds \/ JobNotifies \/ UNCHANGED vars
           PROVE  Kept
        BY <1>13 DEF JobEnds, JobNotifies, vars, lifecycle, coordinator
    <1>14. QED
        BY StepCases, <1>k, <1>1, <1>2, <1>3, <1>4, <1>5, <1>6, <1>7, <1>8, <1>9, <1>10, <1>11, <1>12, <1>13 DEF MutateStep

-----------------------------------------------------------------------------
(* Events: a finished job is not forgotten, a wait for one is not in vain *)

AnnounceLabels == {"batched", "afterBatched", "barrierBatched"}

\* What the steps of clients outside the barrier's work may do to events.
EventsUndisturbed ==
    /\ UNCHANGED <<running, ready, signals, seq, seen, progressed, waiting>>
    /\ workReady => workReady'
    /\ current' = current
    /\ pc'[Coordinator] = pc[Coordinator]
    /\ \A c \in Clients : \/ pc'[c] = pc[c]
                          \/ /\ pc[c] \notin AnnounceLabels
                             /\ pc'[c] \notin AnnounceLabels \cup {"barrierBatch", "event"}

LEMMA EventsKept ==
    ASSUME WakeInv, EventsUndisturbed
    PROVE  /\ WakeInv'
           /\ Announcing' <=> Announcing
           /\ EventComing' <=> EventComing
    <1> USE DEF AnnounceLabels
    <1>1. Announcing' <=> Announcing
        BY DEF Announcing, EventsUndisturbed, Threads
    <1>2. EventComing' <=> EventComing
        BY <1>1 DEF EventComing, EventsUndisturbed
    <1>3. \A t \in Threads : AwaitsJob(t)' => AwaitsJob(t)
        BY DEF AwaitsJob, EventsUndisturbed, Threads
    <1>4. Outstanding' = Outstanding
        BY DEF Outstanding, EventsUndisturbed
    <1>5. \A t \in Threads : seen'[t] <= seq'
        BY DEF WakeInv, EventsUndisturbed
    <1>6. ready' > 0 => signals' > 0 \/ workReady' \/ pc'[Coordinator] = "batch"
        BY DEF WakeInv, EventsUndisturbed
    <1>7. waiting' => current' # {} /\ pc'[Coordinator] \in {"wait", "batch", "batched"}
        BY DEF WakeInv, EventsUndisturbed
    <1>8. waiting' /\ ~(pc'[Coordinator] = "batched" /\ progressed'[Coordinator]) => Outstanding' > 0
        BY <1>4 DEF WakeInv, EventsUndisturbed
    <1>9. \A t \in Threads : AwaitsJob(t)' => seen'[t] < seq' \/ Outstanding' > 0 \/ Announcing'
        BY <1>1, <1>3, <1>4 DEF WakeInv, EventsUndisturbed
    <1>10. QED
        BY <1>1, <1>2, <1>5, <1>6, <1>7, <1>8, <1>9 DEF WakeInv, AwaitsJob

\* The steps of reads, commands, close() and of the barrier's guard do not disturb events.
LEMMA ClientsUndisturbing ==
    ASSUME RuntimeInv,
           \/ \E c \in Clients, k \in Kinds : Call(c, k)
           \/ \E c \in Clients : ReadStep(c) \/ MutateStep(c) \/ (CloseStep(c) /\ ~TakeCore(c))
           \/ UNCHANGED vars
    PROVE  EventsUndisturbed
    <1> USE RuntimeAssumption
    <1>0. ThreadsTypeOK
        BY DEF RuntimeInv, TypeOK
    <1> USE DEF AnnounceLabels
    <1>1. ASSUME NEW c \in Clients, NEW k \in Kinds, Call(c, k)
          PROVE  EventsUndisturbed
        BY <1>0, <1>1 DEF Call, Entry, Mutating, Goto, Threads, ThreadsTypeOK, EventsUndisturbed, coordinator, background, locals
    <1>2. ASSUME NEW c \in Clients, ReadStep(c)
          PROVE  EventsUndisturbed
        <2>1. UNCHANGED <<running, ready, signals, seq, seen, progressed, waiting, workReady, current>>
            BY <1>2 DEF ReadStep, Admit, Count, Recheck, FinishRead, WakeCloser, NeedsFollowup, Followup, ReadFrame, GuardFrame, SubmitFrame, coordinator, background, locals
        <2>2. pc' = pc \/ \E label : /\ Goto(c, label)
                                     /\ pc[c] \notin AnnounceLabels
                                     /\ label \notin AnnounceLabels \cup {"barrierBatch", "event"}
            BY <1>2 DEF ReadStep, Admit, Count, Recheck, FinishRead, WakeCloser, NeedsFollowup, Followup, Return, At
        <2>3. QED
            BY <1>0, <2>1, <2>2 DEF Goto, Threads, ThreadsTypeOK, EventsUndisturbed
    <1>3. ASSUME NEW c \in Clients, MutateStep(c)
          PROVE  EventsUndisturbed
        <2>1. UNCHANGED <<running, ready, signals, seq, seen, progressed, waiting, workReady, current>>
            BY <1>3 DEF MutateStep, Submit, Replied, BeginBarrier, DrainMutating, EndBarrier, ReadFrame, GuardFrame, SubmitFrame, BarrierFrame, coordinator, background, locals
        <2>2. pc' = pc \/ \E label : /\ Goto(c, label)
                                     /\ pc[c] \notin AnnounceLabels
                                     /\ label \notin AnnounceLabels \cup {"barrierBatch", "event"}
            BY <1>3 DEF MutateStep, Submit, Replied, BeginBarrier, DrainMutating, EndBarrier, Return, At
        <2>3. QED
            BY <1>0, <2>1, <2>2 DEF Goto, Threads, ThreadsTypeOK, EventsUndisturbed
    <1>4. ASSUME NEW c \in Clients, CloseStep(c), ~TakeCore(c)
          PROVE  EventsUndisturbed
        <2>1. UNCHANGED <<running, ready, signals, seq, seen, progressed, waiting, current>>
            BY <1>4 DEF CloseStep, Close, DrainReads, SleepForReads, DrainOps, RequestShutdown, Join, SetClosed, Announce, CloseFrame, coordinator, locals
        <2>2. pc' = pc \/ \E label : /\ Goto(c, label)
                                     /\ pc[c] \notin AnnounceLabels
                                     /\ label \notin AnnounceLabels \cup {"barrierBatch", "event"}
            BY <1>4 DEF CloseStep, Close, DrainReads, SleepForReads, DrainOps, RequestShutdown, Join, SetClosed, Announce, Return, At
        <2>3. workReady => workReady'
            <3>1. CASE RequestShutdown(c)
                BY <3>1 DEF RequestShutdown
            <3>2. CASE ~RequestShutdown(c)
                BY <1>4, <3>2 DEF CloseStep, Close, DrainReads, SleepForReads, DrainOps, Join, SetClosed, Announce
            <3>3. QED
                BY <3>1, <3>2
        <2>4. QED
            BY <1>0, <2>1, <2>2, <2>3 DEF Goto, Threads, ThreadsTypeOK, EventsUndisturbed
    <1>5. ASSUME UNCHANGED vars
          PROVE  EventsUndisturbed
        BY <1>5 DEF vars, EventsUndisturbed, coordinator, background, locals
    <1>6. QED
        BY <1>1, <1>2, <1>3, <1>4, <1>5

\* A thread that waits for a job still has one to wait for, and a finished job
\* still has somebody to announce it, after every step.
LEMMA WakeStep ==
    ASSUME RuntimeInv, [Next]_vars
    PROVE  /\ WakeInv'
           /\ (EventComing => EventComing') \/ asleep' = {} \/ \E c \in Clients : TakeCore(c)
    <1> USE RuntimeAssumption
    <1>0. /\ ThreadsTypeOK /\ CountersTypeOK /\ ControlInv /\ BarrierInv /\ CloseInv
          /\ CommandsCounted /\ WakeInv
        BY DEF RuntimeInv, TypeOK, CountersExact
    <1>t. Coordinator \in Threads
        BY DEF Threads
    <1> DEFINE Goal == /\ WakeInv'
                       /\ (EventComing => EventComing') \/ asleep' = {} \/ \E c \in Clients : TakeCore(c)
    <1>1. CASE \/ \E c \in Clients, k \in Kinds : Call(c, k)
               \/ \E c \in Clients : ReadStep(c) \/ MutateStep(c) \/ (CloseStep(c) /\ ~TakeCore(c))
               \/ UNCHANGED vars
        BY <1>0, <1>1, ClientsUndisturbing, EventsKept
    <1>2. ASSUME NEW c \in Clients, TakeCore(c)
          PROVE  Goal
        <2>1. /\ running' = 0 /\ ready' = 0 /\ pc[c] = "takeCore"
              /\ UNCHANGED <<seq, seen, progressed, waiting, workReady, signals, current>>
            BY <1>2 DEF TakeCore, At, CloseFrame, coordinator, locals
        <2>2. \A t \in Threads : pc'[t] = IF t = c THEN "setClosed" ELSE pc[t]
            BY <1>0, <1>2 DEF TakeCore, Goto, ThreadsTypeOK
        <2>3. pc[Coordinator] = "stopped" /\ nonRead = 0
            BY <1>0, <2>1 DEF CloseInv, CloseIn, FromTakeCore, FromSetClosed, FromJoin, FromRequest
        <2>4. \A d \in Clients : pc[d] \notin Holding
            BY <2>3, CountersPositive
        <2>5. \A t \in Threads : ~AwaitsJob(t)'
            BY <2>1, <2>2, <2>3, <2>4 DEF AwaitsJob, Holding, Barriered, Threads
        <2>6. ~waiting
            BY <1>0, <2>3 DEF WakeInv
        <2>7. \A t \in Threads : seen'[t] <= seq'
            BY <1>0, <2>1 DEF WakeInv
        <2>8. WakeInv'
            BY <2>1, <2>5, <2>6, <2>7 DEF WakeInv, AwaitsJob
        <2>9. QED
            BY <1>2, <2>8
    <1>3. ASSUME NEW t \in Threads, DrainEvents(t)
          PROVE  Goal
        <2>1. /\ pc[t] \in BatchLabels
              /\ UNCHANGED <<seq, seen, waiting, workReady, signals, current>>
            BY <1>3 DEF DrainEvents, coordinator
        <2>2. \A u \in Threads : u # t => pc'[u] = pc[u] /\ progressed'[u] = progressed[u]
            BY <1>0, <1>3 DEF DrainEvents, Goto, ThreadsTypeOK
        <2>3. /\ pc[t] = "batch" => pc'[t] = "batched"
              /\ pc[t] = "afterBatch" => pc'[t] = "afterBatched"
              /\ pc[t] = "barrierBatch" => pc'[t] = "barrierBatched"
            BY <1>0, <1>3 DEF DrainEvents, Goto, BatchLabels, ThreadsTypeOK
        <2>4. progressed'[t] <=> (core /\ ready > 0)
            BY <1>0, <1>3 DEF DrainEvents, ThreadsTypeOK
        <2>5. CASE core /\ ready > 0
            <3>1. Announcing'
                BY <2>1, <2>3, <2>4, <2>5 DEF Announcing, BatchLabels
            <3>2. ready' = 0
                BY <1>3, <2>5 DEF DrainEvents
            <3>3. ~waiting \/ (t = Coordinator /\ pc[t] = "batch")
                <4>1. CASE t \in Clients
                    <5>1. pc[t] \in Barriered
                        BY <1>0, <2>1, <4>1 DEF ControlInv, ClientLabels, CoordinatorLabels, Labels, BatchLabels, Barriered
                    <5>2. mutating = 0
                        BY <1>0, <4>1, <5>1 DEF BarrierInv
                    <5>3. current = {}
                        BY <5>2, CountersPositive
                    <5>4. QED
                        BY <1>0, <5>3 DEF WakeInv
                <4>2. CASE t = Coordinator
                    BY <1>0, <2>1, <4>2 DEF WakeInv, BatchLabels
                <4>3. QED
                    BY <4>1, <4>2 DEF Threads
            <3>4. waiting' => pc'[Coordinator] = "batched" /\ progressed'[Coordinator]
                BY <2>1, <2>3, <2>4, <2>5, <3>3
            <3>5. waiting' => current' # {}
                BY <1>0, <2>1 DEF WakeInv
            <3>6. \A u \in Threads : seen'[u] <= seq'
                BY <1>0, <2>1 DEF WakeInv
            <3>7. WakeInv'
                BY <3>1, <3>2, <3>4, <3>5, <3>6 DEF WakeInv, AwaitsJob
            <3>8. EventComing'
                BY <3>1 DEF EventComing
            <3>9. QED
                BY <3>7, <3>8
        <2>6. CASE ~(core /\ ready > 0)
            <3>1. ready' = ready /\ running' = running
                BY <1>0, <1>3, <2>6 DEF DrainEvents, CountersTypeOK
            <3>2. ready = 0
                BY <1>0, <2>6 DEF CloseInv, CountersTypeOK
            <3>3. Announcing' <=> Announcing
                BY <2>1, <2>2, <2>3, <2>4, <2>6 DEF Announcing, BatchLabels
            <3>4. EventComing => EventComing'
                BY <2>1, <3>1, <3>2, <3>3 DEF EventComing
            <3>5. \A u \in Threads : AwaitsJob(u)' => AwaitsJob(u)
                BY <2>1, <2>2, <2>3, <2>4, <2>6 DEF AwaitsJob, BatchLabels
            <3>6. Outstanding' = Outstanding
                BY <3>1 DEF Outstanding
            <3>7. \A u \in Threads : seen'[u] <= seq'
                BY <1>0, <2>1 DEF WakeInv
            <3>8. \A u \in Threads : AwaitsJob(u)' => seen'[u] < seq' \/ Outstanding' > 0 \/ Announcing'
                BY <1>0, <2>1, <3>3, <3>5, <3>6 DEF WakeInv
            <3>9. waiting' => current' # {} /\ pc'[Coordinator] \in {"wait", "batch", "batched"}
                BY <1>0, <1>t, <2>1, <2>2, <2>3 DEF WakeInv, BatchLabels
            <3>10. waiting' /\ ~(pc'[Coordinator] = "batched" /\ progressed'[Coordinator]) => Outstanding' > 0
                BY <1>0, <1>t, <2>1, <2>2, <3>6 DEF WakeInv, BatchLabels
            <3>11. WakeInv'
                BY <3>1, <3>2, <3>7, <3>8, <3>9, <3>10 DEF WakeInv, AwaitsJob
            <3>12. QED
                BY <3>4, <3>11
        <2>7. QED
            BY <2>5, <2>6
    <1>4. ASSUME NEW t \in Threads, Observe(t) \/ Inspect(t) \/ AwaitEvent(t)
          PROVE  Goal
        <2>1. UNCHANGED <<running, ready, signals, seq, progressed, waiting, workReady, current>>
            BY <1>4 DEF Observe, Inspect, AwaitEvent, BarrierWorkFrame, coordinator, background
        <2>2. pc[t] \in {"observe", "inspect", "event"} /\ pc'[t] \in {"inspect", "barrierBatch", "afterBatch", "release", "observe", "event"}
            BY <1>0, <1>4 DEF Observe, Inspect, AwaitEvent, At, Goto, ThreadsTypeOK
        <2>3. \A u \in Threads : u # t => pc'[u] = pc[u] /\ seen'[u] = seen[u]
            BY <1>0, <1>4 DEF Observe, Inspect, AwaitEvent, Goto, ThreadsTypeOK
        <2>4. Announcing' <=> Announcing
            BY <2>1, <2>2, <2>3 DEF Announcing
        <2>5. EventComing' <=> EventComing
            BY <1>t, <2>1, <2>2, <2>3, <2>4 DEF EventComing
        <2>6. Outstanding' = Outstanding
            BY <2>1 DEF Outstanding
        <2>7. \A u \in Threads : seen'[u] <= seq'
            BY <1>0, <1>4, <2>1, <2>3 DEF WakeInv, Observe, Inspect, AwaitEvent, ThreadsTypeOK, CountersTypeOK
        <2>8. AwaitsJob(t)' => seen'[t] < seq' \/ Outstanding' > 0 \/ Announcing'
            <3>1. CASE Observe(t)
                BY <1>0, <3>1 DEF Observe, Goto, ThreadsTypeOK, AwaitsJob
            <3>2. CASE Inspect(t)
                BY <1>0, <2>6, <3>2 DEF Inspect, Goto, ThreadsTypeOK, AwaitsJob
            <3>3. CASE AwaitEvent(t)
                BY <1>0, <2>1, <2>4, <2>6, <3>3 DEF AwaitEvent, At, AwaitsJob, WakeInv
            <3>4. QED
                BY <1>4, <3>1, <3>2, <3>3
        <2>9. \A u \in Threads : u # t /\ AwaitsJob(u)' => seen'[u] < seq' \/ Outstanding' > 0 \/ Announcing'
            BY <1>0, <2>1, <2>3, <2>4, <2>6 DEF WakeInv, AwaitsJob
        <2>10. waiting => pc'[Coordinator] = pc[Coordinator]
            BY <1>0, <1>t, <2>2, <2>3 DEF WakeInv
        <2>11. pc[Coordinator] = "batch" => pc'[Coordinator] = "batch"
            BY <1>t, <2>2, <2>3
        <2>12. \A u \in Threads : AwaitsJob(u)' => seen'[u] < seq' \/ Outstanding' > 0 \/ Announcing'
            BY <2>8, <2>9
        <2>13. waiting' => current' # {} /\ pc'[Coordinator] \in {"wait", "batch", "batched"}
            BY <1>0, <2>1, <2>10 DEF WakeInv
        <2>14. waiting' /\ ~(pc'[Coordinator] = "batched" /\ progressed'[Coordinator]) => Outstanding' > 0
            BY <1>0, <2>1, <2>6, <2>10 DEF WakeInv
        <2>15. ready' > 0 => signals' > 0 \/ workReady' \/ pc'[Coordinator] = "batch"
            BY <1>0, <2>1, <2>11 DEF WakeInv
        <2>16. WakeInv'
            BY <2>7, <2>12, <2>13, <2>14, <2>15 DEF WakeInv, AwaitsJob
        <2>17. QED
            BY <2>5, <2>16
    <1>5. ASSUME NEW t \in Threads, \/ BarrierBatched(t)
                                    \/ t = Coordinator /\ (CommandBatched \/ Dispatch)
          PROVE  Goal
        <2>1. /\ UNCHANGED <<running, ready, signals, progressed, seen, workReady, current>>
              /\ Progress(t)
            BY <1>5 DEF BarrierBatched, CommandBatched, Dispatch, BarrierWorkFrame, CoordFrame, coordinator, background
        <2>2. /\ pc[t] \in AnnounceLabels
              /\ pc'[t] \in {"observe", "event", "complete", "execute", "stop", "wait"}
            BY <1>0, <1>5 DEF BarrierBatched, CommandBatched, Dispatch, At, Goto, ThreadsTypeOK, AnnounceLabels
        <2>3. \A u \in Threads : u # t => pc'[u] = pc[u]
            BY <1>0, <1>5 DEF BarrierBatched, CommandBatched, Dispatch, Goto, ThreadsTypeOK
        <2>4. pc[Coordinator] = "batch" => pc'[Coordinator] = "batch"
            BY <1>t, <2>2, <2>3 DEF AnnounceLabels
        <2>5. ready' > 0 => signals' > 0 \/ workReady' \/ pc'[Coordinator] = "batch"
            BY <1>0, <2>1, <2>4 DEF WakeInv
        <2>6. Outstanding' = Outstanding
            BY <2>1 DEF Outstanding
        <2>7. /\ waiting' => current' # {} /\ pc'[Coordinator] \in {"wait", "batch", "batched"}
              /\ waiting' /\ ~(pc'[Coordinator] = "batched" /\ progressed'[Coordinator]) => Outstanding' > 0
            <3>1. CASE Dispatch
                <4>1. waiting' => waiting /\ ~progressed[Coordinator] /\ pc[Coordinator] = "batched"
                    BY <3>1 DEF Dispatch, At
                <4>2. waiting' => current # {} /\ Outstanding > 0
                    BY <1>0, <4>1 DEF WakeInv
                <4>3. waiting' => ~sawShutdown
                    BY <4>2, CountersPositive, <1>0 DEF CloseInv, CloseIn, FromJoin, FromRequest
                <4>4. waiting' => pc'[Coordinator] = "wait"
                    BY <1>0, <1>t, <3>1, <4>2, <4>3 DEF Dispatch, Goto, ThreadsTypeOK
                <4>5. QED
                    BY <2>1, <2>6, <4>2, <4>4
            <3>2. CASE ~Dispatch
                <4>1. waiting' = waiting
                    BY <1>5, <3>2 DEF BarrierBatched, CommandBatched, BarrierWorkFrame, coordinator
                <4>2. pc[t] # "batched"
                    BY <1>5, <3>2 DEF BarrierBatched, CommandBatched, At
                <4>3. waiting => t # Coordinator
                    BY <1>0, <2>2, <4>2 DEF WakeInv, AnnounceLabels
                <4>4. QED
                    BY <1>0, <1>t, <2>1, <2>3, <2>6, <4>1, <4>3 DEF WakeInv
            <3>3. QED
                BY <3>1, <3>2
        <2>8. CASE progressed[t]
            <3>1. seq' = seq + 1 /\ asleep' = {}
                BY <2>1, <2>8 DEF Progress, NotifyAll
            <3>2. \A u \in Threads : seen'[u] < seq' /\ seen'[u] <= seq'
                BY <1>0, <2>1, <3>1 DEF WakeInv, ThreadsTypeOK, CountersTypeOK
            <3>3. WakeInv'
                BY <2>5, <2>7, <3>2 DEF WakeInv, AwaitsJob
            <3>4. QED
                BY <3>1, <3>3
        <2>9. CASE ~progressed[t]
            <3>1. seq' = seq
                BY <2>1, <2>9 DEF Progress
            <3>2. Announcing' <=> Announcing
                BY <2>1, <2>2, <2>3, <2>9 DEF Announcing, AnnounceLabels
            <3>3. EventComing => EventComing'
                BY <2>1, <2>4, <3>2 DEF EventComing
            <3>4. \A u \in Threads : AwaitsJob(u)' => AwaitsJob(u)
                <4>1. AwaitsJob(t)' => pc[t] = "barrierBatched"
                    BY <1>0, <1>5, <1>t, <2>2 DEF AwaitsJob, BarrierBatched, CommandBatched, Dispatch, Goto, At, ThreadsTypeOK
                <4>2. QED
                    BY <2>1, <2>3, <2>9, <4>1 DEF AwaitsJob
            <3>5. \A u \in Threads : seen'[u] <= seq'
                BY <1>0, <2>1, <3>1 DEF WakeInv
            <3>6. \A u \in Threads : AwaitsJob(u)' => seen'[u] < seq' \/ Outstanding' > 0 \/ Announcing'
                BY <1>0, <2>1, <2>6, <3>1, <3>2, <3>4 DEF WakeInv
            <3>7. WakeInv'
                BY <2>5, <2>7, <3>5, <3>6 DEF WakeInv, AwaitsJob
            <3>8. QED
                BY <3>3, <3>7
        <2>10. QED
            BY <2>8, <2>9
    <1>6. ASSUME \/ PickCommand \/ Stop
                 \/ \E request \in current : Execute(request) \/ Complete(request)
          PROVE  Goal
        <2>1. UNCHANGED <<ready, signals, progressed, seen, seq>>
            BY <1>6 DEF PickCommand, Stop, Execute, Complete, CoordFrame
        <2>2. running' >= running
            BY <1>0, <1>6 DEF PickCommand, Stop, Execute, Complete, CountersTypeOK
        <2>3. \A c \in Clients : pc'[c] = pc[c] \/ (pc[c] = "reply" /\ pc'[c] = "replied")
            <3>1. CASE PickCommand \/ Stop
                BY <1>0, <3>1 DEF PickCommand, Stop, Goto, Threads, ThreadsTypeOK
            <3>2. ASSUME NEW request \in current, Execute(request)
                  PROVE  \A c \in Clients : pc'[c] = pc[c]
                BY <1>0, <3>2 DEF Execute, Goto, Threads, ThreadsTypeOK
            <3>3. ASSUME NEW request \in current, Complete(request)
                  PROVE  \A c \in Clients : pc'[c] = pc[c] \/ (pc[c] = "reply" /\ pc'[c] = "replied")
                BY <3>3, AnsweredWaits DEF Complete, Threads
            <3>4. QED
                BY <1>6, <3>1, <3>2, <3>3
        <2>4. pc[Coordinator] \in {"wait", "stop", "execute", "complete"}
            BY <1>6 DEF PickCommand, Stop, Execute, Complete, At
        <2>5. /\ pc'[Coordinator] \in {"wait", "batch", "stopped", "observe", "afterBatch"}
              /\ workReady' = workReady \/ pc'[Coordinator] = "batch"
            <3>1. CASE PickCommand \/ Stop
                BY <1>0, <1>t, <3>1 DEF PickCommand, Stop, At, Goto, ThreadsTypeOK
            <3>2. ASSUME NEW request \in current, Execute(request)
                  PROVE  /\ pc'[Coordinator] \in {"wait", "observe", "afterBatch"}
                         /\ workReady' = workReady
                BY <1>0, <1>t, <3>2 DEF Execute, Goto, ThreadsTypeOK
            <3>3. ASSUME NEW request \in current, Complete(request)
                  PROVE  pc'[Coordinator] = "wait" /\ workReady' = workReady
                BY <1>t, <3>3, AnsweredWaits DEF Complete
            <3>4. QED
                BY <1>6, <3>1, <3>2, <3>3
        <2>6. Announcing' <=> Announcing
            BY <1>t, <2>1, <2>3, <2>4, <2>5 DEF Announcing, Threads
        <2>7. EventComing => EventComing'
            BY <1>0, <2>1, <2>2, <2>4, <2>6, CountersStep DEF EventComing, CountersTypeOK
        <2>8. \A t \in Threads : AwaitsJob(t)' => AwaitsJob(t)
            BY <2>1, <2>3, <2>5 DEF AwaitsJob, Threads
        <2>9. Outstanding > 0 => Outstanding' > 0
            BY <1>0, <2>1, <2>2, CountersStep DEF Outstanding, CountersTypeOK
        <2>10. \A t \in Threads : seen'[t] <= seq'
            BY <1>0, <2>1 DEF WakeInv
        <2>11. ready' > 0 => signals' > 0 \/ workReady' \/ pc'[Coordinator] = "batch"
            BY <1>0, <2>1, <2>4, <2>5 DEF WakeInv
        <2>12. \A t \in Threads : AwaitsJob(t)' => seen'[t] < seq' \/ Outstanding' > 0 \/ Announcing'
            BY <1>0, <2>1, <2>6, <2>8, <2>9 DEF WakeInv
        <2>13. waiting' => current' # {} /\ pc'[Coordinator] \in {"wait", "batch", "batched"} /\ Outstanding' > 0
            <3>1. CASE PickCommand
                <4>1. waiting' = waiting /\ (current # {} => current' = current) /\ pc'[Coordinator] \in {"wait", "batch"}
                    BY <1>0, <1>t, <3>1 DEF PickCommand, At, Goto, ThreadsTypeOK
                <4>2. QED
                    BY <1>0, <2>4, <2>9, <4>1 DEF WakeInv
            <3>2. CASE Stop
                BY <1>0, <3>2 DEF Stop, At, WakeInv, coordinator
            <3>3. ASSUME NEW request \in current, Execute(request), waiting'
                  PROVE  current' # {} /\ pc'[Coordinator] = "wait" /\ Outstanding' > 0
                <4>1. current' = current
                    BY <3>3 DEF Execute
                <4>2. ~waiting
                    BY <1>0, <3>3 DEF Execute, At, WakeInv
                <4>3. Outstanding >= MaxImmutable /\ Goto(Coordinator, "wait")
                    BY <3>3, <4>2 DEF Execute
                <4>4. Outstanding > 0
                    BY <1>0, <4>3 DEF Outstanding, CountersTypeOK
                <4>5. QED
                    BY <1>0, <1>t, <2>9, <3>3, <4>1, <4>3, <4>4 DEF Goto, ThreadsTypeOK
            <3>4. ASSUME NEW request \in current, Complete(request)
                  PROVE  ~waiting'
                BY <1>0, <3>4 DEF Complete, At, WakeInv
            <3>5. QED
                BY <1>6, <3>1, <3>2, <3>3, <3>4
        <2>14. WakeInv'
            BY <2>10, <2>11, <2>12, <2>13 DEF WakeInv, AwaitsJob
        <2>15. QED
            BY <2>7, <2>14
    <1>7. ASSUME JobEnds \/ JobNotifies
          PROVE  Goal
        <2>1. UNCHANGED <<pc, progressed, seen, seq, waiting, current>>
            BY <1>7 DEF JobEnds, JobNotifies, coordinator, locals
        <2>2. Announcing' <=> Announcing
            BY <2>1 DEF Announcing
        <2>3. Outstanding' = Outstanding
            BY <1>0, <1>7 DEF JobEnds, JobNotifies, Outstanding, CountersTypeOK
        <2>4. signals' > 0 \/ (workReady' /\ asleep' = {} /\ ready' = ready)
            BY <1>0, <1>7 DEF JobEnds, JobNotifies, NotifyAll, CountersTypeOK
        <2>5. \A t \in Threads : AwaitsJob(t)' <=> AwaitsJob(t)
            BY <2>1 DEF AwaitsJob
        <2>6. EventComing' \/ asleep' = {}
            BY <2>4 DEF EventComing
        <2>7. \A t \in Threads : AwaitsJob(t)' => seen'[t] < seq' \/ Outstanding' > 0 \/ Announcing'
            BY <1>0, <2>1, <2>2, <2>3, <2>5 DEF WakeInv
        <2>8. WakeInv'
            BY <1>0, <2>1, <2>3, <2>4, <2>7 DEF WakeInv, AwaitsJob
        <2>9. QED
            BY <2>6, <2>8
    <1>8. QED
        BY StepCases, <1>t, <1>1, <1>2, <1>3, <1>4, <1>5, <1>6, <1>7 DEF BarrierStep

-----------------------------------------------------------------------------
(* No missed wakeup *)

\* A reason to sleep that the step leaves in place.
LEMMA ReasonKept ==
    ASSUME NEW t \in Threads, HasReason(t), pc'[t] = pc[t],
           barrier => barrier', mutating > 0 => mutating' > 0, nonRead > 0 => nonRead' > 0,
           Occupancy >= Capacity => Occupancy' >= Capacity,
           (EventComing => EventComing') \/ pc[t] \notin {"event", "wait"},
           UNCHANGED <<shutdown, waiting, pending>> \/ pc[t] # "wait"
    PROVE  HasReason(t)'
    <1>1. pc'[t] \in {"submit", "followup"} => barrier' \/ Occupancy' >= Capacity
        BY DEF HasReason
    <1>2. /\ pc'[t] = "barrier"  => barrier'
          /\ pc'[t] = "draining" => mutating' > 0
          /\ pc'[t] = "drainOps" => nonRead' > 0
        BY DEF HasReason
    <1>3. pc'[t] = "event" => EventComing'
        BY DEF HasReason
    <1>4. pc'[t] = "wait" => ~shutdown' /\ IF waiting' THEN EventComing' ELSE pending' = <<>>
        BY DEF HasReason
    <1>5. QED
        BY <1>1, <1>2, <1>3, <1>4 DEF HasReason

\* Nobody who sleeps on lifecycle_cv is left behind by a step.
LEMMA SleepersStep ==
    ASSUME RuntimeInv, [Next]_vars
    PROVE  SleepersHaveAReason'
    <1> USE RuntimeAssumption
    <1>0. /\ ThreadsTypeOK /\ CountersTypeOK /\ ControlInv /\ BarrierInv /\ CloseInv
          /\ CommandsCounted /\ WakeInv /\ SleepersHaveAReason
        BY DEF RuntimeInv, TypeOK, CountersExact
    <1>t. Coordinator \in Threads /\ asleep \subseteq Threads
        BY <1>0 DEF Threads, ThreadsTypeOK
    <1>w. \A t \in Threads : pc[t] = "wait" => t = Coordinator
        BY <1>0 DEF ControlInv, ClientLabels, CoordinatorLabels, Labels, Threads
    <1>e. (EventComing => EventComing') \/ asleep' = {} \/ \E c \in Clients : TakeCore(c)
        BY WakeStep
    <1>n. CASE asleep' = {}
        BY <1>n DEF SleepersHaveAReason
    <1> DEFINE Frame == UNCHANGED <<barrier, mutating, nonRead, pending, active, shutdown, waiting>>
               Still == \A t \in asleep : pc'[t] = pc[t]
    <1>k. ASSUME Frame, Still, asleep' = asleep, EventComing => EventComing'
          PROVE  SleepersHaveAReason'
        <2>1. Occupancy' = Occupancy
            BY <1>k DEF Occupancy
        <2>2. \A t \in asleep : HasReason(t)'
            BY <1>0, <1>k, <1>t, <2>1, ReasonKept DEF SleepersHaveAReason
        <2>3. QED
            BY <1>k, <2>2 DEF SleepersHaveAReason, HasReason
    <1>s. ASSUME NEW t \in Threads, Frame, Sleep(t), Still, HasReason(t)', EventComing => EventComing'
          PROVE  SleepersHaveAReason'
        <2>1. Occupancy' = Occupancy
            BY <1>s DEF Occupancy
        <2>2. \A u \in asleep : HasReason(u)'
            BY <1>0, <1>s, <1>t, <2>1, ReasonKept DEF SleepersHaveAReason
        <2>3. \A u \in asleep' : u \in asleep \/ u = t
            BY <1>s DEF Sleep
        <2>4. QED
            BY <1>s, <2>2, <2>3 DEF SleepersHaveAReason, HasReason
    <1>1. ASSUME NEW c \in Clients, NEW k \in Kinds, Call(c, k)
          PROVE  SleepersHaveAReason'
        <2>1. Frame /\ asleep' = asleep
            BY <1>1 DEF Call, lifecycle, coordinator
        <2>2. Still
            BY <1>0, <1>1 DEF Call, Goto, Threads, ThreadsTypeOK, ControlInv, SleepLabels
        <2>3. EventComing => EventComing'
            BY <1>0, <1>1, ClientsUndisturbing, EventsKept
        <2>4. QED
            BY <1>k, <2>1, <2>2, <2>3
    <1>2. ASSUME NEW c \in Clients, ReadStep(c), ~Followup(c)
          PROVE  SleepersHaveAReason'
        <2>1. Frame /\ asleep' = asleep
            BY <1>2 DEF ReadStep, Admit, Count, Recheck, FinishRead, WakeCloser, NeedsFollowup, ReadFrame, GuardFrame, lifecycle, coordinator
        <2>2. Still
            BY <1>0, <1>2 DEF ReadStep, Admit, Count, Recheck, FinishRead, WakeCloser, NeedsFollowup, Return, At, Goto, Threads, ThreadsTypeOK
        <2>3. EventComing => EventComing'
            BY <1>0, <1>2, ClientsUndisturbing, EventsKept
        <2>4. QED
            BY <1>k, <2>1, <2>2, <2>3
    <1>3. ASSUME NEW c \in Clients, Followup(c)
          PROVE  SleepersHaveAReason'
        <2>1. EventComing => EventComing'
            BY <1>0, <1>3, ClientsUndisturbing, EventsKept DEF ReadStep
        <2>2. UNCHANGED <<barrier, active, shutdown, waiting>> /\ pc[c] = "followup" /\ c \notin asleep
            BY <1>3 DEF Followup, SubmitFrame, At, coordinator
        <2>3. CASE UNCHANGED <<nonRead, mutating, pending, asleep>> /\ Goto(c, "finish")
            <3>1. Still
                BY <1>0, <2>2, <2>3 DEF Goto, Threads, ThreadsTypeOK
            <3>2. QED
                BY <1>k, <2>1, <2>2, <2>3, <3>1
        <2>4. CASE /\ barrier \/ Occupancy >= Capacity
                   /\ Sleep(c) /\ UNCHANGED <<nonRead, mutating, pending, pc>>
            <3>1. Occupancy' = Occupancy
                BY <2>2, <2>4 DEF Occupancy
            <3>2. HasReason(c)'
                BY <2>2, <2>4, <3>1 DEF HasReason
            <3>3. QED
                BY <1>s, <2>1, <2>2, <2>4, <3>2 DEF Threads
        <2>5. QED
            BY <1>3, <1>n, <2>3, <2>4 DEF Followup, Enqueue, NotifyAll
    <1>4. ASSUME NEW c \in Clients, Submit(c)
          PROVE  SleepersHaveAReason'
        <2>1. EventComing => EventComing'
            BY <1>0, <1>4, ClientsUndisturbing, EventsKept DEF MutateStep
        <2>2. UNCHANGED <<barrier, active, shutdown, waiting>> /\ pc[c] = "submit" /\ c \notin asleep
            BY <1>4 DEF Submit, SubmitFrame, At, coordinator
        <2>3. CASE UNCHANGED <<nonRead, mutating, pending, asleep>> /\ Return(c)
            <3>1. Still
                BY <1>0, <2>2, <2>3 DEF Return, Goto, Threads, ThreadsTypeOK
            <3>2. QED
                BY <1>k, <2>1, <2>2, <2>3, <3>1
        <2>4. CASE /\ barrier \/ Occupancy >= Capacity
                   /\ Sleep(c) /\ UNCHANGED <<nonRead, mutating, pending, pc>>
            <3>1. Occupancy' = Occupancy
                BY <2>2, <2>4 DEF Occupancy
            <3>2. HasReason(c)'
                BY <2>2, <2>4, <3>1 DEF HasReason
            <3>3. QED
                BY <1>s, <2>1, <2>2, <2>4, <3>2 DEF Threads
        <2>5. QED
            BY <1>4, <1>n, <2>3, <2>4 DEF Submit, Enqueue, NotifyAll
    <1>5. ASSUME NEW c \in Clients, Replied(c)
          PROVE  SleepersHaveAReason'
        <2>1. Frame /\ asleep' = asleep
            BY <1>5 DEF Replied, ReadFrame, GuardFrame, lifecycle, coordinator
        <2>2. Still
            BY <1>0, <1>5 DEF Replied, Return, At, Goto, Threads, ThreadsTypeOK
        <2>3. EventComing => EventComing'
            BY <1>0, <1>5, ClientsUndisturbing, EventsKept DEF MutateStep
        <2>4. QED
            BY <1>k, <2>1, <2>2, <2>3
    <1>6. ASSUME NEW c \in Clients, BeginBarrier(c)
          PROVE  SleepersHaveAReason'
        <2>1. EventComing => EventComing'
            BY <1>0, <1>6, ClientsUndisturbing, EventsKept DEF MutateStep
        <2>2. /\ UNCHANGED <<mutating, active, pending, shutdown, waiting>>
              /\ pc[c] = "barrier" /\ c \notin asleep
            BY <1>6 DEF BeginBarrier, BarrierFrame, At, coordinator
        <2>3. Occupancy' = Occupancy
            BY <2>2 DEF Occupancy
        <2>4. CASE UNCHANGED <<nonRead, barrier, asleep>> /\ Return(c)
            <3>1. Still
                BY <1>0, <2>2, <2>4 DEF Return, Goto, Threads, ThreadsTypeOK
            <3>2. QED
                BY <1>k, <2>1, <2>2, <2>4, <3>1
        <2>5. CASE barrier /\ Sleep(c) /\ UNCHANGED <<barrier, nonRead, pc>>
            <3>1. HasReason(c)'
                BY <2>2, <2>5 DEF HasReason
            <3>2. QED
                BY <1>s, <2>1, <2>2, <2>5, <3>1 DEF Threads
        <2>6. CASE /\ barrier' = TRUE /\ nonRead' = nonRead + 1
                   /\ \/ mutating > 0 /\ Sleep(c) /\ Goto(c, "draining")
                      \/ asleep' = asleep /\ Goto(c, "observe")
            <3>1. Still
                BY <1>0, <2>2, <2>6 DEF Goto, Threads, ThreadsTypeOK
            <3>2. nonRead > 0 => nonRead' > 0
                BY <1>0, <2>6 DEF CountersTypeOK
            <3>3. \A t \in asleep : HasReason(t)'
                BY <1>0, <1>t, <2>1, <2>2, <2>3, <2>6, <3>1, <3>2, ReasonKept DEF SleepersHaveAReason
            <3>4. c \in asleep' => HasReason(c)'
                BY <1>0, <2>2, <2>6 DEF HasReason, Goto, Threads, ThreadsTypeOK
            <3>5. \A t \in asleep' : t \in asleep \/ t = c
                BY <2>6 DEF Sleep
            <3>6. QED
                BY <3>3, <3>4, <3>5 DEF SleepersHaveAReason, HasReason
        <2>7. QED
            BY <1>6, <2>4, <2>5, <2>6 DEF BeginBarrier
    <1>7. ASSUME NEW c \in Clients, DrainMutating(c) \/ EndBarrier(c)
          PROVE  SleepersHaveAReason'
        <2>1. EventComing => EventComing'
            BY <1>0, <1>7, ClientsUndisturbing, EventsKept DEF MutateStep
        <2>2. /\ UNCHANGED <<mutating, active, pending, shutdown, waiting>>
              /\ pc[c] \in {"draining", "release"} /\ c \notin asleep
            BY <1>7 DEF DrainMutating, EndBarrier, BarrierFrame, At, coordinator
        <2>3. CASE UNCHANGED <<nonRead, barrier, asleep>> /\ Goto(c, "observe")
            <3>1. Still
                BY <1>0, <2>2, <2>3 DEF Goto, Threads, ThreadsTypeOK
            <3>2. QED
                BY <1>k, <2>1, <2>2, <2>3, <3>1
        <2>4. CASE pc[c] = "draining" /\ mutating > 0 /\ Sleep(c) /\ UNCHANGED <<barrier, nonRead, pc>>
            <3>1. HasReason(c)'
                BY <2>2, <2>4 DEF HasReason
            <3>2. QED
                BY <1>s, <2>1, <2>2, <2>4, <3>1 DEF Threads
        <2>5. QED
            BY <1>7, <1>n, <2>3, <2>4 DEF DrainMutating, EndBarrier, At, NotifyAll
    <1>8. ASSUME NEW c \in Clients, CloseStep(c), ~TakeCore(c)
          PROVE  SleepersHaveAReason'
        <2>1. EventComing => EventComing'
            BY <1>0, <1>8, ClientsUndisturbing, EventsKept
        <2>2. CASE RequestShutdown(c) \/ Join(c) \/ Announce(c)
            BY <1>n, <2>2 DEF RequestShutdown, Join, Announce, NotifyAll
        <2>3. CASE Close(c) \/ DrainReads(c) \/ SleepForReads(c) \/ SetClosed(c)
            <3>1. Frame /\ asleep' = asleep
                BY <2>3 DEF Close, DrainReads, SleepForReads, SetClosed, CloseFrame, coordinator
            <3>2. Still
                BY <1>0, <2>3 DEF Close, DrainReads, SleepForReads, SetClosed, Return, At, Goto, Threads, ThreadsTypeOK
            <3>3. QED
                BY <1>k, <2>1, <3>1, <3>2
        <2>4. CASE DrainOps(c)
            <3>1. Frame /\ pc[c] = "drainOps" /\ c \notin asleep
                BY <2>4 DEF DrainOps, At, CloseFrame, coordinator
            <3>2. CASE nonRead > 0 /\ Sleep(c) /\ pc' = pc
                <4>1. HasReason(c)'
                    BY <3>1, <3>2 DEF HasReason
                <4>2. QED
                    BY <1>s, <2>1, <3>1, <3>2, <4>1 DEF Threads
            <3>3. CASE Goto(c, "request") /\ asleep' = asleep
                <4>1. Still
                    BY <1>0, <3>1, <3>3 DEF Goto, Threads, ThreadsTypeOK
                <4>2. QED
                    BY <1>k, <2>1, <3>1, <3>3, <4>1
            <3>4. QED
                BY <2>4, <3>2, <3>3 DEF DrainOps
        <2>5. QED
            BY <1>8, <2>2, <2>3, <2>4 DEF CloseStep
    <1>9. ASSUME NEW c \in Clients, TakeCore(c)
          PROVE  SleepersHaveAReason'
        <2>1. Frame /\ asleep' = asleep /\ pc[c] = "takeCore"
            BY <1>9 DEF TakeCore, At, CloseFrame, coordinator
        <2>2. Still
            BY <1>0, <1>9 DEF TakeCore, At, Goto, Threads, ThreadsTypeOK
        <2>3. pc[Coordinator] = "stopped" /\ nonRead = 0
            BY <1>0, <2>1 DEF CloseInv, CloseIn, FromTakeCore, FromSetClosed, FromJoin, FromRequest
        <2>4. \A t \in asleep : pc[t] \notin {"event", "wait"}
            <3>1. \A d \in Clients : pc[d] \notin Holding
                BY <2>3, CountersPositive
            <3>2. QED
                BY <1>t, <1>w, <2>3, <3>1 DEF Holding, Barriered, Threads
        <2>5. Occupancy' = Occupancy
            BY <2>1 DEF Occupancy
        <2>6. \A t \in asleep : HasReason(t)'
            BY <1>0, <1>t, <2>1, <2>2, <2>4, <2>5, ReasonKept DEF SleepersHaveAReason
        <2>7. QED
            BY <2>1, <2>6 DEF SleepersHaveAReason, HasReason
    <1>c. ASSUME \A c \in Clients : ~TakeCore(c)
          PROVE  (EventComing => EventComing') \/ asleep' = {}
        BY <1>c, <1>e
    <1>10. ASSUME NEW t \in Threads, BarrierStep(t), (EventComing => EventComing') \/ asleep' = {}
           PROVE  SleepersHaveAReason'
        <2>1. SUFFICES ASSUME EventComing => EventComing'
                       PROVE  SleepersHaveAReason'
            BY <1>n, <1>10
        <2>2. Frame
            BY <1>10 DEF BarrierStep, DrainEvents, Observe, Inspect, BarrierBatched, AwaitEvent, BarrierWorkFrame, lifecycle, coordinator
        <2>3. Still
            BY <1>0, <1>10, <1>t DEF BarrierStep, DrainEvents, Observe, Inspect, BarrierBatched, AwaitEvent, At, Goto, ThreadsTypeOK
        <2>4. CASE asleep' = asleep
            BY <1>k, <2>1, <2>2, <2>3, <2>4
        <2>5. CASE AwaitEvent(t) /\ Sleep(t)
            <3>1. /\ UNCHANGED <<running, ready, signals, progressed>>
                  /\ pc[t] = "event" /\ t \notin asleep
                BY <2>5 DEF AwaitEvent, At, BarrierWorkFrame, background
            <3>2. asleep' # asleep
                BY <2>5, <3>1 DEF Sleep
            <3>3. seq = seen[t] /\ ~workReady /\ pc' = pc
                BY <2>5, <3>2 DEF AwaitEvent
            <3>4. Outstanding > 0 \/ Announcing
                BY <1>0, <3>1, <3>3 DEF WakeInv, AwaitsJob, CountersTypeOK
            <3>5. EventComing
                BY <1>0, <3>3, <3>4 DEF EventComing, WakeInv, Outstanding, CountersTypeOK
            <3>6. HasReason(t)'
                BY <2>1, <3>1, <3>3, <3>5 DEF HasReason
            <3>7. QED
                BY <1>s, <2>1, <2>2, <2>3, <2>5, <3>6
        <2>6. QED
            BY <1>10, <1>n, <2>4, <2>5 DEF BarrierStep, DrainEvents, Observe, Inspect, BarrierBatched, AwaitEvent, Progress, NotifyAll
    <1>11. ASSUME CommandBatched \/ Stop, (EventComing => EventComing') \/ asleep' = {}
           PROVE  SleepersHaveAReason'
        <2>1. CASE CommandBatched /\ asleep' = asleep
            <3>1. Frame
                BY <2>1 DEF CommandBatched, BarrierWorkFrame, lifecycle, coordinator
            <3>2. Still
                BY <1>0, <1>t, <2>1 DEF CommandBatched, At, Goto, ThreadsTypeOK
            <3>3. QED
                BY <1>k, <1>n, <1>11, <2>1, <3>1, <3>2
        <2>2. QED
            BY <1>11, <1>n, <2>1 DEF CommandBatched, Stop, Progress, NotifyAll
    <1>q. ASSUME Coordinator \notin asleep, asleep' = asleep, UNCHANGED <<barrier, mutating, nonRead>>,
                 Occupancy' = Occupancy, EventComing => EventComing',
                 \A t \in Threads : t # Coordinator => pc'[t] = pc[t]
          PROVE  SleepersHaveAReason'
        <2>1. \A t \in asleep : pc'[t] = pc[t] /\ pc[t] # "wait"
            BY <1>q, <1>t, <1>w
        <2>2. \A t \in asleep : HasReason(t)'
            BY <1>0, <1>q, <1>t, <2>1, ReasonKept DEF SleepersHaveAReason
        <2>3. QED
            BY <1>q, <2>2 DEF SleepersHaveAReason, HasReason
    <1>12. ASSUME PickCommand, (EventComing => EventComing') \/ asleep' = {}
           PROVE  SleepersHaveAReason'
        <2>1. SUFFICES ASSUME EventComing => EventComing'
                       PROVE  SleepersHaveAReason'
            BY <1>n, <1>12
        <2>2. /\ UNCHANGED <<barrier, mutating, nonRead, shutdown, waiting, running, ready, signals, progressed>>
              /\ pc[Coordinator] = "wait" /\ Coordinator \notin asleep
            BY <1>12 DEF PickCommand, At, CoordFrame
        <2>3. CASE /\ ~shutdown /\ ~workReady
                   /\ (current = {} /\ pending = <<>>) \/ waiting
                   /\ Sleep(Coordinator) /\ UNCHANGED <<active, pending, pc>>
            <3>1. waiting => EventComing
                <4>1. waiting => Outstanding > 0
                    BY <1>0, <2>2 DEF WakeInv
                <4>2. QED
                    BY <1>0, <2>2, <2>3, <4>1 DEF WakeInv, EventComing, Outstanding, CountersTypeOK
            <3>2. HasReason(Coordinator)'
                BY <2>1, <2>2, <2>3, <3>1 DEF HasReason
            <3>3. QED
                BY <1>s, <1>t, <2>1, <2>2, <2>3, <3>2
        <2>4. CASE asleep' = asleep
            <3>1. Occupancy' = Occupancy
                <4>1. mutating = Occupancy /\ mutating' = Occupancy'
                    BY <1>0, CommandsStep DEF CommandsCounted
                <4>2. QED
                    BY <2>2, <4>1
            <3>2. \A t \in Threads : t # Coordinator => pc'[t] = pc[t]
                BY <1>0, <1>12 DEF PickCommand, Goto, ThreadsTypeOK
            <3>3. QED
                BY <1>q, <2>1, <2>2, <2>4, <3>1, <3>2
        <2>5. QED
            BY <1>12, <2>3, <2>4 DEF PickCommand
    <1>13. ASSUME Dispatch \/ \E request \in current : Execute(request),
                  (EventComing => EventComing') \/ asleep' = {}
           PROVE  SleepersHaveAReason'
        <2>1. /\ UNCHANGED <<barrier, mutating, nonRead, pending, active>>
              /\ Coordinator \notin asleep /\ asleep' \in {asleep, {}}
            BY <1>13 DEF Dispatch, Execute, At, CoordFrame, Progress, NotifyAll
        <2>2. \A t \in Threads : t # Coordinator => pc'[t] = pc[t]
            BY <1>0, <1>13 DEF Dispatch, Execute, Goto, ThreadsTypeOK
        <2>3. Occupancy' = Occupancy
            BY <2>1 DEF Occupancy
        <2>4. QED
            BY <1>n, <1>q, <1>13, <2>1, <2>2, <2>3
    <1>14. CASE JobNotifies \/ \E request \in current : Complete(request)
        BY <1>n, <1>14 DEF JobNotifies, Complete, NotifyAll
    <1>15. ASSUME JobEnds \/ UNCHANGED vars, (EventComing => EventComing') \/ asleep' = {}
           PROVE  SleepersHaveAReason'
        <2>1. Frame /\ asleep' = asleep /\ pc' = pc
            BY <1>15 DEF JobEnds, vars, lifecycle, coordinator
        <2>2. QED
            BY <1>k, <1>n, <1>15, <2>1
    <1>16. QED
        BY StepCases, <1>c, <1>1, <1>2, <1>3, <1>4, <1>5, <1>6, <1>7, <1>8, <1>9, <1>10, <1>11, <1>12, <1>13, <1>14, <1>15 DEF MutateStep

-----------------------------------------------------------------------------
(* The theorems *)

\* DbRuntime::start: no call, no command, the coordinator at the head of its loop.
LEMMA InitRuntimeInv == Init => RuntimeInv
    <1> SUFFICES ASSUME Init PROVE RuntimeInv
        OBVIOUS
    <1> USE RuntimeAssumption
    <1>1. FlagsTypeOK
        BY DEF Init, FlagsTypeOK
    <1>2. CountersTypeOK
        BY DEF Init, CountersTypeOK
    <1>3. ThreadsTypeOK
        BY DEF Init, ThreadsTypeOK, Labels, Threads
    <1>4. \A c \in Clients : pc[c] = "idle"
        BY DEF Init, Threads
    <1>5. pc[Coordinator] = "wait"
        BY DEF Init, Threads
    <1>6. ControlInv
        BY <1>4, <1>5 DEF Init, ControlInv, ClientLabels, CoordinatorLabels, Labels
    <1>7. BarrierInv
        BY <1>4 DEF Init, BarrierInv, Holding, Barriered
    <1>8. CloseInv
        BY <1>4 DEF Init, CloseInv, CloseIn, FromSetClosed, FromTakeCore, FromJoin, FromRequest, FromDrainOps, FromDrainReads
    <1>9. Readers = {}
        BY <1>4 DEF Readers, Guarded
    <1>10. CountersExact /\ IsFiniteSet(Readers)
        <2>1. Occupancy = 0
            BY DEF Init, Occupancy
        <2>2. CommandsCounted
            BY <2>1 DEF Init, CommandsCounted
        <2>3. QED
            BY <1>9, <2>2, FS_EmptySet DEF Init, CountersExact
    <1>11. OneReplyPerSubmit
        <2>1. Commands = {} /\ Unanswered = {} /\ DOMAIN pending = {}
            BY <1>4 DEF Init, Commands, Unanswered
        <2>2. QED
            BY <2>1 DEF Init, OneReplyPerSubmit
    <1>12. WakeInv
        BY <1>4, <1>5 DEF Init, WakeInv, AwaitsJob, Threads
    <1>13. SleepersHaveAReason
        BY DEF Init, SleepersHaveAReason
    <1>14. QED
        BY <1>1, <1>2, <1>3, <1>6, <1>7, <1>8, <1>10, <1>11, <1>12, <1>13 DEF RuntimeInv, TypeOK

\* Every step of every thread keeps the inductive invariant of the runtime.
LEMMA NextRuntimeInv == RuntimeInv /\ [Next]_vars => RuntimeInv'
    <1> SUFFICES ASSUME RuntimeInv, [Next]_vars
                 PROVE  RuntimeInv'
        OBVIOUS
    <1>1. FlagsTypeOK' /\ CountersTypeOK' /\ ThreadsTypeOK'
        BY FlagsStep, CountersStep, ThreadsStep DEF RuntimeInv, TypeOK
    <1>2. ControlInv' /\ BarrierInv' /\ CloseInv' /\ OneReplyPerSubmit'
        BY ControlStep, BarrierInvStep, CloseInvStep, RepliesStep
    <1>3. CommandsCounted' /\ reads' = Cardinality(Readers') /\ IsFiniteSet(Readers')
        BY CommandsStep, ReadersStep
    <1>4. WakeInv' /\ SleepersHaveAReason'
        BY WakeStep, SleepersStep
    <1>5. QED
        BY <1>1, <1>2, <1>3, <1>4 DEF RuntimeInv, TypeOK, CountersExact

\* The inductive invariant of DbRuntime: types, control, the barrier's holder, the
\* phases of close(), the counters, the replies and the wakeups together.
THEOREM RuntimeInductive == Spec => []RuntimeInv
    BY InitRuntimeInv, NextRuntimeInv, PTL DEF Spec

\* The fields of RuntimeLifecycleState keep their types: no counter the code
\* decrements with saturating_sub ever saturates.
THEOREM RuntimeTypeCorrect == Spec => []TypeOK
    <1>1. RuntimeInv => TypeOK
        BY DEF RuntimeInv
    <1>2. QED
        BY <1>1, RuntimeInductive, PTL

\* begin_mutating_barrier: whoever works behind the barrier works alone, with no
\* command queued or executing.
THEOREM BarrierIsExclusive == Spec => []BarrierExcludesMutations
    <1>1. RuntimeInv => BarrierExcludesMutations
        <2> SUFFICES ASSUME RuntimeInv, NEW c \in Exclusive
                     PROVE  pending = <<>> /\ current = {} /\ \A d \in Exclusive : d = c
            BY DEF BarrierExcludesMutations
        <2>1. c \in Clients /\ pc[c] \in Barriered
            BY DEF Exclusive
        <2>2. BarrierInv /\ pending \in Seq(Requests)
            BY DEF RuntimeInv, TypeOK, CountersTypeOK
        <2>3. mutating = 0
            BY <2>1, <2>2 DEF BarrierInv
        <2>4. current = {}
            BY <2>3, CountersPositive
        <2>5. Occupancy = 0
            BY <2>3 DEF RuntimeInv, CountersExact, CommandsCounted
        <2>6. pending = <<>>
            BY <2>2, <2>5 DEF Occupancy
        <2>7. \A d \in Exclusive : d = c
            BY <2>1, <2>2 DEF BarrierInv, Exclusive, Holding
        <2>8. QED
            BY <2>4, <2>6, <2>7
    <1>2. QED
        BY <1>1, RuntimeInductive, PTL

\* close() takes the core out of its mutex only when no reader, barrier, command
\* or coordinator can reach it any more.
THEOREM CloseHandsOverAlone == Spec => []NoWorkAfterClose
    <1>1. RuntimeInv => NoWorkAfterClose
        <2> SUFFICES ASSUME RuntimeInv, ~core
                     PROVE  /\ {c \in Readers : pc[c] \in {"reading", "followup"}} = {} /\ Exclusive = {}
                            /\ pending = <<>> /\ current = {} /\ pc[Coordinator] = "stopped"
            BY DEF NoWorkAfterClose
        <2>1. CloseInv /\ pending \in Seq(Requests) /\ mutating \in Nat /\ CommandsCounted
            BY DEF RuntimeInv, TypeOK, CountersTypeOK, CountersExact
        <2>2. CloseIn(FromTakeCore) /\ CloseIn(FromRequest) /\ CloseIn(FromDrainOps)
            BY <2>1, Phases DEF CloseInv, CloseIn
        <2>3. nonRead = 0 /\ pc[Coordinator] = "stopped"
            BY <2>1, <2>2 DEF CloseInv
        <2>4. \A c \in Clients : pc[c] \notin {"reading", "followup"}
            BY <2>1, <2>2 DEF CloseInv
        <2>5. Exclusive = {}
            BY <2>3, CountersPositive DEF Exclusive, Holding
        <2>6. current = {}
            BY <2>3, CountersPositive
        <2>7. mutating = 0
            BY <2>1, <2>3 DEF CommandsCounted
        <2>8. pending = <<>>
            <3>1. Occupancy = 0
                BY <2>1, <2>7 DEF CommandsCounted
            <3>2. QED
                BY <2>1, <3>1 DEF Occupancy
        <2>9. QED
            BY <2>3, <2>4, <2>5, <2>6, <2>8 DEF Readers
    <1>2. QED
        BY <1>1, RuntimeInductive, PTL

\* active_read_ops, active_mutating_ops and active_non_read_ops are exact, and the
\* queue with the command in hand stays within coordinator_queue_capacity.
THEOREM CountersAreExact == Spec => []CountersExact
    <1>1. RuntimeInv => CountersExact
        BY DEF RuntimeInv
    <1>2. QED
        BY <1>1, RuntimeInductive, PTL

\* submit_core_write and enqueue_secondary_index_read_followup: every waiting
\* client has exactly one command and every pending key exactly one followup.
THEOREM RepliesAreExact == Spec => []OneReplyPerSubmit
    <1>1. RuntimeInv => OneReplyPerSubmit
        BY DEF RuntimeInv
    <1>2. QED
        BY <1>1, RuntimeInductive, PTL

\* lifecycle_cv: whoever sleeps waits for something that is still to come.
THEOREM NoMissedWakeup == Spec => []SleepersHaveAReason
    <1>1. RuntimeInv => SleepersHaveAReason
        BY DEF RuntimeInv
    <1>2. QED
        BY <1>1, RuntimeInductive, PTL
=============================================================================
