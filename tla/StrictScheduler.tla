--------------------------- MODULE StrictScheduler ---------------------------
(***************************************************************************)
(* The invariant that makes preemption work when printf does not block:    *)
(* the timing thread handles a tick without being interleaved with the     *)
(* scheduler thread, so SIGUSR1 reaches a running job only while the tick  *)
(* that sent it is still to be consumed.                                   *)
(***************************************************************************)
EXTENDS Scheduler

\* A tick is handled at the priority of the running task, never below 99.
TickRunsAlone == tpc \notin {"none", "epoll"} => prio = SchedulerPriority

\* What process_tick sampled still holds when it sends the signal.
SampleIsFresh == tpc = "preempt" => state = "WAITING" /\ timing_arrived

\* A signal that outlives its tick is not delivered to a job: as long as it is
\* pending, SIGUSR1 is blocked and enable_timing_preempt keeps it blocked.
StaleSignalBlocked ==
    SIGUSR1 \in sigpending /\ ~timing_arrived =>
        prev_set = {SIGUSR1} /\ (sigmask = {SIGUSR1} \/ state # "WAITING")

\* The tick being handled, or not consumed yet, is that of the current table.
TickIsDue ==
    timing_arrived \/ tpc = "arrive" =>
        <<current_table_id, CurrentEp(current_table_id)>> \in due

Yielding == spc \in {"handler", "back", "back_unmask", "loop"}
Picking == spc \in {"pick", "elapse"}
NoCurrent == spc \in {"none", "boot", "idle", "idle_unmask", "wait", "asleep"}

\* Where a job that lost the core is on its way back to the queue.
ReturnsToQueue(t) ==
    /\ Yielding /\ ~timing_arrived => ~Begun(t) /\ task_state[t] # "RUNNING"
    /\ Yielding /\ Begun(t) => task_state[t] = "RUNNING"
    /\ spc = "enqueue" /\ Begun(t) => in_ready_queue[t] \/ task_state[t] = "RUNNING"
    /\ Picking => task_state[t] # "RUNNING" /\ (Begun(t) => in_ready_queue[t])

TaskStates ==
    /\ \A t \in Tasks : in_ready_queue[t] => task_state[t] = "READY"
    /\ state = "WAITING" => task_state[current_task] = "RUNNING"
    /\ spc \in {"switch", "entry"} => task_state[current_task] = "READY"
    /\ spc = "switch" \/ OnTask => ~in_ready_queue[current_task]
    /\ NoCurrent => current_task = NoTask
    /\ current_task \in Tasks => ReturnsToQueue(current_task)

StrictInv ==
    /\ TickRunsAlone
    /\ SampleIsFresh
    /\ StaleSignalBlocked
    /\ TickIsDue
    /\ TaskStates
    /\ PreemptedByTick
    /\ NoJobLost
    /\ OneRunning

=============================================================================
