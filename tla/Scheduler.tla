------------------------------ MODULE Scheduler ------------------------------
(***************************************************************************)
(* One scheduler of the simulator: the three threads that share a          *)
(* struct table_scheduler, and the kernel that schedules them.             *)
(*                                                                         *)
(*   main       creates the two other threads and starts the table timers  *)
(*   timing     schedule_timing_thread, SCHED_FIFO 90: waits in epoll and  *)
(*              runs process_tick for every table timer that expired       *)
(*   scheduler  scheduler_thread, SCHED_FIFO 50 or 99: enqueues the tasks  *)
(*              of an expiry point, picks the next task and runs it on the *)
(*              task's own context; SIGUSR1 brings it back from a task     *)
(*                                                                         *)
(* timing and scheduler are bound to the same CPU, so an action of one is  *)
(* enabled only when the kernel would run that thread.  A critical section *)
(* of scheduler_mutex is one action: nothing outside a critical section    *)
(* reads what it writes but the atomic state, which it writes once.        *)
(***************************************************************************)
EXTENDS ReadyQueue

CONSTANTS
    NumTables,      \* number of schedule tables of this scheduler
    Eps,            \* table id -> its expiry points, each the sequence of its tasks
    SingleShot,     \* the tasks whose entry is single_shot_task_entry
    NoTask,         \* current_task == NULL
    StdoutMayBlock  \* may printf put its thread to sleep?

TableIds == 0 .. NumTables - 1

ASSUME TablesAssumption ==
    /\ NumTables \in Nat \ {0}
    /\ DOMAIN Eps = TableIds
    /\ \A tbl \in TableIds : Eps[tbl] \in Seq(Seq(Tasks)) /\ Len(Eps[tbl]) > 0
ASSUME TasksAssumption == NoTask \notin Tasks /\ SingleShot \subseteq Tasks
ASSUME StdoutAssumption == StdoutMayBlock \in BOOLEAN

MaxPriority == 99         \* SCHEDULE_MAX_PRIORITY
SchedulerPriority == 50   \* SCHEDULER_PRIORITY, below the 90 of the timing thread

SIGUSR1 == "SIGUSR1"

VARIABLES
    \* struct scheduler
    state,             \* the atomic sched_state_t
    timing_arrived,    \* the atomic flag: a tick has not been consumed yet
    current_task,
    ready_queue,
    prev_set,          \* signal mask saved by the last disable_timing_preempt
    \* struct task_struct
    task_state,
    in_ready_queue,
    ctx,               \* where the saved context of a task resumes
    \* struct table_scheduler
    current_table_id,
    next_ep_index,
    timer,             \* the timerfd of each table
    \* the scheduler thread
    spc, prio, sigmask, sigpending,
    todo,              \* tasks the expiry point loop has still to enqueue
    \* the timing thread
    tpc,
    events,            \* tables whose event epoll_wait returned, not handled yet
    \* the main thread
    mpc, started,      \* number of table timers started
    exited,            \* the process called exit(-1), or crashed
    due                \* history: expiry points that ticked and were not enqueued

schedVars == <<state, timing_arrived, current_task, ready_queue, prev_set>>
taskVars == <<task_state, in_ready_queue, ctx>>
tableVars == <<current_table_id, next_ep_index, timer>>
threadVars == <<spc, prio, sigmask, sigpending, todo>>
timingVars == <<tpc, events>>
mainVars == <<mpc, started>>
vars == <<schedVars, taskVars, tableVars, threadVars, timingVars, mainVars,
          exited, due>>

-----------------------------------------------------------------------------
(* Initial state: create_scheduler has run up to scheduler_create_threads. *)

Init ==
    /\ state = "INIT"
    /\ timing_arrived = FALSE
    /\ current_task = NoTask
    /\ ready_queue = <<>>
    /\ prev_set = {}
    /\ task_state = [t \in Tasks |-> "INIT"]
    /\ in_ready_queue = [t \in Tasks |-> FALSE]
    /\ ctx = [t \in Tasks |-> "none"]
    /\ current_table_id \in TableIds          \* malloc: not written before a tick
    /\ next_ep_index = [tbl \in TableIds |-> 0]
    /\ timer = [tbl \in TableIds |-> "off"]
    /\ spc = "none" /\ prio = SchedulerPriority
    /\ sigmask = {} /\ sigpending = {}
    /\ todo = <<>>
    /\ tpc = "none" /\ events = {}
    /\ mpc = "create_timing" /\ started = 0
    /\ exited = FALSE
    /\ due = {}

-----------------------------------------------------------------------------
(* The CPU.  Both threads are SCHED_FIFO on one CPU: the timing thread (90)
   runs whenever it is ready, unless the scheduler thread has raised itself
   to 99.  A thread that blocks in printf leaves the CPU to the other.      *)

Expired == {tbl \in TableIds : timer[tbl] = "expired"}

\* The timing thread has nothing to do: not created, or blocked in epoll_wait.
TimingBlocked == tpc = "none" \/ (tpc = "epoll" /\ Expired = {})

\* The program points where a thread is about to print, or in the middle of it.
SchedulerPrints == spc \in {"elapse", "switch", "handler", "back"}
TimingPrints == tpc \in {"dispatch", "arrive", "resume", "preempt"}

TimingRuns ==
    /\ ~exited
    /\ prio = SchedulerPriority \/ (StdoutMayBlock /\ SchedulerPrints)

\* SIGUSR1 is pending and not blocked: its handler runs before anything else.
SignalReady == SIGUSR1 \in sigpending \ sigmask

OnCpu ==
    /\ ~exited
    /\ prio = MaxPriority \/ TimingBlocked \/ (StdoutMayBlock /\ TimingPrints)

SchedulerRuns == OnCpu /\ ~SignalReady

-----------------------------------------------------------------------------
(* The main thread, not bound to a CPU: scheduler_create_threads, then
   run_scheduler; destroy_scheduler joins threads that never end.          *)

CreateTimingThread ==
    /\ mpc = "create_timing" /\ ~exited
    /\ mpc' = "create_scheduler"
    /\ tpc' = "epoll"
    /\ UNCHANGED <<schedVars, taskVars, tableVars, threadVars, events, started,
                   exited, due>>

CreateSchedulerThread ==
    /\ mpc = "create_scheduler" /\ ~exited
    /\ mpc' = "wait_init"
    /\ spc' = "boot"
    /\ UNCHANGED <<schedVars, taskVars, tableVars, prio, sigmask, sigpending,
                   todo, timingVars, started, exited, due>>

WaitCompleteInit ==
    /\ mpc = "wait_init" /\ ~exited
    /\ state # "INIT"
    /\ mpc' = "start"
    /\ UNCHANGED <<schedVars, taskVars, tableVars, threadVars, timingVars,
                   started, exited, due>>

\* One iteration of the loop of table_scheduler_start.
StartTimer ==
    /\ mpc = "start" /\ ~exited
    /\ timer' = [timer EXCEPT ![started] = "armed"]
    /\ started' = started + 1
    /\ mpc' = IF started' = NumTables THEN "join" ELSE "start"
    /\ UNCHANGED <<schedVars, taskVars, current_table_id, next_ep_index,
                   threadVars, timingVars, exited, due>>

\* The kernel: the time a timer was set to has come.
Expire(tbl) ==
    /\ timer[tbl] = "armed" /\ ~exited
    /\ timer' = [timer EXCEPT ![tbl] = "expired"]
    /\ UNCHANGED <<schedVars, taskVars, current_table_id, next_ep_index,
                   threadVars, timingVars, mainVars, exited, due>>

-----------------------------------------------------------------------------
(* The timing thread: table_scheduler_schedule and process_tick.           *)

EpollWait ==
    /\ tpc = "epoll" /\ TimingRuns
    /\ Expired # {}
    /\ events' = Expired
    /\ tpc' = "dispatch"
    /\ UNCHANGED <<schedVars, taskVars, tableVars, threadVars, mainVars,
                   exited, due>>

\* table_scheuler_update_timer: the expiry point after this one, cyclically.
NextIndexUnwrapped(tbl) == next_ep_index[tbl] + 1    \* mutant: % num_eps missing
NextIndex(tbl) == (next_ep_index[tbl] + 1) % Len(Eps[tbl])

\* process_tick up to "process_tick begin": the table's timer is read (and so
\* disarmed) and set to the next expiry point.
DispatchTick(tbl) ==
    /\ tpc = "dispatch" /\ TimingRuns
    /\ tbl \in events
    /\ events' = events \ {tbl}
    /\ current_table_id' = tbl
    /\ next_ep_index' = [next_ep_index EXCEPT ![tbl] = NextIndex(tbl)]
    /\ timer' = [timer EXCEPT ![tbl] = "armed"]
    /\ due' = due \cup {<<tbl, next_ep_index[tbl]>>}
    /\ tpc' = "arrive"
    /\ UNCHANGED <<schedVars, taskVars, threadVars, mainVars, exited>>

NextEvent == IF events = {} THEN "epoll" ELSE "dispatch"

\* What process_tick does about the scheduler it found in state s.
ReactionPreemptOnly(s) == IF s = "WAITING" THEN "preempt" ELSE NextEvent  \* mutant
Reaction(s) == CASE s = "SUSPENDED" -> "resume"
                 [] s = "WAITING" -> "preempt"
                 [] OTHER -> NextEvent

\* The flag is set, then the scheduler's state is sampled.
Arrive ==
    /\ tpc = "arrive" /\ TimingRuns
    /\ timing_arrived' = TRUE
    /\ tpc' = Reaction(state)
    /\ UNCHANGED <<state, current_task, ready_queue, prev_set, taskVars,
                   tableVars, threadVars, events, mainVars, exited, due>>

\* resume_scheduler_thread.  A signalled thread that is not waiting on the
\* condition variable is not woken: Resumed looks at state alone.
Resume ==
    /\ tpc = "resume" /\ TimingRuns
    /\ state' = "RESUMING"
    /\ tpc' = NextEvent
    /\ UNCHANGED <<timing_arrived, current_task, ready_queue, prev_set,
                   taskVars, tableVars, threadVars, events, mainVars, exited, due>>

\* preempt_task: pthread_kill(scheduler_tid, SIGUSR1).
Preempt ==
    /\ tpc = "preempt" /\ TimingRuns
    /\ sigpending' = {SIGUSR1}
    /\ tpc' = NextEvent
    /\ UNCHANGED <<schedVars, taskVars, tableVars, spc, prio, sigmask, todo,
                   events, mainVars, exited, due>>

-----------------------------------------------------------------------------
(* The scheduler thread, on its own context.                               *)

\* disable_timing_preempt and enable_timing_preempt, the latter in two steps:
\* the thread can lose the CPU, and take SIGUSR1, as soon as its priority is
\* back to 50.
Disable ==
    /\ prio' = MaxPriority
    /\ prev_set' = sigmask
    /\ sigmask' = {SIGUSR1}

LowerPriority(from, to) ==
    /\ spc = from /\ SchedulerRuns
    /\ spc' = to
    /\ prio' = SchedulerPriority

RestoreMask(from, to) ==
    /\ spc = from /\ SchedulerRuns
    /\ spc' = to
    /\ sigmask' = prev_set

\* Start of scheduler_thread: init_task_ctx for every task.
Boot ==
    /\ spc = "boot" /\ SchedulerRuns
    /\ ctx' = [t \in Tasks |-> "entry"]
    /\ spc' = "wait"
    /\ UNCHANGED <<schedVars, task_state, in_ready_queue, tableVars, prio, sigmask,
                   sigpending, todo, timingVars, mainVars, exited, due>>

\* Mutant of Suspend: the first call leaves SCHED_INIT alone.
SuspendKeepsInit ==
    /\ spc = "wait" /\ SchedulerRuns
    /\ state' = IF state = "INIT" THEN "INIT" ELSE "SUSPENDED"
    /\ spc' = "asleep"
    /\ UNCHANGED <<timing_arrived, current_task, ready_queue, prev_set, taskVars,
                   tableVars, prio, sigmask, sigpending, todo, timingVars,
                   mainVars, exited, due>>

\* scheduler_wait_resume, up to the wait on the condition variable.
Suspend ==
    /\ spc = "wait" /\ SchedulerRuns
    /\ state' = "SUSPENDED"
    /\ spc' = "asleep"
    /\ UNCHANGED <<timing_arrived, current_task, ready_queue, prev_set, taskVars,
                   tableVars, prio, sigmask, sigpending, todo, timingVars,
                   mainVars, exited, due>>

\* scheduler_wait_resume, from the wake-up on.
Resumed ==
    /\ spc = "asleep" /\ SchedulerRuns
    /\ state = "RESUMING"
    /\ state' = "RUNNING"
    /\ spc' = "loop"
    /\ UNCHANGED <<timing_arrived, current_task, ready_queue, prev_set, taskVars,
                   tableVars, prio, sigmask, sigpending, todo, timingVars,
                   mainVars, exited, due>>

\* The expiry point behind next_ep_index.
CurrentEpIsNext(tbl) == next_ep_index[tbl]    \* mutant: off by one
CurrentEp(tbl) ==
    IF next_ep_index[tbl] - 1 >= 0 THEN next_ep_index[tbl] - 1
                                   ELSE Len(Eps[tbl]) - 1

\* Head of the scheduling loop, when no tick has arrived ...
NoTick ==
    /\ spc = "loop" /\ SchedulerRuns
    /\ ~timing_arrived
    /\ Disable
    /\ spc' = "pick"
    /\ UNCHANGED <<state, timing_arrived, current_task, ready_queue, taskVars,
                   tableVars, sigpending, todo, timingVars, mainVars, exited, due>>

\* ... and when one has: table_scheduler_tasks_enqueue begins.
ConsumeTick ==
    LET tbl == current_table_id
        ep == CurrentEp(tbl)
    IN  /\ spc = "loop" /\ SchedulerRuns
        /\ timing_arrived
        /\ Disable
        /\ timing_arrived' = FALSE
        /\ todo' = Eps[tbl][ep + 1]
        /\ due' = due \ {<<tbl, ep>>}
        /\ spc' = "enqueue"
        /\ UNCHANGED <<state, current_task, ready_queue, taskVars, tableVars,
                       sigpending, timingVars, mainVars, exited>>

\* Mutant of EnqueueCheck: the deadline check is missing.
EnqueueUnchecked(t) ==
    /\ in_ready_queue' = [in_ready_queue EXCEPT ![t] = TRUE]
    /\ ready_queue' = Enqueued(ready_queue, t)
    /\ UNCHANGED exited

\* task_enqueue_check: a task that is still queued has missed its deadline.
EnqueueCheck(t) ==
    IF in_ready_queue[t]
    THEN exited' = TRUE /\ UNCHANGED <<in_ready_queue, ready_queue>>
    ELSE /\ in_ready_queue' = [in_ready_queue EXCEPT ![t] = TRUE]
         /\ ready_queue' = Enqueued(ready_queue, t)
         /\ UNCHANGED exited

\* One iteration of the loop of table_scheduler_expiry_point_enqueue.
EnqueueNext ==
    /\ spc = "enqueue" /\ SchedulerRuns
    /\ todo # <<>>
    /\ task_state' = [task_state EXCEPT ![Head(todo)] = "READY"]
    /\ EnqueueCheck(Head(todo))
    /\ todo' = Tail(todo)
    /\ UNCHANGED <<state, timing_arrived, current_task, prev_set, ctx, tableVars,
                   spc, prio, sigmask, sigpending, timingVars, mainVars, due>>

NeverInterrupted == FALSE    \* mutant: the preempted task is not enqueued
Interrupted == current_task # NoTask /\ task_state[current_task] = "RUNNING"

\* The preempted task, if any, goes back to the queue.
EnqueueCurrent ==
    /\ spc = "enqueue" /\ SchedulerRuns
    /\ todo = <<>>
    /\ spc' = "elapse"
    /\ IF Interrupted
       THEN /\ task_state' = [task_state EXCEPT ![current_task] = "READY"]
            /\ EnqueueCheck(current_task)
       ELSE UNCHANGED <<task_state, in_ready_queue, ready_queue, exited>>
    /\ UNCHANGED <<state, timing_arrived, current_task, prev_set, ctx, tableVars,
                   prio, sigmask, sigpending, todo, timingVars, mainVars, due>>

\* pick_next_task finds the queue empty: the epoch ends.
PickNone ==
    /\ spc \in {"pick", "elapse"} /\ SchedulerRuns
    /\ ready_queue = <<>>
    /\ current_task' = NoTask
    /\ state' = "SUSPENDED"
    /\ spc' = "idle"
    /\ UNCHANGED <<timing_arrived, ready_queue, prev_set, taskVars, tableVars,
                   prio, sigmask, sigpending, todo, timingVars, mainVars, exited, due>>

PickNext ==
    /\ spc \in {"pick", "elapse"} /\ SchedulerRuns
    /\ ready_queue # <<>>
    /\ current_task' = Head(ready_queue)
    /\ ready_queue' = Tail(ready_queue)
    /\ in_ready_queue' = [in_ready_queue EXCEPT ![Head(ready_queue)] = FALSE]
    /\ spc' = "switch"
    /\ UNCHANGED <<state, timing_arrived, prev_set, task_state, ctx, tableVars,
                   prio, sigmask, sigpending, todo, timingVars, mainVars, exited, due>>

\* switch_to.  swapcontext installs the signal mask saved with the context:
\* empty for a fresh one, SIGUSR1 for one saved in terminate; a context saved
\* in the signal handler returns from it and gets the mask of the interruption.
SwitchTo ==
    /\ spc = "switch" /\ SchedulerRuns
    /\ ctx[current_task] \in {"entry", "unmask", "pfunc"}
         \/ (ctx[current_task] = "term" /\ current_task \notin SingleShot)
    /\ spc' = IF ctx[current_task] = "term" THEN "entry" ELSE ctx[current_task]
    /\ sigmask' = IF ctx[current_task] = "term" THEN {SIGUSR1} ELSE {}
    /\ UNCHANGED <<schedVars, taskVars, tableVars, prio, sigpending, todo,
                   timingVars, mainVars, exited, due>>

\* The entry function of a single-shot task that terminated returns: uc_link
\* takes the thread straight back to the scheduler, and pfunc does not run.
SwitchToReturned ==
    /\ spc = "switch" /\ SchedulerRuns
    /\ current_task \in SingleShot /\ ctx[current_task] = "term"
    /\ ctx' = [ctx EXCEPT ![current_task] = "returned"]
    /\ spc' = "back"
    /\ UNCHANGED <<schedVars, task_state, in_ready_queue, tableVars, prio, sigmask,
                   sigpending, todo, timingVars, mainVars, exited, due>>

\* The context of a function that has returned is entered once more: undefined
\* behaviour.  It crashes on the overwritten frame or returns as before.
SwitchToStale ==
    /\ spc = "switch" /\ SchedulerRuns
    /\ ctx[current_task] = "returned"
    /\ exited' \in BOOLEAN
    /\ spc' = "back"
    /\ UNCHANGED <<schedVars, taskVars, tableVars, prio, sigmask, sigpending, todo,
                   timingVars, mainVars, due>>

\* After switch_to returns: enable_timing_preempt, then the loop again.
BackLower ==
    /\ LowerPriority("back", "back_unmask")
    /\ UNCHANGED <<schedVars, taskVars, tableVars, sigmask, sigpending, todo,
                   timingVars, mainVars, exited, due>>

BackUnmask ==
    /\ RestoreMask("back_unmask", "loop")
    /\ UNCHANGED <<schedVars, taskVars, tableVars, prio, sigpending, todo,
                   timingVars, mainVars, exited, due>>

\* The end of an epoch: enable_timing_preempt, then scheduler_wait_resume.
IdleLower ==
    /\ LowerPriority("idle", "idle_unmask")
    /\ UNCHANGED <<schedVars, taskVars, tableVars, sigmask, sigpending, todo,
                   timingVars, mainVars, exited, due>>

IdleUnmask ==
    /\ RestoreMask("idle_unmask", "wait")
    /\ UNCHANGED <<schedVars, taskVars, tableVars, prio, sigpending, todo,
                   timingVars, mainVars, exited, due>>

-----------------------------------------------------------------------------
(* The scheduler thread, on the context of a task.                         *)

\* entry, up to the lowered priority.
Entry ==
    /\ LowerPriority("entry", "unmask")
    /\ state' = "WAITING"
    /\ task_state' = [task_state EXCEPT ![current_task] = "RUNNING"]
    /\ UNCHANGED <<timing_arrived, current_task, ready_queue, prev_set,
                   in_ready_queue, ctx, tableVars, sigmask, sigpending, todo,
                   timingVars, mainVars, exited, due>>

EntryUnmask ==
    /\ RestoreMask("unmask", "pfunc")
    /\ UNCHANGED <<schedVars, taskVars, tableVars, prio, sigpending, todo,
                   timingVars, mainVars, exited, due>>

\* pfunc has returned: terminate.
Terminate ==
    /\ spc = "pfunc" /\ SchedulerRuns
    /\ Disable
    /\ task_state' = [task_state EXCEPT ![current_task] = "SUSPENDED"]
    /\ state' = "RUNNING"
    /\ ctx' = [ctx EXCEPT ![current_task] = "term"]
    /\ spc' = "back"
    /\ UNCHANGED <<timing_arrived, current_task, ready_queue, in_ready_queue,
                   tableVars, sigpending, todo, timingVars, mainVars, exited, due>>

\* interrupt_task acts only on a task that runs.
AlwaysInterruptible == TRUE    \* mutant: the state is not tested
Interruptible == state = "WAITING"

\* interrupt_task, when the scheduler is not WAITING.
IgnoreSignal ==
    /\ SignalReady /\ OnCpu
    /\ ~Interruptible
    /\ sigpending' = {}
    /\ UNCHANGED <<schedVars, taskVars, tableVars, spc, prio, sigmask, todo,
                   timingVars, mainVars, exited, due>>

\* interrupt_task, up to its printf: SIGUSR1 is blocked while it is handled, so
\* that is the mask disable_timing_preempt saves.
InterruptTask ==
    /\ SignalReady /\ OnCpu
    /\ Interruptible
    /\ sigpending' = {}
    /\ prio' = MaxPriority
    /\ prev_set' = {SIGUSR1}
    /\ sigmask' = {SIGUSR1}
    /\ ctx' = [ctx EXCEPT ![current_task] = spc]
    /\ spc' = "handler"
    /\ UNCHANGED <<state, timing_arrived, current_task, ready_queue, task_state,
                   in_ready_queue, tableVars, todo, timingVars, mainVars, exited, due>>

\* Mutant of HandlerSwap: the state stays SCHED_WAITING.
HandlerKeepsWaiting ==
    /\ spc = "handler" /\ SchedulerRuns
    /\ spc' = "back"
    /\ UNCHANGED <<schedVars, taskVars, tableVars, prio, sigmask, sigpending, todo,
                   timingVars, mainVars, exited, due>>

\* interrupt_task, from its printf on: back to the context of the scheduler.
HandlerSwap ==
    /\ spc = "handler" /\ SchedulerRuns
    /\ state' = "RUNNING"
    /\ spc' = "back"
    /\ UNCHANGED <<timing_arrived, current_task, ready_queue, prev_set, taskVars,
                   tableVars, prio, sigmask, sigpending, todo, timingVars,
                   mainVars, exited, due>>

-----------------------------------------------------------------------------

MainStep ==
    CreateTimingThread \/ CreateSchedulerThread \/ WaitCompleteInit \/ StartTimer

TimingStep ==
    EpollWait \/ (\E tbl \in TableIds : DispatchTick(tbl)) \/ Arrive \/ Resume \/ Preempt

LoopStep ==
    \/ Boot \/ Suspend \/ Resumed
    \/ NoTick \/ ConsumeTick \/ EnqueueNext \/ EnqueueCurrent
    \/ PickNone \/ PickNext \/ SwitchTo \/ SwitchToReturned \/ SwitchToStale
    \/ BackLower \/ BackUnmask \/ IdleLower \/ IdleUnmask

TaskStep ==
    Entry \/ EntryUnmask \/ Terminate \/ IgnoreSignal \/ InterruptTask \/ HandlerSwap

SchedulerStep == LoopStep \/ TaskStep

\* The process is gone.
Exited == exited /\ UNCHANGED vars

Next ==
    \/ MainStep \/ TimingStep \/ SchedulerStep
    \/ (\E tbl \in TableIds : Expire(tbl))
    \/ Exited

\* The kernel does not starve a ready thread.  The timing thread is ahead of
\* the scheduler thread, but blocks in epoll_wait between two ticks, hence the
\* strong fairness; Terminate is part of it: pfunc returns.  A set timer fires.
Fairness ==
    /\ WF_vars(MainStep)
    /\ WF_vars(TimingStep)
    /\ SF_vars(SchedulerStep)
    /\ \A tbl \in TableIds : WF_vars(Expire(tbl))

Spec == Init /\ [][Next]_vars

FairSpec == Spec /\ Fairness

-----------------------------------------------------------------------------
(* Safety, whatever printf does.                                           *)

\* The thread runs on the context of current_task.
OnTask == spc \in {"entry", "unmask", "pfunc", "handler"}

TypeOK ==
    /\ state \in {"INIT", "SUSPENDED", "RESUMING", "RUNNING", "WAITING"}
    /\ timing_arrived \in BOOLEAN
    /\ current_task \in Tasks \cup {NoTask}
    /\ ready_queue \in Seq(Tasks)
    /\ prev_set \in SUBSET {SIGUSR1}
    /\ task_state \in [Tasks -> {"INIT", "SUSPENDED", "READY", "RUNNING"}]
    /\ in_ready_queue \in [Tasks -> BOOLEAN]
    /\ ctx \in [Tasks -> {"none", "entry", "unmask", "pfunc", "term", "returned"}]
    /\ current_table_id \in TableIds
    /\ next_ep_index \in [TableIds -> Nat]
    /\ \A tbl \in TableIds : next_ep_index[tbl] < Len(Eps[tbl])
    /\ timer \in [TableIds -> {"off", "armed", "expired"}]
    /\ spc \in {"none", "boot", "wait", "asleep", "loop", "enqueue", "pick", "elapse",
               "switch", "entry", "unmask", "pfunc", "handler", "back",
               "back_unmask", "idle", "idle_unmask"}
    /\ prio \in {MaxPriority, SchedulerPriority}
    /\ sigmask \in SUBSET {SIGUSR1}
    /\ sigpending \in SUBSET {SIGUSR1}
    /\ todo \in Seq(Tasks)
    /\ tpc \in {"none", "epoll", "dispatch", "arrive", "resume", "preempt"}
    /\ events \in SUBSET TableIds
    /\ mpc \in {"create_timing", "create_scheduler", "wait_init", "start", "join"}
    /\ started \in 0 .. NumTables
    /\ exited \in BOOLEAN
    /\ due \in SUBSET (TableIds \X Nat)

\* The ready queue stays ordered and no task is linked twice, although tasks
\* enter it both from an expiry point and, preempted, from the CPU;
\* in_ready_queue, which guards list_add_tail, tells exactly which are linked.
QueueConsistent ==
    /\ Sorted(ready_queue)
    /\ LinkedOnce(ready_queue)
    /\ \A t \in Tasks : in_ready_queue[t] <=> t \in Members(ready_queue)

\* SCHED_WAITING is the licence of interrupt_task to save the running context
\* in current_task->ctx: then the thread is inside the job of a task.
WaitingMeansInJob ==
    state = "WAITING" => OnTask /\ spc # "entry" /\ current_task # NoTask

\* The task that has the core is never less urgent than one of the queue.
RunsMostUrgent ==
    OnTask => \A i \in 1 .. Len(ready_queue) : ~Before(ready_queue[i], current_task)

-----------------------------------------------------------------------------
(* Safety, when printf does not block.                                     *)

\* A task loses the core only to a tick that is still to be consumed: the loop
\* puts the task back into the queue only when it finds timing_arrived set.
PreemptedByTick == spc = "handler" => timing_arrived

\* A job that has begun and is not complete is on the core or in the queue.
Begun(t) == ctx[t] \in {"unmask", "pfunc"}
NoJobLost == \A t \in Tasks : Begun(t) => in_ready_queue[t] \/ t = current_task

\* docs/designed.md: one task at most is RUNNING on a core, the one that has it.
OneRunning == \A t \in Tasks : task_state[t] = "RUNNING" => t = current_task

\* One tick enqueues the tasks of its expiry point at most once.
EnqueuedOncePerTick ==
    [][spc = "loop" /\ spc' = "enqueue" =>
            <<current_table_id, CurrentEp(current_table_id)>> \in due]_vars

\* The scheduler implements the task states of AUTOSAR OS, as docs/designed.md
\* promises them.
TaskStatus ==
    [t \in Tasks |->
        IF in_ready_queue[t] THEN "READY"
        ELSE IF Begun(t) \/ (t = current_task /\ spc \in {"switch", "entry", "unmask", "pfunc"})
             THEN "RUNNING"
             ELSE "SUSPENDED"]

Osek == INSTANCE OsekTasks WITH st <- TaskStatus

ImplementsOsekTasks == Osek!Spec

-----------------------------------------------------------------------------
(* Liveness.                                                               *)

\* create_simulator returns and every table timer is started.
StartupCompletes == <>(mpc = "join" \/ exited)

\* A tick is consumed in the end, if only when the next one wakes the thread,
\* provided the timing thread keeps finding itself without work: periods are
\* milliseconds and process_tick takes microseconds.
TickConsumed ==
    []<>TimingBlocked => (timing_arrived ~> (~timing_arrived \/ exited))

-----------------------------------------------------------------------------
(* What the documents say and the code does not do.                        *)

\* docs/designed.md: the timer wakes the scheduler at an expiry point.
NoSleepOverTick ==
    spc = "asleep" /\ timing_arrived /\ tpc = "epoll" => state = "RESUMING"

\* docs/designed.md: the tasks of every expiry point are processed, in order, and
\* when tables have an expiry point at the same time every event is handled.
EveryExpiryPointEnqueued == due # {} => timing_arrived \/ tpc = "arrive"

\* scheduler.c: a task can be preempted as long as it runs.
Preemptible ==
    spc = "pfunc" => state = "WAITING" /\ prio = SchedulerPriority /\ sigmask = {}

\* docs/designed.md: a task that is selected becomes RUNNING.
SelectedRuns == spc = "back" => task_state[current_task] # "READY" \/ Begun(current_task)

=============================================================================
