------------------------ MODULE StrictSchedulerProofs ------------------------
(***************************************************************************)
(* Preemption when printf does not block, for every set of tasks, number   *)
(* of tables, expiry points and priorities: no job is lost, one task at    *)
(* most is RUNNING, and a tick is enqueued at most once.                   *)
(***************************************************************************)
EXTENDS StrictScheduler, SchedulerProofs

USE DEF SIGUSR1, MaxPriority, SchedulerPriority

Inv == ~StdoutMayBlock /\ TypeInv /\ QueueInv /\ StrictInv

\* Every step is one of these; the lemmas below treat them group by group.
ExpireStep == \E tbl \in TableIds : Expire(tbl)
LEMMA StepCases ==
    ASSUME [Next]_vars
    PROVE  MainStep \/ ExpireStep \/ TimingStep \/ LoopStep \/ TaskStep \/ UNCHANGED vars
BY DEF Next, SchedulerStep, Exited, ExpireStep

-----------------------------------------------------------------------------
(* The timing thread is not interleaved with the scheduler thread.         *)

LEMMA TimingIsIdle ==
    ASSUME ~StdoutMayBlock, TypeInv, TickRunsAlone, OnCpu
    PROVE  tpc \in {"none", "epoll"}
BY StdoutAssumption DEF OnCpu, TimingBlocked, TickRunsAlone

LEMMA LoopOnCpu == LoopStep \/ TaskStep => OnCpu
<1>1. LoopStep => OnCpu
  BY DEF LoopStep, Boot, Suspend, Resumed, NoTick, ConsumeTick, EnqueueNext,
     EnqueueCurrent, PickNone, PickNext, SwitchTo, SwitchToReturned, SwitchToStale,
     BackLower, BackUnmask, IdleLower, IdleUnmask, LowerPriority, RestoreMask,
     SchedulerRuns
<1>2. TaskStep => OnCpu
  BY DEF TaskStep, Entry, EntryUnmask, Terminate, IgnoreSignal, InterruptTask,
     HandlerSwap, LowerPriority, RestoreMask, SchedulerRuns
<1>3. QED
  BY <1>1, <1>2

\* The scheduler thread leaves the timing thread where it is.
LEMMA TimingFrame == LoopStep \/ TaskStep => UNCHANGED <<tpc, next_ep_index, current_table_id>>
<1> USE DEF schedVars, taskVars, tableVars, threadVars, timingVars, mainVars
<1>1. LoopStep => UNCHANGED <<tpc, next_ep_index, current_table_id>>
  BY DEF LoopStep, Boot, Suspend, Resumed, NoTick, ConsumeTick, EnqueueNext,
     EnqueueCurrent, PickNone, PickNext, SwitchTo, SwitchToReturned, SwitchToStale,
     BackLower, BackUnmask, IdleLower, IdleUnmask
<1>2. TaskStep => UNCHANGED <<tpc, next_ep_index, current_table_id>>
  BY DEF TaskStep, Entry, EntryUnmask, Terminate, IgnoreSignal, InterruptTask, HandlerSwap
<1>3. QED
  BY <1>1, <1>2

\* The timing thread runs at the priority of a running task, and touches nothing
\* of the tasks nor of the scheduler thread but its pending signal.
LEMMA TimingTouches ==
    TimingStep => UNCHANGED <<current_task, ready_queue, prev_set, task_state,
                              in_ready_queue, ctx, spc, prio, sigmask>>
BY DEF TimingStep, EpollWait, DispatchTick, Arrive, Resume, Preempt,
   schedVars, taskVars, tableVars, threadVars, timingVars, mainVars

\* The main thread and the kernel's timers touch neither thread once it runs.
LEMMA OutsideTouches ==
    ASSUME TypeInv, MainStep \/ ExpireStep \/ UNCHANGED vars
    PROVE  /\ UNCHANGED <<state, timing_arrived, current_task, ready_queue, prev_set,
                          task_state, in_ready_queue, ctx, current_table_id,
                          next_ep_index, prio, sigmask, sigpending, due>>
           /\ spc' = spc \/ (spc = "none" /\ spc' = "boot")
           /\ tpc' = tpc \/ tpc' = "epoll"
<1> USE DEF schedVars, taskVars, tableVars, threadVars, timingVars, mainVars
<1>1. CASE MainStep
  BY <1>1 DEF MainStep, CreateTimingThread, CreateSchedulerThread, WaitCompleteInit,
     StartTimer, TypeInv, StartupInv
<1>2. CASE ExpireStep
  BY <1>2 DEF ExpireStep, Expire
<1>3. CASE UNCHANGED vars
  BY <1>3 DEF vars
<1>4. QED
  BY <1>1, <1>2, <1>3

LEMMA TickStep == Inv /\ [Next]_vars => TickRunsAlone' /\ SampleIsFresh'
<1> SUFFICES ASSUME Inv, [Next]_vars PROVE TickRunsAlone' /\ SampleIsFresh'
  OBVIOUS
<1> USE DEF TickRunsAlone, SampleIsFresh
<1>1. CASE MainStep \/ ExpireStep \/ UNCHANGED vars
  BY <1>1, OutsideTouches DEF Inv, StrictInv
<1>2. CASE LoopStep \/ TaskStep
  BY <1>2, LoopOnCpu, TimingFrame, TimingIsIdle DEF Inv, StrictInv
<1>3. CASE TimingStep
  <2>1. TimingRuns /\ prio = SchedulerPriority /\ prio' = prio
    BY <1>3, TimingTouches DEF Inv, TimingRuns, TimingStep, EpollWait, DispatchTick,
       Arrive, Resume, Preempt
  <2>2. SampleIsFresh'
    BY <1>3 DEF TimingStep, EpollWait, DispatchTick, Arrive, Resume, Preempt, Reaction,
       NextEvent, schedVars
  <2>3. QED
    BY <2>1, <2>2
<1>4. QED
  BY <1>1, <1>2, <1>3, StepCases

\* The tick handled last, and not consumed, is on record under its own table.
LEMMA WrapAround ==
    ASSUME NEW n \in Nat \ {0}, NEW i \in 0 .. n - 1
    PROVE  (IF ((i + 1) % n) - 1 >= 0 THEN ((i + 1) % n) - 1 ELSE n - 1) = i
<1>1. CASE i + 1 < n
  <2>1. (i + 1) % n = i + 1
    BY <1>1
  <2>2. QED
    BY <2>1
<1>2. CASE i + 1 = n
  <2>1. (i + 1) % n = 0
    BY <1>2
  <2>2. QED
    BY <2>1, <1>2
<1>3. QED
  BY <1>1, <1>2

LEMMA DueStep == Inv /\ [Next]_vars => TickIsDue'
<1> SUFFICES ASSUME Inv, [Next]_vars PROVE TickIsDue'
  OBVIOUS
<1>1. CASE MainStep \/ ExpireStep \/ UNCHANGED vars
  <2>1. tpc' = "arrive" => tpc = "arrive"
    BY <1>1, OutsideTouches DEF Inv
  <2>2. QED
    BY <1>1, <2>1, OutsideTouches DEF Inv, StrictInv, TickIsDue, CurrentEp
<1>2. CASE ConsumeTick
  <2>1. tpc \in {"none", "epoll"} /\ tpc' = tpc /\ ~timing_arrived'
    BY <1>2, LoopOnCpu, TimingFrame, TimingIsIdle
       DEF Inv, StrictInv, LoopStep, ConsumeTick
  <2>2. QED
    BY <2>1 DEF TickIsDue
<1>3. CASE LoopStep /\ ~ConsumeTick
  <2>1. UNCHANGED <<timing_arrived, due>>
    BY <1>3 DEF LoopStep, Boot, Suspend, Resumed, NoTick, EnqueueNext, EnqueueCurrent,
       PickNone, PickNext, SwitchTo, SwitchToReturned, SwitchToStale, BackLower,
       BackUnmask, IdleLower, IdleUnmask, schedVars
  <2>2. QED
    BY <1>3, <2>1, TimingFrame DEF Inv, StrictInv, TickIsDue, CurrentEp
<1>4. CASE TaskStep
  <2>1. UNCHANGED <<timing_arrived, due>>
    BY <1>4 DEF TaskStep, Entry, EntryUnmask, Terminate, IgnoreSignal, InterruptTask,
       HandlerSwap, schedVars
  <2>2. QED
    BY <1>4, <2>1, TimingFrame DEF Inv, StrictInv, TickIsDue, CurrentEp
<1>5. ASSUME NEW tbl \in TableIds, DispatchTick(tbl)  PROVE TickIsDue'
  <2>1. /\ Len(Eps[tbl]) \in Nat \ {0}
        /\ next_ep_index \in [TableIds -> Nat]
        /\ next_ep_index[tbl] \in 0 .. Len(Eps[tbl]) - 1
    BY TablesAssumption DEF Inv, TypeInv, TypeOK
  <2>2. /\ current_table_id' = tbl
        /\ next_ep_index'[tbl] = (next_ep_index[tbl] + 1) % Len(Eps[tbl])
        /\ due' = due \cup {<<tbl, next_ep_index[tbl]>>}
    BY <1>5, <2>1 DEF DispatchTick, NextIndex
  <2>3. CurrentEp(tbl)' = next_ep_index[tbl]
    BY <2>1, <2>2, WrapAround DEF CurrentEp
  <2>4. QED
    BY <2>2, <2>3 DEF TickIsDue, CurrentEp
<1>6. CASE EpollWait \/ Arrive \/ Resume \/ Preempt
  <2>1. UNCHANGED <<current_table_id, next_ep_index, due>>
    BY <1>6 DEF EpollWait, Arrive, Resume, Preempt, tableVars
  <2>2. timing_arrived' \/ tpc' = "arrive" => timing_arrived \/ tpc = "arrive"
    BY <1>6 DEF EpollWait, Arrive, Resume, Preempt, Reaction, NextEvent, schedVars
  <2>3. QED
    BY <2>1, <2>2 DEF Inv, StrictInv, TickIsDue, CurrentEp
<1>7. QED
  BY <1>1, <1>2, <1>3, <1>4, <1>5, <1>6, StepCases DEF TimingStep


-----------------------------------------------------------------------------
(* A signal that outlived its tick does not reach a job.                   *)

LEMMA PendingIsMasked ==
    ASSUME TypeOK, SchedulerRuns, SIGUSR1 \in sigpending
    PROVE  sigmask = {SIGUSR1}
<1>1. SIGUSR1 \in sigmask /\ sigmask \in SUBSET {SIGUSR1}
  BY DEF SchedulerRuns, SignalReady, TypeOK
<1>2. QED
  BY <1>1

LEMMA SignalStep == Inv /\ [Next]_vars => StaleSignalBlocked'
<1> SUFFICES ASSUME Inv, [Next]_vars PROVE StaleSignalBlocked'
  OBVIOUS
<1> USE DEF StaleSignalBlocked
<1>1. CASE MainStep \/ ExpireStep \/ UNCHANGED vars
  BY <1>1, OutsideTouches DEF Inv, StrictInv
<1>2. CASE TimingStep
  <2>1. CASE Preempt
    BY <2>1 DEF Inv, StrictInv, SampleIsFresh, Preempt, schedVars
  <2>2. CASE ~Preempt
    <3>1. UNCHANGED <<sigpending, sigmask, prev_set>>
          /\ (timing_arrived => timing_arrived') /\ (state' = "WAITING" => state = "WAITING")
      BY <1>2, <2>2 DEF TimingStep, EpollWait, DispatchTick, Arrive, Resume, schedVars,
         threadVars
    <3>2. QED
      BY <3>1 DEF Inv, StrictInv
  <2>3. QED
    BY <2>1, <2>2
<1>3. CASE LoopStep
  <2>1. TypeOK /\ WaitingMeansInJob /\ StaleSignalBlocked
    BY DEF Inv, TypeInv, InJobInv, StrictInv
  <2>2. SIGUSR1 \in sigpending => sigmask = {SIGUSR1}
    <3>1. SchedulerRuns
      BY <1>3 DEF LoopStep, Boot, Suspend, Resumed, NoTick, ConsumeTick, EnqueueNext,
         EnqueueCurrent, PickNone, PickNext, SwitchTo, SwitchToReturned, SwitchToStale,
         BackLower, BackUnmask, IdleLower, IdleUnmask, LowerPriority, RestoreMask
    <3>2. QED
      BY <2>1, <3>1, PendingIsMasked
  <2>3. sigpending' = sigpending /\ state # "WAITING" /\ state' # "WAITING"
    BY <1>3, <2>1 DEF LoopStep, Boot, Suspend, Resumed, NoTick, ConsumeTick, EnqueueNext,
       EnqueueCurrent, PickNone, PickNext, SwitchTo, SwitchToReturned, SwitchToStale,
       BackLower, BackUnmask, IdleLower, IdleUnmask, LowerPriority, RestoreMask,
       schedVars, WaitingMeansInJob, OnTask
  <2>4. CASE NoTick \/ ConsumeTick
    BY <2>2, <2>3, <2>4 DEF NoTick, ConsumeTick, Disable
  <2>5. CASE ~(NoTick \/ ConsumeTick)
    <3>1. UNCHANGED <<prev_set, timing_arrived>>
      BY <1>3, <2>5 DEF LoopStep, Boot, Suspend, Resumed, EnqueueNext,
         EnqueueCurrent, PickNone, PickNext, SwitchTo, SwitchToReturned, SwitchToStale,
         BackLower, BackUnmask, IdleLower, IdleUnmask, schedVars
    <3>2. QED
      BY <2>1, <2>3, <3>1
  <2>6. QED
    BY <2>4, <2>5
<1>4. CASE TaskStep
  <2>1. TypeOK /\ StaleSignalBlocked
    BY DEF Inv, TypeInv, StrictInv
  <2>2. CASE IgnoreSignal \/ InterruptTask
    BY <2>2 DEF IgnoreSignal, InterruptTask
  <2>3. CASE Entry \/ EntryUnmask \/ HandlerSwap
    <3>1. SchedulerRuns
      BY <2>3 DEF Entry, EntryUnmask, HandlerSwap, LowerPriority, RestoreMask
    <3>2. UNCHANGED <<sigpending, prev_set, timing_arrived>>
          /\ (sigmask' = sigmask \/ sigmask' = prev_set)
      BY <2>3 DEF Entry, EntryUnmask, HandlerSwap, LowerPriority, RestoreMask, schedVars
    <3>3. QED
      BY <2>1, <3>1, <3>2, PendingIsMasked
  <2>4. CASE Terminate
    BY <2>1, <2>4, PendingIsMasked DEF Terminate, Disable
  <2>5. QED
    BY <1>4, <2>2, <2>3, <2>4 DEF TaskStep
<1>5. QED
  BY <1>1, <1>2, <1>3, <1>4, StepCases

-----------------------------------------------------------------------------
(* The states of the tasks.                                                *)

TaskInv == TaskStates /\ PreemptedByTick /\ NoJobLost /\ OneRunning

LEMMA TaskInvOutside ==
    ASSUME Inv, MainStep \/ ExpireStep \/ TimingStep \/ UNCHANGED vars
    PROVE  TaskInv'
<1> USE DEF TaskInv, TaskStates, PreemptedByTick, NoJobLost, OneRunning, ReturnsToQueue,
        Begun, Yielding, Picking, NoCurrent, OnTask
<1>1. CASE MainStep \/ ExpireStep \/ UNCHANGED vars
  BY <1>1, OutsideTouches DEF Inv, StrictInv
<1>2. CASE TimingStep
  <2>1. (timing_arrived => timing_arrived') /\ (state' = "WAITING" => state = "WAITING")
    BY <1>2 DEF TimingStep, EpollWait, DispatchTick, Arrive, Resume, Preempt, schedVars
  <2>2. QED
    BY <1>2, <2>1, TimingTouches DEF Inv, StrictInv
<1>3. QED
  BY <1>1, <1>2


LEMMA TaskInvTask ==
    ASSUME Inv, TaskStep
    PROVE  TaskInv'
<1> USE DEF TaskInv, TaskStates, PreemptedByTick, NoJobLost, OneRunning, ReturnsToQueue,
        Begun, Yielding, Picking, NoCurrent, OnTask
<1>1. TaskInv /\ TypeOK /\ InJobInv /\ StaleSignalBlocked
  BY DEF Inv, StrictInv, TypeInv
<1>2. CASE Entry
  <2>1. current_task \in Tasks
    BY <1>1, <1>2 DEF Entry, LowerPriority, InJobInv, Selected
  <2>2. QED
    BY <1>1, <1>2, <2>1 DEF Entry, LowerPriority, TypeOK
<1>3. CASE EntryUnmask
  BY <1>1, <1>3 DEF EntryUnmask, RestoreMask, schedVars, taskVars
<1>4. CASE Terminate
  <2>1. current_task \in Tasks
    BY <1>1, <1>4 DEF Terminate, InJobInv, Selected
  <2>2. QED
    BY <1>1, <1>4, <2>1 DEF Terminate, Disable, TypeOK
<1>5. CASE IgnoreSignal
  BY <1>1, <1>5 DEF IgnoreSignal, schedVars, taskVars
<1>6. CASE InterruptTask
  <2>1. current_task \in Tasks /\ spc \in {"unmask", "pfunc"}
    BY <1>1, <1>6 DEF InterruptTask, Interruptible, SignalReady, InJobInv,
       WaitingMeansInJob, Selected
  <2>2. timing_arrived
    BY <1>1, <1>6 DEF InterruptTask, Interruptible, SignalReady, StaleSignalBlocked
  <2>3. task_state[current_task] = "RUNNING"
    BY <1>1, <1>6 DEF InterruptTask, Interruptible
  <2>4. QED
    BY <1>1, <1>6, <2>1, <2>2, <2>3 DEF InterruptTask, TypeOK
<1>7. CASE HandlerSwap
  BY <1>1, <1>7 DEF HandlerSwap, taskVars
<1>8. QED
  BY <1>2, <1>3, <1>4, <1>5, <1>6, <1>7 DEF TaskStep

\* task_enqueue_check leaves its task in the queue, or stops the process because
\* it was there.
LEMMA EnqueueCheckQueues ==
    ASSUME TypeOK, NEW t \in Tasks, EnqueueCheck(t)
    PROVE  in_ready_queue' = [in_ready_queue EXCEPT ![t] = TRUE]
BY DEF TypeOK, EnqueueCheck

LEMMA TaskInvLoop ==
    ASSUME Inv, LoopStep
    PROVE  TaskInv'
<1> USE DEF TaskInv, TaskStates, PreemptedByTick, NoJobLost, OneRunning, ReturnsToQueue,
        Begun, Yielding, Picking, NoCurrent, OnTask
<1>1. TaskInv /\ TypeOK /\ InJobInv /\ QueueConsistent /\ NoTask \notin Tasks
  BY TasksAssumption DEF Inv, StrictInv, TypeInv, QueueInv
<1>2. CASE Boot \/ Suspend \/ Resumed \/ NoTick \/ ConsumeTick
  BY <1>1, <1>2 DEF Boot, Suspend, Resumed, NoTick, ConsumeTick, Disable, schedVars,
     taskVars
<1>3. CASE BackLower \/ BackUnmask \/ IdleLower \/ IdleUnmask
  BY <1>1, <1>3 DEF BackLower, BackUnmask, IdleLower, IdleUnmask, LowerPriority,
     RestoreMask, schedVars, taskVars
<1>4. CASE EnqueueNext
  <2>1. Head(todo) \in Tasks
    BY <1>1, <1>4 DEF EnqueueNext, TypeOK
  <2>2. in_ready_queue' = [in_ready_queue EXCEPT ![Head(todo)] = TRUE]
    BY <1>1, <1>4, <2>1, EnqueueCheckQueues DEF EnqueueNext
  <2>3. /\ task_state' = [task_state EXCEPT ![Head(todo)] = "READY"]
        /\ task_state \in [Tasks -> {"INIT", "SUSPENDED", "READY", "RUNNING"}]
        /\ in_ready_queue \in [Tasks -> BOOLEAN]
        /\ UNCHANGED <<state, timing_arrived, current_task, ctx, spc>>
        /\ spc = "enqueue" /\ state # "WAITING"
    BY <1>1, <1>4 DEF EnqueueNext, TypeOK, InJobInv, WaitingMeansInJob
  <2>4. QED
    BY <1>1, <2>1, <2>2, <2>3
<1>5. CASE EnqueueCurrent
  <2>1. CASE Interrupted
    <3>1. current_task \in Tasks
      BY <1>1, <2>1 DEF Interrupted, TypeOK
    <3>2. in_ready_queue' = [in_ready_queue EXCEPT ![current_task] = TRUE]
      BY <1>1, <1>5, <2>1, <3>1, EnqueueCheckQueues DEF EnqueueCurrent
    <3>3. /\ task_state' = [task_state EXCEPT ![current_task] = "READY"]
          /\ task_state \in [Tasks -> {"INIT", "SUSPENDED", "READY", "RUNNING"}]
          /\ in_ready_queue \in [Tasks -> BOOLEAN]
          /\ UNCHANGED <<state, timing_arrived, current_task, ctx>>
          /\ spc' = "elapse" /\ state # "WAITING"
      BY <1>1, <1>5, <2>1 DEF EnqueueCurrent, TypeOK, InJobInv, WaitingMeansInJob
    <3>4. QED
      BY <1>1, <3>1, <3>2, <3>3
  <2>2. CASE ~Interrupted
    BY <1>1, <1>5, <2>2 DEF EnqueueCurrent, Interrupted
  <2>3. QED
    BY <2>1, <2>2
<1>6. CASE PickNone
  <2>1. \A t \in Tasks : ~in_ready_queue[t]
    BY <1>1, <1>6 DEF PickNone, QueueConsistent, Members
  <2>2. QED
    BY <1>1, <1>6, <2>1 DEF PickNone, taskVars, InJobInv, WaitingMeansInJob
<1>7. CASE PickNext
  <2>1. Head(ready_queue) \in Tasks /\ Head(ready_queue) \in Members(ready_queue)
    BY <1>1, <1>7 DEF PickNext, TypeOK, Members
  <2>2. in_ready_queue[Head(ready_queue)]
    BY <1>1, <2>1 DEF QueueConsistent
  <2>3. QED
    BY <1>1, <1>7, <2>1, <2>2 DEF PickNext, TypeOK, InJobInv, WaitingMeansInJob
<1>8. CASE SwitchTo
  BY <1>1, <1>8 DEF SwitchTo, schedVars, taskVars, InJobInv, WaitingMeansInJob
<1>9. CASE SwitchToReturned \/ SwitchToStale
  <2>1. current_task \in Tasks /\ state # "WAITING"
    BY <1>1, <1>9 DEF SwitchToReturned, SwitchToStale, InJobInv, Selected,
       WaitingMeansInJob
  <2>2. QED
    BY <1>1, <1>9, <2>1 DEF SwitchToReturned, SwitchToStale, schedVars, taskVars, TypeOK
<1>10. QED
  BY <1>2, <1>3, <1>4, <1>5, <1>6, <1>7, <1>8, <1>9 DEF LoopStep

-----------------------------------------------------------------------------

LEMMA StrictInit == Init => StrictInv
BY DEF Init, StrictInv, TickRunsAlone, SampleIsFresh, StaleSignalBlocked, TickIsDue,
   TaskStates, ReturnsToQueue, Yielding, Picking, NoCurrent, OnTask, PreemptedByTick,
   NoJobLost, OneRunning, Begun

LEMMA InvStep == Inv /\ [Next]_vars => Inv'
<1> SUFFICES ASSUME Inv, [Next]_vars PROVE Inv'
  OBVIOUS
<1>1. TypeInv' /\ QueueInv'
  BY TypeStep, QueueStep DEF Inv
<1>2. TaskInv'
  BY StepCases, TaskInvOutside, TaskInvLoop, TaskInvTask
<1>3. StrictInv'
  BY <1>2, TickStep, SignalStep, DueStep DEF StrictInv, TaskInv
<1>4. QED
  BY <1>1, <1>3 DEF Inv

LEMMA StrictSafety == ~StdoutMayBlock /\ Spec => []Inv
<1>1. ~StdoutMayBlock /\ Init => Inv
  BY TypeInit, QueueInit, StrictInit DEF Inv
<1>2. QED
  BY <1>1, InvStep, PTL DEF Spec

\* When printf does not block, a job that has begun and is not complete is on
\* the core or in the ready queue.
THEOREM NoJobIsLost == ~StdoutMayBlock /\ Spec => []NoJobLost
<1>1. Inv => NoJobLost
  BY DEF Inv, StrictInv
<1>2. QED
  BY <1>1, StrictSafety, PTL

\* When printf does not block, a job loses the core only to a tick that is
\* still to be consumed.
THEOREM TickPreempts == ~StdoutMayBlock /\ Spec => []PreemptedByTick
<1>1. Inv => PreemptedByTick
  BY DEF Inv, StrictInv
<1>2. QED
  BY <1>1, StrictSafety, PTL

\* When printf does not block, no task but the current one is RUNNING.
THEOREM OneTaskRuns == ~StdoutMayBlock /\ Spec => []OneRunning
<1>1. Inv => OneRunning
  BY DEF Inv, StrictInv
<1>2. QED
  BY <1>1, StrictSafety, PTL

\* When printf does not block, the protocol of a tick and its signal holds: what
\* process_tick sampled is still true when it signals, and a signal whose tick has
\* been consumed stays blocked.
THEOREM ProtocolHolds == ~StdoutMayBlock /\ Spec => []StrictInv
<1>1. Inv => StrictInv
  BY DEF Inv
<1>2. QED
  BY <1>1, StrictSafety, PTL

LEMMA EnqueueIsDue ==
    ASSUME Inv, [Next]_vars, spc = "loop", spc' = "enqueue"
    PROVE  <<current_table_id, CurrentEp(current_table_id)>> \in due
<1>1. ConsumeTick
  <2>1. ~TaskStep /\ ~TimingStep
    BY TimingTouches DEF TaskStep, Entry, EntryUnmask, Terminate, IgnoreSignal,
       InterruptTask, HandlerSwap, LowerPriority, RestoreMask
  <2>2. LoopStep
    BY <2>1, StepCases, OutsideTouches DEF Inv
  <2>3. QED
    BY <2>2 DEF LoopStep, Boot, Suspend, Resumed, NoTick, EnqueueNext, EnqueueCurrent,
       PickNone, PickNext, SwitchTo, SwitchToReturned, SwitchToStale, BackLower,
       BackUnmask, IdleLower, IdleUnmask, LowerPriority, RestoreMask
<1>2. QED
  BY <1>1 DEF ConsumeTick, Inv, StrictInv, TickIsDue

\* When printf does not block, the tasks of an expiry point are enqueued only if
\* its tick is still due: once per tick at most.
THEOREM TickEnqueuedOnce == ~StdoutMayBlock /\ Spec => EnqueuedOncePerTick
<1>1. Inv /\ [Next]_vars =>
        [spc = "loop" /\ spc' = "enqueue" =>
            <<current_table_id, CurrentEp(current_table_id)>> \in due]_vars
  BY EnqueueIsDue
<1>2. QED
  BY <1>1, StrictSafety, PTL DEF Spec, EnqueuedOncePerTick

-----------------------------------------------------------------------------
(* The refinement of OsekTasks.                                            *)

\* What the refinement mapping makes of one task.
OnCore(t) == t = current_task /\ spc \in {"switch", "entry", "unmask", "pfunc"}
StatusOf(t) == IF in_ready_queue[t] THEN "READY"
               ELSE IF Begun(t) \/ OnCore(t) THEN "RUNNING" ELSE "SUSPENDED"

LEMMA StatusIs == TaskStatus = [t \in Tasks |-> StatusOf(t)]
BY DEF TaskStatus, StatusOf, OnCore

\* A step that leaves the queue, the contexts and who is on the core stutters.
LEMMA StatusFrame ==
    ASSUME UNCHANGED in_ready_queue,
           \A t \in Tasks : Begun(t)' \/ OnCore(t)' <=> Begun(t) \/ OnCore(t)
    PROVE  TaskStatus' = TaskStatus
<1>1. \A t \in Tasks : StatusOf(t)' = StatusOf(t)
  BY DEF StatusOf
<1>2. QED
  BY <1>1 DEF TaskStatus, StatusOf, OnCore

\* A step that changes the status of one task is a step of OsekTasks if that
\* change is one of its transitions.
LEMMA StatusStep ==
    ASSUME NEW t \in Tasks, \A u \in Tasks \ {t} : StatusOf(u)' = StatusOf(u),
           \/ StatusOf(t)' = StatusOf(t)
           \/ StatusOf(t) = "SUSPENDED" /\ StatusOf(t)' = "READY"
           \/ StatusOf(t) = "RUNNING" /\ StatusOf(t)' \in {"READY", "SUSPENDED"}
           \/ /\ StatusOf(t) = "READY" /\ StatusOf(t)' = "RUNNING"
              /\ \A u \in Tasks : StatusOf(u) # "RUNNING"
              /\ \A u \in Tasks : StatusOf(u) = "READY" => Priority[t] <= Priority[u]
    PROVE  Osek!Next \/ TaskStatus' = TaskStatus
<1>1. /\ TaskStatus = [u \in Tasks |-> StatusOf(u)]
      /\ TaskStatus' = [u \in Tasks |-> StatusOf(u)']
  BY DEF TaskStatus, StatusOf, OnCore
<1>2. TaskStatus' = [TaskStatus EXCEPT ![t] = StatusOf(t)']
  BY <1>1
<1>3. \A u \in Tasks : TaskStatus[u] = StatusOf(u)
  BY <1>1
<1>4. QED
  BY <1>1, <1>2, <1>3 DEF Osek!Next, Osek!Activate, Osek!Dispatch, Osek!Preempt,
     Osek!Terminate


RefinesStep == Osek!Next \/ TaskStatus' = TaskStatus

LEMMA RefinesOutside ==
    ASSUME Inv, MainStep \/ ExpireStep \/ TimingStep \/ UNCHANGED vars
    PROVE  RefinesStep
<1>1. UNCHANGED <<in_ready_queue, ctx, current_task>>
      /\ (spc' = spc \/ (spc = "none" /\ spc' = "boot"))
  BY OutsideTouches, TimingTouches DEF Inv
<1>2. QED
  BY <1>1, StatusFrame DEF RefinesStep, Begun, OnCore

LEMMA RefinesTask ==
    ASSUME Inv, TaskStep
    PROVE  RefinesStep
<1>1. TaskStates /\ TypeOK /\ InJobInv
  BY DEF Inv, StrictInv, TypeInv
<1>2. CASE Entry \/ EntryUnmask \/ IgnoreSignal \/ HandlerSwap
  <2>1. /\ UNCHANGED <<in_ready_queue, ctx, current_task>>
        /\ \/ spc' = spc
           \/ spc \in {"entry", "unmask"} /\ spc' \in {"unmask", "pfunc"}
           \/ spc = "handler" /\ spc' = "back"
    BY <1>2 DEF Entry, EntryUnmask, IgnoreSignal, HandlerSwap, LowerPriority,
       RestoreMask, schedVars, taskVars
  <2>2. QED
    BY <2>1, StatusFrame DEF RefinesStep, Begun, OnCore
<1>3. CASE InterruptTask
  <2>1. current_task \in Tasks /\ spc \in {"unmask", "pfunc"}
    BY <1>1, <1>3 DEF InterruptTask, Interruptible, SignalReady, InJobInv,
       WaitingMeansInJob, Selected, OnTask
  <2>2. /\ UNCHANGED <<in_ready_queue, current_task>>
        /\ ctx' = [ctx EXCEPT ![current_task] = spc] /\ spc' = "handler"
        /\ DOMAIN ctx = Tasks
    BY <1>1, <1>3 DEF InterruptTask, TypeOK
  <2>3. QED
    BY <2>1, <2>2, StatusFrame DEF RefinesStep, Begun, OnCore
<1>4. CASE Terminate
  <2>1. PICK t \in Tasks : t = current_task
    BY <1>1, <1>4 DEF Terminate, InJobInv, Selected, OnTask
  <2>2. /\ ~in_ready_queue[t] /\ UNCHANGED <<in_ready_queue, current_task>>
        /\ ctx' = [ctx EXCEPT ![t] = "term"]
        /\ spc = "pfunc" /\ spc' = "back" /\ DOMAIN ctx = Tasks
    BY <1>1, <1>4, <2>1 DEF Terminate, TypeOK, TaskStates, OnTask
  <2>3. StatusOf(t) = "RUNNING" /\ StatusOf(t)' = "SUSPENDED"
    BY <2>1, <2>2 DEF StatusOf, Begun, OnCore
  <2>4. \A u \in Tasks \ {t} : StatusOf(u)' = StatusOf(u)
    BY <2>1, <2>2 DEF StatusOf, Begun, OnCore
  <2>5. QED
    BY <2>3, <2>4, StatusStep DEF RefinesStep
<1>5. QED
  BY <1>2, <1>3, <1>4 DEF TaskStep

\* task_enqueue_check activates a task, preempts the current one, or does neither.
LEMMA EnqueueRefines ==
    ASSUME TypeOK, NEW t \in Tasks, EnqueueCheck(t), UNCHANGED <<ctx, current_task>>,
           spc = "enqueue", spc' \in {"enqueue", "elapse"}
    PROVE  RefinesStep
<1>1. in_ready_queue' = [in_ready_queue EXCEPT ![t] = TRUE] /\ DOMAIN in_ready_queue = Tasks
  BY EnqueueCheckQueues DEF TypeOK
<1>2. StatusOf(t)' = "READY" /\ StatusOf(t) \in {"READY", "RUNNING", "SUSPENDED"}
  BY <1>1 DEF StatusOf
<1>3. \A u \in Tasks \ {t} : StatusOf(u)' = StatusOf(u)
  BY <1>1 DEF StatusOf, Begun, OnCore
<1>4. QED
  BY <1>2, <1>3, StatusStep DEF RefinesStep

LEMMA RefinesLoop ==
    ASSUME Inv, LoopStep
    PROVE  RefinesStep
<1>1. TaskStates /\ NoJobLost /\ TypeOK /\ InJobInv /\ QueueConsistent
  BY DEF Inv, StrictInv, TypeInv, QueueInv
<1>2. CASE Boot
  <2>1. \A t \in Tasks : t # current_task
    BY <1>1, <1>2, TasksAssumption DEF Boot, TaskStates, NoCurrent
  <2>2. \A t \in Tasks : Begun(t) => in_ready_queue[t]
    BY <1>1, <2>1 DEF NoJobLost
  <2>3. UNCHANGED <<in_ready_queue, current_task>> /\ ctx' = [t \in Tasks |-> "entry"]
    BY <1>2 DEF Boot, schedVars
  <2>4. \A t \in Tasks : StatusOf(t)' = StatusOf(t)
    BY <2>1, <2>2, <2>3 DEF StatusOf, OnCore, Begun
  <2>5. QED
    BY <2>4 DEF RefinesStep, TaskStatus, StatusOf, OnCore
<1>3. CASE \/ Suspend \/ Resumed \/ NoTick \/ ConsumeTick \/ SwitchTo
           \/ BackLower \/ BackUnmask \/ IdleLower \/ IdleUnmask
  <2>1. UNCHANGED <<in_ready_queue, ctx, current_task>>
    BY <1>3 DEF Suspend, Resumed, NoTick, ConsumeTick, SwitchTo, BackLower, BackUnmask,
       IdleLower, IdleUnmask, schedVars, taskVars
  <2>2. \/ spc \notin {"switch", "entry", "unmask", "pfunc"}
           /\ spc' \notin {"switch", "entry", "unmask", "pfunc"}
        \/ spc = "switch" /\ spc' \in {"entry", "unmask", "pfunc"}
    BY <1>3 DEF Suspend, Resumed, NoTick, ConsumeTick, SwitchTo, BackLower, BackUnmask,
       IdleLower, IdleUnmask, LowerPriority, RestoreMask
  <2>3. QED
    BY <2>1, <2>2, StatusFrame DEF RefinesStep, Begun, OnCore
<1>4. CASE EnqueueNext
  <2>1. Head(todo) \in Tasks
    BY <1>1, <1>4 DEF EnqueueNext, TypeOK
  <2>2. QED
    BY <1>1, <1>4, <2>1, EnqueueRefines DEF EnqueueNext
<1>5. CASE EnqueueCurrent
  <2>1. CASE Interrupted
    <3>1. current_task \in Tasks
      BY <1>1, <2>1 DEF Interrupted, TypeOK
    <3>2. QED
      BY <1>1, <1>5, <2>1, <3>1, EnqueueRefines DEF EnqueueCurrent
  <2>2. CASE ~Interrupted
    BY <1>5, <2>2, StatusFrame DEF EnqueueCurrent, RefinesStep, Begun, OnCore
  <2>3. QED
    BY <2>1, <2>2
<1>6. CASE PickNone
  BY <1>6, StatusFrame DEF PickNone, taskVars, RefinesStep, Begun, OnCore
<1>7. CASE PickNext
  <2>1. PICK head \in Tasks : head = Head(ready_queue)
    BY <1>1, <1>7 DEF PickNext, TypeOK
  <2>2. /\ head = ready_queue[1]
        /\ Members(ready_queue) = {ready_queue[i] : i \in 1 .. Len(ready_queue)}
        /\ Len(ready_queue) \in Nat \ {0}
        /\ \A i \in 1 .. Len(ready_queue) : ready_queue[i] \in Tasks
    BY <1>1, <1>7, <2>1 DEF PickNext, TypeOK, Members
  <2>3. \A u \in Tasks : in_ready_queue[u] => Priority[head] <= Priority[u]
    <3>1. SUFFICES ASSUME NEW u \in Tasks, in_ready_queue[u]
                   PROVE  Priority[head] <= Priority[u]
      OBVIOUS
    <3>2. PICK i \in 1 .. Len(ready_queue) : u = ready_queue[i]
      BY <1>1, <2>2, <3>1 DEF QueueConsistent
    <3>3. 1 \in 1 .. Len(ready_queue) /\ (i = 1 \/ 1 < i)
      BY <2>2, <3>2
    <3>4. u = head \/ ~Before(u, head)
      BY <1>1, <2>2, <3>2, <3>3 DEF QueueConsistent, Sorted
    <3>5. Priority[u] \in Int /\ Priority[head] \in Int
      BY <2>1, PriorityAssumption
    <3>6. QED
      BY <3>4, <3>5 DEF Before
  <2>4. in_ready_queue[head]
    BY <1>1, <2>2 DEF QueueConsistent
  <2>5. \A u \in Tasks : Begun(u) => in_ready_queue[u]
    BY <1>1, <1>7 DEF PickNext, NoJobLost, TaskStates, ReturnsToQueue, Picking
  <2>6. /\ current_task' = head /\ spc' = "switch" /\ UNCHANGED ctx
        /\ in_ready_queue' = [in_ready_queue EXCEPT ![head] = FALSE]
        /\ DOMAIN in_ready_queue = Tasks /\ spc \in {"pick", "elapse"}
    BY <1>1, <1>7, <2>1 DEF PickNext, TypeOK, taskVars
  <2>7. \A u \in Tasks : StatusOf(u) = IF in_ready_queue[u] THEN "READY" ELSE "SUSPENDED"
    BY <2>5, <2>6 DEF StatusOf, OnCore
  <2>8. StatusOf(head)' = "RUNNING"
    BY <2>1, <2>6 DEF StatusOf, OnCore
  <2>9. \A u \in Tasks \ {head} : StatusOf(u)' = StatusOf(u)
    BY <2>5, <2>6, <2>7 DEF StatusOf, OnCore, Begun
  <2>10. QED
    BY <2>2, <2>3, <2>4, <2>7, <2>8, <2>9, StatusStep DEF RefinesStep
<1>8. CASE SwitchToReturned \/ SwitchToStale
  <2>1. PICK t \in Tasks : t = current_task
    BY <1>1, <1>8 DEF SwitchToReturned, SwitchToStale, InJobInv, Selected
  <2>2. ~in_ready_queue[t] /\ ctx[t] \in {"term", "returned"}
    BY <1>1, <1>8, <2>1 DEF SwitchToReturned, SwitchToStale, TaskStates
  <2>3. /\ UNCHANGED <<in_ready_queue, current_task>> /\ DOMAIN ctx = Tasks
        /\ spc = "switch" /\ spc' = "back"
        /\ ctx' = [ctx EXCEPT ![t] = "returned"] \/ ctx' = ctx
    BY <1>1, <1>8, <2>1 DEF SwitchToReturned, SwitchToStale, schedVars, taskVars, TypeOK
  <2>4. StatusOf(t) = "RUNNING" /\ StatusOf(t)' = "SUSPENDED"
    BY <2>1, <2>2, <2>3 DEF StatusOf, Begun, OnCore
  <2>5. \A u \in Tasks \ {t} : StatusOf(u)' = StatusOf(u)
    BY <2>1, <2>2, <2>3 DEF StatusOf, Begun, OnCore
  <2>6. QED
    BY <2>4, <2>5, StatusStep DEF RefinesStep
<1>9. QED
  BY <1>2, <1>3, <1>4, <1>5, <1>6, <1>7, <1>8 DEF LoopStep

LEMMA RefinesInit == Init => Osek!Init
BY DEF Init, Osek!Init, TaskStatus, Begun

\* When printf does not block, the scheduler implements the task states of
\* AUTOSAR OS: every step is a transition of OsekTasks, with its guard, or none.
THEOREM RefinesOsekTasks == ~StdoutMayBlock /\ Spec => ImplementsOsekTasks
<1>1. Inv /\ [Next]_vars => [Osek!Next]_TaskStatus
  BY StepCases, RefinesOutside, RefinesTask, RefinesLoop DEF RefinesStep
<1>2. QED
  BY <1>1, RefinesInit, StrictSafety, PTL DEF Spec, ImplementsOsekTasks, Osek!Spec

=============================================================================
