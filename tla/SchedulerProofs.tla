--------------------------- MODULE SchedulerProofs ---------------------------
(***************************************************************************)
(* Safety of Scheduler for every set of tasks, number of tables, expiry    *)
(* points and priorities, and whether or not printf blocks.                *)
(***************************************************************************)
EXTENDS Scheduler, ReadyQueueProofs

USE DEF SIGUSR1, MaxPriority, SchedulerPriority

-----------------------------------------------------------------------------
(* Type correctness.                                                       *)

\* The scheduler thread does nothing before it is created, and the loop of
\* table_scheduler_start stays within the tables.
StartupInv ==
    /\ mpc \in {"create_timing", "create_scheduler"} => spc = "none"
    /\ mpc # "join" => started < NumTables

\* Type correctness needs to know where SIGUSR1 can interrupt the thread: the
\* handler saves the context of a running job, never one of the scheduler, and
\* is not interrupted itself.
Selected == spc = "switch" \/ OnTask
InJobInv ==
    /\ WaitingMeansInJob
    /\ Selected => current_task \in Tasks
    /\ spc = "handler" => sigmask = {SIGUSR1}

TypeInv == TypeOK /\ StartupInv /\ InJobInv

LEMMA NextIndexInRange ==
    ASSUME NEW n \in Nat \ {0}, NEW i \in Nat
    PROVE  (i + 1) % n \in 0 .. n - 1
OBVIOUS

LEMMA TypeInit == Init => TypeInv
<1> SUFFICES ASSUME Init PROVE TypeInv
  OBVIOUS
<1>1. NumTables \in Nat \ {0} /\ \A tbl \in TableIds : Len(Eps[tbl]) \in Nat \ {0}
  BY TablesAssumption
<1>2. next_ep_index \in [TableIds -> Nat]
      /\ \A tbl \in TableIds : next_ep_index[tbl] < Len(Eps[tbl])
  BY <1>1 DEF Init
<1>3. ready_queue \in Seq(Tasks) /\ todo \in Seq(Tasks) /\ started \in 0 .. NumTables
  BY <1>1 DEF Init
<1>4. in_ready_queue \in [Tasks -> BOOLEAN]
  BY DEF Init
<1>5. TypeOK
  BY <1>1, <1>2, <1>3, <1>4 DEF Init, TypeOK
<1>6. StartupInv /\ InJobInv
  BY <1>1 DEF Init, StartupInv, InJobInv, WaitingMeansInJob, Selected, OnTask
<1>7. QED
  BY <1>5, <1>6 DEF TypeInv

LEMMA TypeMain == TypeInv /\ MainStep => TypeInv'
<1> SUFFICES ASSUME TypeInv, MainStep PROVE TypeInv'
  OBVIOUS
<1> USE DEF TypeInv, TypeOK, StartupInv, InJobInv, WaitingMeansInJob, Selected, OnTask,
        schedVars, taskVars, tableVars, threadVars, timingVars, mainVars
<1>1. CASE CreateTimingThread
  BY <1>1 DEF CreateTimingThread
<1>2. CASE CreateSchedulerThread
  BY <1>2 DEF CreateSchedulerThread
<1>3. CASE WaitCompleteInit
  BY <1>3 DEF WaitCompleteInit
<1>4. CASE StartTimer
  <2>1. NumTables \in Nat /\ started \in 0 .. NumTables /\ started < NumTables
    BY <1>4, TablesAssumption DEF StartTimer
  <2>2. started \in TableIds /\ started' \in 0 .. NumTables
    BY <1>4, <2>1 DEF StartTimer, TableIds
  <2>3. mpc' # "join" => started' < NumTables
    BY <1>4, <2>1 DEF StartTimer
  <2>4. QED
    BY <1>4, <2>2, <2>3 DEF StartTimer
<1>5. QED
  BY <1>1, <1>2, <1>3, <1>4 DEF MainStep

LEMMA TypeTiming ==
    ASSUME TypeInv, TimingStep \/ (\E tbl \in TableIds : Expire(tbl))
    PROVE  TypeInv'
<1> USE DEF TypeInv, TypeOK, StartupInv, InJobInv, WaitingMeansInJob, Selected, OnTask,
        schedVars, taskVars, tableVars, threadVars, timingVars, mainVars, NextEvent
<1>1. CASE EpollWait
  BY <1>1 DEF EpollWait, Expired
<1>2. ASSUME NEW tbl \in TableIds, DispatchTick(tbl)  PROVE TypeInv'
  <2>1. Len(Eps[tbl]) \in Nat \ {0}
    BY TablesAssumption
  <2>2. NextIndex(tbl) \in 0 .. Len(Eps[tbl]) - 1
    BY <2>1, NextIndexInRange DEF NextIndex
  <2> HIDE DEF NextIndex
  <2>3. next_ep_index' \in [TableIds -> Nat]
    BY <1>2, <2>1, <2>2 DEF DispatchTick
  <2>4. \A u \in TableIds : next_ep_index'[u] < Len(Eps[u])
    BY <1>2, <2>1, <2>2 DEF DispatchTick
  <2>5. due' \in SUBSET (TableIds \X Nat)
    BY <1>2 DEF DispatchTick
  <2>6. QED
    BY <1>2, <2>3, <2>4, <2>5 DEF DispatchTick
<1>3. CASE Arrive
  BY <1>3 DEF Arrive, Reaction
<1>4. CASE Resume
  BY <1>4 DEF Resume
<1>5. CASE Preempt
  BY <1>5 DEF Preempt
<1>6. ASSUME NEW tbl \in TableIds, Expire(tbl)  PROVE TypeInv'
  BY <1>6 DEF Expire
<1>7. QED
  BY <1>1, <1>2, <1>3, <1>4, <1>5, <1>6 DEF TimingStep

LEMMA TypeTask == TypeInv /\ TaskStep => TypeInv'
<1> SUFFICES ASSUME TypeInv, TaskStep PROVE TypeInv'
  OBVIOUS
<1> USE DEF TypeInv, TypeOK, StartupInv, InJobInv, WaitingMeansInJob, Selected, OnTask,
        schedVars, taskVars, tableVars, threadVars, timingVars, mainVars
<1>1. CASE Entry
  BY <1>1, TasksAssumption DEF Entry, LowerPriority
<1>2. CASE EntryUnmask
  BY <1>2 DEF EntryUnmask, RestoreMask
<1>3. CASE Terminate
  BY <1>3 DEF Terminate, Disable
<1>4. CASE IgnoreSignal
  BY <1>4 DEF IgnoreSignal
<1>5. CASE InterruptTask
  BY <1>5 DEF InterruptTask, Interruptible, SignalReady
<1>6. CASE HandlerSwap
  BY <1>6 DEF HandlerSwap
<1>7. QED
  BY <1>1, <1>2, <1>3, <1>4, <1>5, <1>6 DEF TaskStep

LEMMA TypeLoop ==
    ASSUME TypeInv, LoopStep
    PROVE  TypeInv'
<1> USE DEF TypeInv, TypeOK, StartupInv, InJobInv, WaitingMeansInJob, Selected, OnTask,
        schedVars, taskVars, tableVars, threadVars, timingVars, mainVars
<1>1. CASE Boot
  BY <1>1 DEF Boot
<1>2. CASE Suspend
  BY <1>2 DEF Suspend
<1>3. CASE Resumed
  BY <1>3 DEF Resumed
<1>4. CASE NoTick
  BY <1>4 DEF NoTick, Disable
<1>5. CASE ConsumeTick
  <2>1. /\ current_table_id \in TableIds
        /\ Eps[current_table_id] \in Seq(Seq(Tasks))
        /\ Len(Eps[current_table_id]) \in Nat \ {0}
        /\ next_ep_index[current_table_id] \in 0 .. Len(Eps[current_table_id]) - 1
    BY TablesAssumption
  <2>2. CurrentEp(current_table_id) + 1 \in 1 .. Len(Eps[current_table_id])
    BY <2>1 DEF CurrentEp
  <2>3. Eps[current_table_id][CurrentEp(current_table_id) + 1] \in Seq(Tasks)
    BY <2>1, <2>2
  <2>4. todo' \in Seq(Tasks)
    BY <1>5, <2>3 DEF ConsumeTick
  <2>5. QED
    BY <1>5, <2>4 DEF ConsumeTick, Disable
<1>6. CASE EnqueueNext
  <2>1. Head(todo) \in Tasks /\ Tail(todo) \in Seq(Tasks)
    BY <1>6 DEF EnqueueNext
  <2>2. Enqueued(ready_queue, Head(todo)) \in Seq(Tasks)
    BY <2>1, EnqueuedMembers
  <2>3. /\ ready_queue' \in Seq(Tasks)
        /\ in_ready_queue' \in [Tasks -> BOOLEAN]
        /\ exited' \in BOOLEAN
    BY <1>6, <2>1, <2>2 DEF EnqueueNext, EnqueueCheck
  <2>4. task_state' \in [Tasks -> {"INIT", "SUSPENDED", "READY", "RUNNING"}]
    BY <1>6, <2>1 DEF EnqueueNext
  <2>5. QED
    BY <1>6, <2>1, <2>3, <2>4 DEF EnqueueNext
<1>7. CASE EnqueueCurrent
  <2>1. CASE Interrupted
    <3>1. current_task \in Tasks
      BY <2>1 DEF Interrupted
    <3>2. Enqueued(ready_queue, current_task) \in Seq(Tasks)
      BY <3>1, EnqueuedMembers
    <3>3. /\ ready_queue' \in Seq(Tasks)
          /\ in_ready_queue' \in [Tasks -> BOOLEAN]
          /\ exited' \in BOOLEAN
      BY <1>7, <2>1, <3>1, <3>2 DEF EnqueueCurrent, EnqueueCheck
    <3>4. task_state' \in [Tasks -> {"INIT", "SUSPENDED", "READY", "RUNNING"}]
      BY <1>7, <2>1, <3>1 DEF EnqueueCurrent
    <3>5. QED
      BY <1>7, <3>3, <3>4 DEF EnqueueCurrent
  <2>2. CASE ~Interrupted
    BY <1>7, <2>2 DEF EnqueueCurrent
  <2>3. QED
    BY <2>1, <2>2
<1>8. CASE PickNone
  BY <1>8 DEF PickNone
<1>9. CASE PickNext
  <2>1. Head(ready_queue) \in Tasks /\ Tail(ready_queue) \in Seq(Tasks)
    BY <1>9 DEF PickNext
  <2>2. QED
    BY <1>9, <2>1 DEF PickNext
<1>10. CASE SwitchTo
  BY <1>10 DEF SwitchTo
<1>11. CASE SwitchToReturned
  BY <1>11 DEF SwitchToReturned
<1>12. CASE SwitchToStale
  BY <1>12 DEF SwitchToStale
<1>13. CASE BackLower
  BY <1>13 DEF BackLower, LowerPriority
<1>14. CASE IdleLower
  BY <1>14 DEF IdleLower, LowerPriority
<1>15. CASE BackUnmask
  BY <1>15 DEF BackUnmask, RestoreMask
<1>16. CASE IdleUnmask
  BY <1>16 DEF IdleUnmask, RestoreMask
<1>17. QED
  BY <1>1, <1>2, <1>3, <1>4, <1>5, <1>6, <1>7, <1>8, <1>9, <1>10, <1>11, <1>12,
     <1>13, <1>14, <1>15, <1>16 DEF LoopStep

LEMMA TypeStep == TypeInv /\ [Next]_vars => TypeInv'
<1> SUFFICES ASSUME TypeInv, [Next]_vars PROVE TypeInv'
  OBVIOUS
<1>1. CASE MainStep
  BY <1>1, TypeMain
<1>2. CASE TimingStep \/ (\E tbl \in TableIds : Expire(tbl))
  BY <1>2, TypeTiming
<1>3. CASE SchedulerStep
  BY <1>3, TypeLoop, TypeTask DEF SchedulerStep
<1>4. CASE UNCHANGED vars
  BY <1>4 DEF vars, TypeInv, TypeOK, StartupInv, InJobInv, WaitingMeansInJob, Selected,
     OnTask, schedVars, taskVars, tableVars, threadVars, timingVars, mainVars
<1>5. QED
  BY <1>1, <1>2, <1>3, <1>4 DEF Next, Exited

\* The scheduler's variables have their types in every reachable state: among
\* them next_ep_index, which indexes eps_array, and the tasks that are queued.
THEOREM TypeCorrect == Spec => []TypeOK
<1>1. TypeInv => TypeOK
  BY DEF TypeInv
<1>2. QED
  BY <1>1, TypeInit, TypeStep, PTL DEF Spec

\* interrupt_task saves the interrupted context in current_task->ctx only while
\* the thread is inside the job of that task.
THEOREM WaitingOnlyInJob == Spec => []WaitingMeansInJob
<1>1. TypeInv => WaitingMeansInJob
  BY DEF TypeInv, InJobInv
<1>2. QED
  BY <1>1, TypeInit, TypeStep, PTL DEF Spec

-----------------------------------------------------------------------------
(* The ready queue, and the urgency of the task that runs.                 *)

\* RunsMostUrgent holds from the selection of the task on.
UrgentInv ==
    Selected => \A i \in 1 .. Len(ready_queue) : ~Before(ready_queue[i], current_task)

QueueInv == QueueConsistent /\ UrgentInv

\* The queue belongs to the scheduling loop: no other step links or unlinks a task.
QueueSteps == EnqueueNext \/ EnqueueCurrent \/ PickNext
LEMMA QueueFrame ==
    ASSUME [Next]_vars, ~QueueSteps
    PROVE  UNCHANGED <<ready_queue, in_ready_queue>>
<1> USE DEF schedVars, taskVars, tableVars, threadVars, timingVars, mainVars, vars
<1>1. CASE MainStep
  BY <1>1 DEF MainStep, CreateTimingThread, CreateSchedulerThread, WaitCompleteInit,
     StartTimer
<1>2. CASE TimingStep \/ (\E tbl \in TableIds : Expire(tbl))
  BY <1>2 DEF TimingStep, EpollWait, DispatchTick, Arrive, Resume, Preempt, Expire
<1>3. CASE TaskStep
  BY <1>3 DEF TaskStep, Entry, EntryUnmask, Terminate, IgnoreSignal, InterruptTask,
     HandlerSwap, Disable, LowerPriority, RestoreMask
<1>4. CASE LoopStep
  BY <1>4 DEF QueueSteps, LoopStep, Boot, Suspend, Resumed, NoTick, ConsumeTick, PickNone,
     SwitchTo, SwitchToReturned, SwitchToStale, BackLower, BackUnmask, IdleLower,
     IdleUnmask, Disable, LowerPriority, RestoreMask
<1>5. CASE UNCHANGED vars
  BY <1>5
<1>6. QED
  BY <1>1, <1>2, <1>3, <1>4, <1>5 DEF Next, SchedulerStep, Exited

\* A selected task stays the current one while its job has the core.
LEMMA SelectedFrame ==
    ASSUME TypeInv, [Next]_vars, ~PickNext, Selected'
    PROVE  Selected /\ UNCHANGED current_task
<1> USE DEF schedVars, taskVars, tableVars, threadVars, timingVars, mainVars, vars,
            Selected, OnTask
<1>1. CASE MainStep
  BY <1>1 DEF MainStep, CreateTimingThread, CreateSchedulerThread, WaitCompleteInit,
     StartTimer
<1>2. CASE TimingStep \/ (\E tbl \in TableIds : Expire(tbl))
  BY <1>2 DEF TimingStep, EpollWait, DispatchTick, Arrive, Resume, Preempt, Expire
<1>3. CASE TaskStep
  BY <1>3 DEF TaskStep, Entry, EntryUnmask, Terminate, IgnoreSignal, InterruptTask,
     HandlerSwap, Disable, LowerPriority, RestoreMask, TypeInv, InJobInv,
     WaitingMeansInJob, Interruptible
<1>4. CASE LoopStep
  BY <1>4 DEF LoopStep, Boot, Suspend, Resumed, NoTick, ConsumeTick, EnqueueNext,
     EnqueueCurrent, PickNone, SwitchTo, SwitchToReturned, SwitchToStale, BackLower,
     BackUnmask, IdleLower, IdleUnmask, Disable, LowerPriority, RestoreMask
<1>5. CASE UNCHANGED vars
  BY <1>5
<1>6. QED
  BY <1>1, <1>2, <1>3, <1>4, <1>5 DEF Next, SchedulerStep, Exited

\* task_enqueue_check keeps the queue consistent, whichever task it is given.
LEMMA EnqueueCheckConsistent ==
    ASSUME TypeInv, QueueConsistent, NEW t \in Tasks, EnqueueCheck(t)
    PROVE  QueueConsistent'
<1> USE DEF TypeInv, TypeOK
<1>1. CASE in_ready_queue[t]
  BY <1>1 DEF EnqueueCheck, QueueConsistent
<1>2. CASE ~in_ready_queue[t]
  <2>1. t \notin Members(ready_queue)
    BY <1>2 DEF QueueConsistent
  <2>2. /\ ready_queue' = Enqueued(ready_queue, t)
        /\ in_ready_queue' = [in_ready_queue EXCEPT ![t] = TRUE]
    BY <1>2 DEF EnqueueCheck
  <2>3. Sorted(ready_queue') /\ LinkedOnce(ready_queue')
    BY <2>1, <2>2, EnqueuedSorted, EnqueuedLinkedOnce DEF QueueConsistent
  <2>4. Members(ready_queue') = Members(ready_queue) \cup {t}
    BY <2>2, EnqueuedMembers
  <2>5. \A u \in Tasks : in_ready_queue'[u] <=> u \in Members(ready_queue')
    BY <2>2, <2>4 DEF QueueConsistent
  <2>6. QED
    BY <2>3, <2>5 DEF QueueConsistent
<1>3. QED
  BY <1>1, <1>2

LEMMA QueueInit == Init => QueueInv
BY DEF Init, QueueInv, QueueConsistent, UrgentInv, Selected, OnTask, Sorted, LinkedOnce,
   Members

LEMMA QueueStep == TypeInv /\ QueueInv /\ [Next]_vars => QueueInv'
<1> SUFFICES ASSUME TypeInv, QueueInv, [Next]_vars PROVE QueueInv'
  OBVIOUS
<1>1. CASE EnqueueNext
  <2>1. Head(todo) \in Tasks
    BY <1>1 DEF EnqueueNext, TypeInv, TypeOK
  <2>2. QueueConsistent'
    BY <1>1, <2>1, EnqueueCheckConsistent DEF EnqueueNext, QueueInv
  <2>3. ~Selected'
    BY <1>1 DEF EnqueueNext, Selected, OnTask
  <2>4. QED
    BY <2>2, <2>3 DEF QueueInv, UrgentInv
<1>2. CASE EnqueueCurrent
  <2>1. QueueConsistent'
    <3>1. CASE Interrupted
      BY <1>2, <3>1, EnqueueCheckConsistent
         DEF EnqueueCurrent, Interrupted, QueueInv, TypeInv, TypeOK
    <3>2. CASE ~Interrupted
      BY <1>2, <3>2 DEF EnqueueCurrent, QueueInv, QueueConsistent
    <3>3. QED
      BY <3>1, <3>2
  <2>2. ~Selected'
    BY <1>2 DEF EnqueueCurrent, Selected, OnTask
  <2>3. QED
    BY <2>1, <2>2 DEF QueueInv, UrgentInv
<1>3. CASE PickNext
  <2>1. /\ ready_queue \in Seq(Tasks) /\ ready_queue # <<>>
        /\ in_ready_queue \in [Tasks -> BOOLEAN]
        /\ Sorted(ready_queue) /\ LinkedOnce(ready_queue)
        /\ \A t \in Tasks : in_ready_queue[t] <=> t \in Members(ready_queue)
    BY <1>3 DEF PickNext, TypeInv, TypeOK, QueueInv, QueueConsistent
  <2>2. /\ ready_queue' = Tail(ready_queue) /\ current_task' = Head(ready_queue)
        /\ in_ready_queue' = [in_ready_queue EXCEPT ![Head(ready_queue)] = FALSE]
    BY <1>3 DEF PickNext
  <2>3. /\ Head(ready_queue) \in Tasks
        /\ Sorted(Tail(ready_queue)) /\ LinkedOnce(Tail(ready_queue))
        /\ Members(Tail(ready_queue)) = Members(ready_queue) \ {Head(ready_queue)}
        /\ \A i \in 1 .. Len(Tail(ready_queue)) :
                ~Before(Tail(ready_queue)[i], Head(ready_queue))
    BY <2>1, DequeuedQueue
  <2>4. \A t \in Tasks : in_ready_queue'[t] <=> t \in Members(ready_queue')
    BY <2>1, <2>2, <2>3
  <2>5. QED
    BY <2>2, <2>3, <2>4 DEF QueueInv, QueueConsistent, UrgentInv
<1>4. CASE ~QueueSteps
  <2>1. UNCHANGED <<ready_queue, in_ready_queue>>
    BY <1>4, QueueFrame
  <2>2. Selected' => Selected /\ UNCHANGED current_task
    BY <1>4, SelectedFrame DEF QueueSteps
  <2>3. QED
    BY <2>1, <2>2 DEF QueueInv, QueueConsistent, UrgentInv
<1>5. QED
  BY <1>1, <1>2, <1>3, <1>4 DEF QueueSteps

\* The ready queue is always ordered by urgency, holds no task twice, and
\* in_ready_queue tells its members.
THEOREM QueueAlwaysConsistent == Spec => []QueueConsistent
<1>1. QueueInv => QueueConsistent
  BY DEF QueueInv
<1>2. QED
  BY <1>1, TypeInit, TypeStep, QueueInit, QueueStep, PTL DEF Spec

\* No queued task is more urgent than the task that has the core.
THEOREM MostUrgentRuns == Spec => []RunsMostUrgent
<1>1. QueueInv => RunsMostUrgent
  BY DEF QueueInv, UrgentInv, RunsMostUrgent, Selected
<1>2. QED
  BY <1>1, TypeInit, TypeStep, QueueInit, QueueStep, PTL DEF Spec

=============================================================================
