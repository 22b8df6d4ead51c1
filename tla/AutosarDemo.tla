----------------------------- MODULE AutosarDemo -----------------------------
(***************************************************************************)
(* AUTOSARdemo.c: main creates tasks and starts the first one; a task      *)
(* works until it calls os_delay; SysTick may interrupt any two steps.     *)
(*                                                                         *)
(* A flow of control is main or a task.  switch_context belongs to         *)
(* startup.s, which the repository lacks; it is modelled after the sample  *)
(* in the comment of lines 138-154: the flow that runs, whatever it is, is *)
(* saved in the slot of currentTask, schedule is called, and the slot of   *)
(* currentTask, now perhaps another, is loaded.  A PSP that is stored      *)
(* stands for the flow whose stack it points into.                         *)
(***************************************************************************)
EXTENDS Integers, Sequences

CONSTANTS
    RequestSets,    \* sequences of the arguments main gives to task_create
    MaxTasks,       \* MAX_TASKS
    ResetSlice,     \* 10, the slice of a task that is switched to
    Delays,         \* arguments of os_delay
    BootTicks       \* bound: ticks that come before main has left

LowestPriority == 255      \* 0xFF, where the search for a candidate starts

\* The arguments of task_create, and a task control block but for stackPtr.
\* Nothing gives a task one of the other two states.
TaskRequest == [priority : 0 .. LowestPriority, timeSlice : Nat]
Task == [state : {"READY", "BLOCKED"}, priority : 0 .. LowestPriority, timeSlice : Nat]

ASSUME ConstantsAssumption ==
    /\ MaxTasks \in Nat \ {0}
    /\ ResetSlice \in Nat \ {0}
    /\ Delays \subseteq Nat
    /\ BootTicks \in Nat
    /\ RequestSets \subseteq Seq(TaskRequest)

Tasks == 0 .. MaxTasks - 1
Main == MaxTasks
Flows == Tasks \cup {Main}
Fault == MaxTasks + 1      \* what was loaded is not the context of a flow

MainLabels == {"create", "fill", "stack", "count"}
SwitchLabels == {"choose", "assign", "reset", "load"}
Labels == MainLabels \cup SwitchLabels \cup {"save", "work", "ticks", "spin"}

\* What a stack pointer that was saved leads to: a flow, where it goes on, and
\* whether it went on since, so that what was saved is below its stack pointer.
Context == [flow : Flows \cup {Fault}, label : Labels, popped : BOOLEAN]
Stale == [flow |-> Fault, label |-> "work", popped |-> FALSE]

VARIABLES
    requests,       \* the calls of task_create in main
    request,        \* the next of them
    taskPool,
    stackPtr,       \* the field of that name, by task
    taskCount,
    currentTask,
    running,        \* the flow that has the core, or Fault
    pc,
    candidate,      \* the local variable of schedule, by flow
    scheduled,      \* main has called schedule itself
    bootTicks       \* ticks since systick_init, while main runs

vars == <<requests, request, taskPool, stackPtr, taskCount, currentTask, running, pc,
          candidate, scheduled, bootTicks>>

createVars == <<requests, request, taskCount>>
scheduleVars == <<currentTask, candidate, scheduled>>
coreVars == <<stackPtr, running>>

Init ==
    /\ requests \in RequestSets
    /\ request = 1
    /\ taskPool = [t \in Tasks |-> [state |-> "READY", priority |-> 0, timeSlice |-> 0]]
    /\ stackPtr = [t \in Tasks |-> Stale]
    /\ taskCount = 0
    /\ currentTask = 0
    /\ running = Main
    /\ pc = [f \in Flows |-> IF f = Main THEN "create" ELSE "work"]
    /\ candidate = [f \in Flows |-> 0]
    /\ scheduled = FALSE
    /\ bootTicks = 0

At(f, label) == running = f /\ pc[f] = label
Goto(f, label) == pc' = [pc EXCEPT ![f] = label]

-----------------------------------------------------------------------------
(* schedule: the first of the READY tasks with the smallest priority, or   *)
(* the current task.                                                       *)

Schedulable ==
    {t \in Tasks : /\ t < taskCount
                   /\ taskPool[t].state = "READY"
                   /\ taskPool[t].priority < LowestPriority}

\* mutant: the comparison is turned round
LessUrgentOrLater(t, u) ==
    \/ taskPool[t].priority > taskPool[u].priority
    \/ taskPool[t].priority = taskPool[u].priority /\ t <= u
NotAfter(t, u) ==
    \/ taskPool[t].priority < taskPool[u].priority
    \/ taskPool[t].priority = taskPool[u].priority /\ t <= u

Chosen ==
    IF Schedulable = {} THEN currentTask
    ELSE CHOOSE t \in Schedulable : \A u \in Schedulable : NotAfter(t, u)

-----------------------------------------------------------------------------
(* Saved contexts.                                                         *)

\* After its own call a task works on, and main is at its last loop.
After(f) == IF f = Main THEN "spin" ELSE "work"

\* What f may save.  Nothing here sets PSP for main: it is main's stack pointer if
\* startup.s made it so, and else leads nowhere.
Contexts(f, label) ==
    {[flow |-> g, label |-> label, popped |-> FALSE] :
        g \in IF f = Main THEN {Main, Fault} ELSE {f}}

\* The slots once the flow that runs saved its context in that of currentTask, over
\* what was popped of it before.
Saved(context) ==
    [t \in Tasks |->
        IF t = currentTask THEN context
        ELSE IF stackPtr[t].popped /\ stackPtr[t].flow = context.flow
        THEN [stackPtr[t] EXCEPT !.label = context.label]
        ELSE stackPtr[t]]

\* A context when a flow goes on at label.  In its switch_context, all that the flow
\* saved is popped, though perhaps still intact, but for what it saved at the call.
\* Elsewhere nothing of it is left.
Left(flow, label, context) ==
    IF context.flow # flow THEN context
    ELSE IF label \notin SwitchLabels THEN Stale
    ELSE [context EXCEPT !.popped = @ \/ context.label # After(flow)]

\* The end of switch_context, which loads the slot of t.
Resume(t, saved) ==
    LET label == saved[t].label
    IN  \E flow \in {saved[t].flow} \cup IF saved[t].popped THEN {Fault} ELSE {} :
            /\ running' = flow
            /\ stackPtr' = [u \in Tasks |-> Left(flow, label, saved[u])]
            /\ pc' = [f \in Flows |-> IF f = flow THEN label ELSE pc[f]]

-----------------------------------------------------------------------------
(* main                                                                    *)

\* task_create returns false: the pool is full, or malloc failed.  main
\* ignores the result.
CreateFails ==
    /\ At(Main, "create") /\ request <= Len(requests)
    /\ request' = request + 1
    /\ UNCHANGED <<requests, taskCount, taskPool, scheduleVars, coreVars, pc, bootTicks>>

CreateUnbounded ==      \* mutant
    /\ At(Main, "create") /\ request <= Len(requests)
    /\ Goto(Main, "fill")
    /\ UNCHANGED <<createVars, taskPool, scheduleVars, coreVars, bootTicks>>
Create ==
    /\ At(Main, "create") /\ request <= Len(requests) /\ taskCount < MaxTasks
    /\ Goto(Main, "fill")
    /\ UNCHANGED <<createVars, taskPool, scheduleVars, coreVars, bootTicks>>

\* The stores before timeSlice can be seen by nobody: the slice is 0 until then.
Fill ==
    /\ At(Main, "fill")
    /\ taskPool' = [taskPool EXCEPT ![taskCount] =
                      [@ EXCEPT !.state = "READY", !.priority = requests[request].priority,
                                !.timeSlice = requests[request].timeSlice]]
    /\ Goto(Main, "stack")
    /\ UNCHANGED <<createVars, scheduleVars, coreVars, bootTicks>>

\* The context lets the task begin its work.
InitStack ==
    /\ At(Main, "stack")
    /\ stackPtr' = [stackPtr EXCEPT ![taskCount] =
                      [flow |-> taskCount, label |-> "work", popped |-> FALSE]]
    /\ Goto(Main, "count")
    /\ UNCHANGED <<createVars, taskPool, scheduleVars, running, bootTicks>>

CountTask ==
    /\ At(Main, "count")
    /\ taskCount' = taskCount + 1
    /\ request' = request + 1
    /\ Goto(Main, "create")
    /\ UNCHANGED <<requests, taskPool, scheduleVars, coreVars, bootTicks>>

StartScheduler ==
    /\ At(Main, "create") /\ request > Len(requests)
    /\ Goto(Main, "choose")
    /\ UNCHANGED <<createVars, taskPool, scheduleVars, coreVars, bootTicks>>

-----------------------------------------------------------------------------
(* os_delay, which uses currentTask anew in each statement.                *)

Block(f) ==
    /\ At(f, "work")
    /\ taskPool' = [taskPool EXCEPT ![currentTask].state = "BLOCKED"]
    /\ Goto(f, "ticks")
    /\ UNCHANGED <<createVars, scheduleVars, coreVars, bootTicks>>

SetTicks(f) ==
    /\ At(f, "ticks")
    /\ \E ticks \in Delays :
        taskPool' = [taskPool EXCEPT ![currentTask].timeSlice = ticks]
    /\ Goto(f, "save")
    /\ UNCHANGED <<createVars, scheduleVars, coreVars, bootTicks>>

-----------------------------------------------------------------------------
(* schedule and switch_context in the flow of main or of a task.           *)

SaveTasks(f) ==      \* mutant: main is not saved
    /\ At(f, "save")
    /\ \/ f # Main /\ \E context \in Contexts(f, After(f)) : stackPtr' = Saved(context)
       \/ f = Main /\ UNCHANGED stackPtr
    /\ Goto(f, "choose")
    /\ UNCHANGED <<createVars, taskPool, scheduleVars, running, bootTicks>>
\* The slot is that of currentTask: for main, that of the task schedule just chose,
\* whose first context is lost.
Save(f) ==
    /\ At(f, "save")
    /\ \E context \in Contexts(f, After(f)) : stackPtr' = Saved(context)
    /\ Goto(f, "choose")
    /\ UNCHANGED <<createVars, taskPool, scheduleVars, running, bootTicks>>

Choose(f) ==
    /\ At(f, "choose")
    /\ candidate' = [candidate EXCEPT ![f] = Chosen]
    /\ Goto(f, "assign")
    /\ UNCHANGED <<createVars, taskPool, currentTask, scheduled, coreVars, bootTicks>>

ReturnSaves(f) == Goto(f, "save")      \* mutant: the flow is saved after schedule
\* main calls schedule once by itself and once more in its switch_context.
Return(f) == Goto(f, IF f = Main /\ ~scheduled THEN "save" ELSE "load")
Scheduled(f) == scheduled' = (scheduled \/ f = Main)

AssignNothing(f) ==
    /\ At(f, "assign") /\ candidate[f] = currentTask
    /\ Return(f) /\ Scheduled(f)
    /\ UNCHANGED <<createVars, taskPool, currentTask, candidate, coreVars, bootTicks>>

Assign(f) ==
    /\ At(f, "assign") /\ candidate[f] # currentTask
    /\ currentTask' = candidate[f]
    /\ Goto(f, "reset")
    /\ UNCHANGED <<createVars, taskPool, candidate, scheduled, coreVars, bootTicks>>

Reset(f) ==
    /\ At(f, "reset")
    /\ taskPool' = [taskPool EXCEPT ![currentTask].timeSlice = ResetSlice]
    /\ Return(f) /\ Scheduled(f)
    /\ UNCHANGED <<createVars, currentTask, candidate, coreVars, bootTicks>>

SwitchStays(f) ==      \* mutant
    /\ At(f, "load")
    /\ Goto(f, After(f))
    /\ UNCHANGED <<createVars, taskPool, scheduleVars, coreVars, bootTicks>>
Switch(f) ==
    /\ At(f, "load")
    /\ Resume(currentTask, stackPtr)
    /\ UNCHANGED <<createVars, taskPool, scheduleVars, bootTicks>>

-----------------------------------------------------------------------------
(* SysTick_Handler, which nothing interrupts.                              *)

Booting == running = Main /\ pc[Main] # "spin"

ChargeReadies ==     \* mutant: a task is not delayed once its ticks are counted
    /\ taskPool[currentTask].timeSlice > 1
    /\ taskPool' = [taskPool EXCEPT ![currentTask] =
                      [@ EXCEPT !.timeSlice = @ - 1, !.state = "READY"]]
    /\ UNCHANGED <<currentTask, coreVars, pc>>
\* The slice goes on.
Charge ==
    /\ taskPool[currentTask].timeSlice > 1
    /\ taskPool' = [taskPool EXCEPT ![currentTask].timeSlice = @ - 1]
    /\ UNCHANGED <<currentTask, coreVars, pc>>

\* It ends, and switch_context is called in the handler: the flow that runs, which
\* need not be that of currentTask, is saved in the slot of currentTask.
Expire ==
    /\ taskPool[currentTask].timeSlice = 1
    /\ currentTask' = Chosen
    /\ taskPool' = [t \in Tasks |->
          IF t = Chosen /\ t # currentTask
          THEN [taskPool[t] EXCEPT !.timeSlice = ResetSlice]
          ELSE IF t = currentTask THEN [taskPool[t] EXCEPT !.timeSlice = 0]
          ELSE taskPool[t]]
    /\ \E context \in Contexts(running, pc[running]) : Resume(Chosen, Saved(context))

SysTick ==
    /\ running # Fault
    /\ Booting => bootTicks < BootTicks
    /\ bootTicks' = IF Booting THEN bootTicks + 1 ELSE bootTicks
    /\ \/ /\ taskPool[currentTask].timeSlice = 0
          /\ UNCHANGED <<taskPool, currentTask, coreVars, pc>>
       \/ Charge
       \/ Expire
    /\ UNCHANGED <<createVars, candidate, scheduled>>

-----------------------------------------------------------------------------

MainStep == CreateFails \/ Create \/ Fill \/ InitStack \/ CountTask \/ StartScheduler

KernelStep(f) ==
    Save(f) \/ Choose(f) \/ AssignNothing(f) \/ Assign(f) \/ Reset(f) \/ Switch(f)

FlowStep(f) == SetTicks(f) \/ KernelStep(f)

Halted == running = Fault /\ UNCHANGED vars

Next ==
    \/ MainStep
    \/ \E f \in Flows : FlowStep(f)
    \/ \E t \in Tasks : Block(t)
    \/ SysTick
    \/ Halted

Spec == Init /\ [][Next]_vars

\* The core executes the flow it has, the timer ticks, and a task's work ends in
\* os_delay, as it does in task1 and task2.
Fairness ==
    /\ WF_vars(MainStep)
    /\ \A f \in Flows : WF_vars(FlowStep(f))
    /\ \A t \in Tasks : WF_vars(Block(t))
    /\ WF_vars(SysTick)

FairSpec == Spec /\ Fairness

-----------------------------------------------------------------------------

TypeOK ==
    /\ requests \in RequestSets
    /\ request \in 1 .. Len(requests) + 1
    /\ taskPool \in [Tasks -> Task]
    /\ stackPtr \in [Tasks -> Context]
    /\ taskCount \in 0 .. MaxTasks
    /\ currentTask \in Tasks
    /\ running \in Flows \cup {Fault}
    /\ pc \in [Flows -> Labels]
    /\ candidate \in [Flows -> Tasks]
    /\ scheduled \in BOOLEAN
    /\ bootTicks \in 0 .. BootTicks

\* No created task's slice can end before main is done.
BootFits == \A i \in DOMAIN requests : requests[i].timeSlice \notin 1 .. BootTicks

\* A task that works is the one schedule chose, which is charged for its ticks and
\* blocked by os_delay: although currentTask changes before the context does, and
\* SysTick may then save the old flow in the slot of the new task, a flow that is
\* loaded from a slot that is not its own is still in switch_context.
Working == running \in Tasks /\ pc[running] = "work"
CurrentTaskWorks == Working => running = currentTask

\* A task that works is READY and no READY task is more urgent, unless there is
\* no READY task that schedule can choose: then the last one works on.
Waiting(t) ==
    /\ t < taskCount /\ taskPool[t].state = "READY"
    /\ taskPool[t].priority < LowestPriority
MostUrgentWorks ==
    Working => \A t \in Tasks : Waiting(t) =>
        /\ taskPool[running].state = "READY"
        /\ taskPool[running].priority <= taskPool[t].priority

\* Between its search and its assignment SysTick may run schedule too, but the
\* candidate a flow then stores is still the one it would find.  main may have
\* been overtaken by tasks, if a slice ended before it was done.
CandidateFresh ==
    \A f \in Flows :
        At(f, "assign") /\ (f = Main => BootFits) => candidate[f] = Chosen

\* The slot of a task holds that task or main.  Another flow is saved there by a
\* tick between the assignment to currentTask and the load, but schedule then finds
\* the same task, the flow goes on at once, and what it left in the slot is popped.
OwnSlot ==
    running # Fault => \A t \in Tasks :
        \/ stackPtr[t].flow \in {t, Main, Fault}
        \/ /\ t = currentTask /\ stackPtr[t].flow = running
           /\ stackPtr[t].popped /\ stackPtr[t].label \in {"reset", "load"}

\* If no slice ends before main is done, no task ever has the core: main's own
\* switch_context saves main where the chosen task had its stack.
MainKeepsCore == BootFits => running \in {Main, Fault}

\* And main comes to its last loop, or loads a stack pointer that leads nowhere,
\* unless the slice of the chosen task ends in main's switch_context: then main may
\* load what the handler saved of it, again and again.
LastLoop ==
    BootFits /\ BootTicks < ResetSlice ~> (running = Fault \/ At(Main, "spin"))

\* task1: os_delay(500) blocks for 500 ms, so it ends.
DelayEnds ==
    \A t \in Tasks : taskPool[t].state = "BLOCKED" ~> taskPool[t].state # "BLOCKED"

=============================================================================
