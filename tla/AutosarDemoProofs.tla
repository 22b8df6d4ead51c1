-------------------------- MODULE AutosarDemoProofs --------------------------
(***************************************************************************)
(* Safety of AutosarDemo for every sequence of created tasks, size of the  *)
(* pool, slices, delays and number of ticks.                               *)
(***************************************************************************)
EXTENDS AutosarDemo, WellFoundedInduction, TLAPS

-----------------------------------------------------------------------------
(* What schedule finds.                                                    *)

\* The result of schedule, as a condition that determines it.
IsChoice(t) ==
    IF Schedulable = {} THEN t = currentTask
    ELSE t \in Schedulable /\ \A u \in Schedulable : NotAfter(t, u)

LEMMA LeastNatural ==
    ASSUME NEW S \in SUBSET Nat, S # {}
    PROVE  \E n \in S : \A m \in S : n <= m
<1>1. PICK n \in S : \A m \in S : <<m, n>> \notin OpToRel(<, Nat)
  BY NatLessThanWellFounded, WFMin
<1>2. \A m \in S : ~(m < n)
  BY <1>1 DEF OpToRel
<1>3. QED
  BY <1>2

LEMMA TaskFacts ==
    ASSUME TypeOK
    PROVE  /\ Schedulable \subseteq Tasks /\ Tasks \subseteq Nat
           /\ \A t \in Tasks : taskPool[t].priority \in Nat
<1>1. Schedulable \subseteq Tasks
  BY DEF Schedulable
<1>2. Tasks \subseteq Nat
  BY ConstantsAssumption DEF Tasks
<1>3. ASSUME NEW t \in Tasks PROVE taskPool[t].priority \in Nat
  <2>1. taskPool[t].priority \in 0 .. LowestPriority
    BY DEF TypeOK, Task
  <2>2. QED
    BY <2>1 DEF LowestPriority
<1>4. QED
  BY <1>1, <1>2, <1>3

\* The search has a result: among the tasks of the smallest priority there is one
\* of the smallest index.
LEMMA MostUrgentExists ==
    ASSUME TypeOK, Schedulable # {}
    PROVE  \E t \in Schedulable : \A u \in Schedulable : NotAfter(t, u)
<1> DEFINE Priorities == {taskPool[t].priority : t \in Schedulable}
<1>1. /\ Schedulable \subseteq Tasks /\ Tasks \subseteq Nat
      /\ \A t \in Tasks : taskPool[t].priority \in Nat
  BY TaskFacts
<1>2. PICK p \in Priorities : \A q \in Priorities : p <= q
  <2>1. Priorities \in SUBSET Nat /\ Priorities # {}
    BY <1>1
  <2>2. QED
    BY <2>1, LeastNatural
<1> DEFINE Urgent == {t \in Schedulable : taskPool[t].priority = p}
<1>3. PICK t \in Urgent : \A u \in Urgent : t <= u
  <2>1. Urgent \in SUBSET Nat /\ Urgent # {}
    BY <1>1, <1>2
  <2>2. QED
    BY <2>1, LeastNatural
<1>4. ASSUME NEW u \in Schedulable PROVE NotAfter(t, u)
  BY <1>1, <1>2, <1>3, <1>4 DEF NotAfter
<1>5. QED
  BY <1>3, <1>4

\* It is a task, and the only one that fits.
LEMMA ChosenIsChoice ==
    ASSUME TypeOK
    PROVE  /\ Chosen \in Tasks /\ IsChoice(Chosen)
           /\ \A t \in Tasks : IsChoice(t) => t = Chosen
<1>1. Schedulable \subseteq Tasks /\ currentTask \in Tasks
  BY DEF Schedulable, TypeOK
<1>2. \A t, u \in Tasks : NotAfter(t, u) /\ NotAfter(u, t) => t = u
  BY TaskFacts DEF NotAfter
<1>3. CASE Schedulable = {}
  BY <1>1, <1>3 DEF Chosen, IsChoice
<1>4. CASE Schedulable # {}
  <2>1. Chosen \in Schedulable /\ \A u \in Schedulable : NotAfter(Chosen, u)
    BY <1>4, MostUrgentExists DEF Chosen
  <2>2. QED
    BY <1>1, <1>2, <1>4, <2>1 DEF IsChoice
<1>5. QED
  BY <1>3, <1>4

-----------------------------------------------------------------------------
(* The inductive invariant.                                                *)

\* No READY task goes before t, as long as t is READY itself.
IsBest(t) == t \in Schedulable /\ \A u \in Schedulable : NotAfter(t, u)
Kept(t) == t \in Schedulable => IsBest(t)

OfMain(t) == stackPtr[t].flow = Main
NoTask(t) == stackPtr[t].flow \in {Main, Fault}

TaskLabels == SwitchLabels \cup {"save", "work", "ticks"}
CreateLabels == MainLabels \ {"create"}

\* main has not yet assigned a candidate.
Early == ~scheduled /\ pc[Main] \in MainLabels \cup {"choose", "assign"}

\* Where the flows are, or go on if their context is loaded.
LabelInv ==
    /\ \A t \in Tasks : pc[t] \in TaskLabels
    /\ pc[Main] \notin {"work", "ticks"}
    /\ pc[Main] \in MainLabels => ~scheduled
    /\ pc[Main] \in {"save", "load", "spin"} => scheduled
    /\ pc[Main] \in CreateLabels => request <= Len(requests) /\ taskCount < MaxTasks
    /\ \A t \in Tasks :
        /\ stackPtr[t].flow \in Tasks => stackPtr[t].label \in TaskLabels
        /\ OfMain(t) =>
            /\ stackPtr[t].label \notin {"work", "ticks"}
            /\ stackPtr[t].label \in {"save", "load", "spin"} => scheduled
        /\ OfMain(t) /\ stackPtr[t].label \in MainLabels =>
              running # Main /\ stackPtr[t].label = pc[Main]

\* A task that runs is created, is the current one until it assigned another, and
\* was chosen when it began to work; a task that is READY is at its work.
TaskInv ==
    /\ \A t \in Tasks :
        /\ taskPool[t].state = "BLOCKED" => t < taskCount
        /\ taskPool[t].state = "READY" =>
              pc[t] = "work" /\ (stackPtr[t].flow = t => stackPtr[t].label = "work")
    /\ running \in Tasks =>
        /\ running < taskCount
        /\ stackPtr[running].flow # Main
        /\ pc[running] \notin {"reset", "load"} => currentTask = running
        /\ currentTask # running => currentTask \in Schedulable
        /\ pc[running] = "work" => IsChoice(running)
        /\ pc[running] \in {"assign", "reset", "load"} => IsChoice(candidate[running])
        /\ pc[running] \in {"reset", "load"} => currentTask = candidate[running]

\* Until main assigned a candidate it is saved for task 0 only, and it is loaded
\* when that is the best.  Later it may be saved for others, and never leaves the
\* core again but for good: for a task that is better than all these.
MainInv ==
    /\ Early =>
        /\ running = Main => currentTask = 0
        /\ \A t \in Tasks : OfMain(t) =>
            /\ t = 0 /\ stackPtr[t].label \in MainLabels \cup {"choose", "assign"}
            /\ running \in Tasks => stackPtr[t].label = pc[Main]
    /\ ~Early /\ running \in Tasks => \A t \in Tasks : OfMain(t) => t \notin Schedulable
    /\ pc[Main] = "assign" /\ Early => Kept(candidate[Main])
    /\ running = Main =>
        /\ pc[Main] \in MainLabels => \A t \in Tasks : ~OfMain(t)
        /\ \A t \in Tasks : OfMain(t) =>
              Kept(t) /\ (stackPtr[t].popped \/ stackPtr[t].label = "spin")
        /\ ~Early => Kept(currentTask) /\ Kept(candidate[Main])
        /\ scheduled /\ pc[Main] \in SwitchLabels =>
              \/ NoTask(currentTask)
              \/ pc[Main] \in {"reset", "load"} /\ IsBest(currentTask)
        /\ ~Early =>
              \/ NoTask(candidate[Main]) \/ IsBest(candidate[Main])
              \/ candidate[Main] = currentTask
        /\ ~scheduled => \A t, u \in Tasks :
              OfMain(t) /\ OfMain(u) /\ stackPtr[t].label \in {"choose", "assign"} => u = 0

FlowInv == LabelInv /\ TaskInv /\ OwnSlot /\ MainInv
SafeInv == TypeOK /\ (running # Fault => FlowInv)

\* If no slice ends before main is done, none ends before main assigned, and later
\* the current task stays the best.
SlicesLast ==
    \A t \in Tasks : \/ taskPool[t].timeSlice = 0
                     \/ taskPool[t].timeSlice > BootTicks - bootTicks
BootInv ==
    BootFits =>
        /\ running \in {Main, Fault}
        /\ running = Main =>
            /\ Early => SlicesLast /\ currentTask = 0
            /\ ~Early => IsChoice(currentTask)
            /\ pc[Main] \in {"assign", "reset", "load"} => IsChoice(candidate[Main])
            /\ scheduled /\ pc[Main] \in SwitchLabels => NoTask(currentTask)

-----------------------------------------------------------------------------
(* What schedule finds depends on states, priorities and the number of tasks. *)

LEMMA BestIsChosen ==
    ASSUME TypeOK
    PROVE  /\ Schedulable # {} => IsBest(Chosen)
           /\ Schedulable = {} => Chosen = currentTask
           /\ \A t, u : IsBest(t) /\ IsBest(u) => t = u
           /\ \A t : IsBest(t) => t = Chosen /\ IsChoice(t)
           /\ \A t : IsChoice(t) => t = Chosen /\ Kept(t) /\ t \in Tasks
           /\ \A t : IsChoice(t) /\ t # currentTask => IsBest(t)
<1>1. Schedulable \subseteq Tasks /\ currentTask \in Tasks
  BY TaskFacts DEF TypeOK
<1>2. IsChoice(Chosen) /\ \A t \in Tasks : IsChoice(t) => t = Chosen
  BY ChosenIsChoice
<1>3. \A t : IsBest(t) => t \in Tasks /\ IsChoice(t)
  BY <1>1 DEF IsBest, IsChoice
<1>4. \A t : IsChoice(t) => t \in Tasks /\ Kept(t)
  BY <1>1 DEF IsBest, IsChoice, Kept
<1>5. \A t : IsChoice(t) /\ t # currentTask => IsBest(t)
  BY DEF IsBest, IsChoice
<1>6. Schedulable # {} => IsBest(Chosen)
  BY <1>2 DEF IsBest, IsChoice
<1>7. QED
  BY <1>2, <1>3, <1>4, <1>5, <1>6 DEF Chosen

SamePool ==
    /\ taskCount' = taskCount
    /\ \A u \in Tasks : /\ taskPool'[u].state = taskPool[u].state
                        /\ taskPool'[u].priority = taskPool[u].priority

LEMMA ChoiceKept ==
    ASSUME SamePool
    PROVE  /\ Schedulable' = Schedulable
           /\ \A t \in Tasks : IsBest(t)' <=> IsBest(t)
           /\ \A t \in Tasks : Kept(t)' <=> Kept(t)
           /\ \A t \in Tasks :
                IsChoice(t) /\ (currentTask' = currentTask \/ t = currentTask') =>
                    IsChoice(t)'
<1>1. Schedulable' = Schedulable
  BY DEF Schedulable, SamePool
<1>2. \A u, v \in Tasks : NotAfter(u, v)' <=> NotAfter(u, v)
  BY DEF NotAfter, SamePool
<1>3. Schedulable \subseteq Tasks
  BY DEF Schedulable
<1>4. \A t \in Tasks : IsBest(t)' <=> IsBest(t)
  BY <1>1, <1>2, <1>3 DEF IsBest
<1>5. \A t \in Tasks : Kept(t)' <=> Kept(t)
  BY <1>1, <1>4 DEF Kept
<1>6. QED
  BY <1>1, <1>2, <1>3, <1>4, <1>5 DEF IsChoice

-----------------------------------------------------------------------------
(* What is saved and loaded.                                               *)

LEMMA SavedFacts ==
    ASSUME TypeOK, NEW f \in Flows, NEW label \in Labels,
           NEW context \in Contexts(f, label)
    PROVE  /\ context \in Context /\ context.label = label /\ ~context.popped
           /\ context.flow = f \/ (f = Main /\ context.flow = Fault)
           /\ Saved(context) \in [Tasks -> Context]
           /\ Saved(context)[currentTask] = context
           /\ \A u \in Tasks \ {currentTask} :
                /\ Saved(context)[u].flow = stackPtr[u].flow
                /\ Saved(context)[u].popped = stackPtr[u].popped
                /\ Saved(context)[u].label = stackPtr[u].label \/
                      (/\ stackPtr[u].popped /\ stackPtr[u].flow = context.flow
                       /\ Saved(context)[u].label = label)
                /\ stackPtr[u].popped /\ stackPtr[u].flow = context.flow =>
                      Saved(context)[u].label = label
<1>1. PICK g \in IF f = Main THEN {Main, Fault} ELSE {f} :
        context = [flow |-> g, label |-> label, popped |-> FALSE]
  BY DEF Contexts
<1>2. g \in Flows \cup {Fault}
  BY DEF Flows
<1>3. context \in Context
  BY <1>1, <1>2 DEF Context
<1>4. stackPtr \in [Tasks -> Context] /\ currentTask \in Tasks
  BY DEF TypeOK
<1>5. \A u \in Tasks : stackPtr[u] \in Context
  BY <1>4
<1>6. \A u \in Tasks :
        /\ [stackPtr[u] EXCEPT !.label = label] \in Context
        /\ [stackPtr[u] EXCEPT !.label = label].flow = stackPtr[u].flow
        /\ [stackPtr[u] EXCEPT !.label = label].popped = stackPtr[u].popped
        /\ [stackPtr[u] EXCEPT !.label = label].label = label
  BY <1>5 DEF Context
<1>7. \A u \in Tasks :
        Saved(context)[u] =
            IF u = currentTask THEN context
            ELSE IF stackPtr[u].popped /\ stackPtr[u].flow = context.flow
            THEN [stackPtr[u] EXCEPT !.label = label]
            ELSE stackPtr[u]
  BY <1>1 DEF Saved
<1>8. Saved(context) \in [Tasks -> Context]
  <2>1. \A u \in Tasks : Saved(context)[u] \in Context
    BY <1>3, <1>5, <1>6, <1>7
  <2>2. Saved(context) = [u \in Tasks |-> Saved(context)[u]]
    BY DEF Saved
  <2>3. QED
    BY <2>1, <2>2
<1>9. ASSUME NEW u \in Tasks \ {currentTask}
      PROVE  /\ Saved(context)[u].flow = stackPtr[u].flow
             /\ Saved(context)[u].popped = stackPtr[u].popped
             /\ IF stackPtr[u].popped /\ stackPtr[u].flow = context.flow
                THEN Saved(context)[u].label = label
                ELSE Saved(context)[u].label = stackPtr[u].label
  BY <1>6, <1>7
<1>10. context.label = label /\ ~context.popped /\ context.flow = g
  BY <1>1
<1>11. Saved(context)[currentTask] = context
  BY <1>4, <1>7
<1>12. QED
  BY <1>3, <1>8, <1>9, <1>10, <1>11

LEMMA ResumeFacts ==
    ASSUME TypeOK, NEW t \in Tasks, NEW saved \in [Tasks -> Context], Resume(t, saved)
    PROVE  /\ running' = saved[t].flow \/ running' = Fault
           /\ running' \in Flows \cup {Fault}
           /\ pc' \in [Flows -> Labels] /\ stackPtr' \in [Tasks -> Context]
           /\ \A f \in Flows :
                /\ f = running' => pc'[f] = saved[t].label
                /\ f # running' => pc'[f] = pc[f]
           /\ \A u \in Tasks :
                /\ stackPtr'[u].flow = saved[u].flow \/ stackPtr'[u].flow = Fault
                /\ stackPtr'[u].flow # Fault => stackPtr'[u].label = saved[u].label
                /\ saved[u].flow # running' => stackPtr'[u] = saved[u]
                /\ stackPtr'[u].flow = running' /\ running' # Fault =>
                    /\ saved[t].label \in SwitchLabels
                    /\ stackPtr'[u].popped \/ stackPtr'[u].label = After(running')
<1> DEFINE label == saved[t].label
<1>1. PICK flow \in {saved[t].flow} \cup IF saved[t].popped THEN {Fault} ELSE {} :
        /\ running' = flow
        /\ stackPtr' = [u \in Tasks |-> Left(flow, label, saved[u])]
        /\ pc' = [f \in Flows |-> IF f = flow THEN label ELSE pc[f]]
  BY DEF Resume
<1>2. \A u \in Tasks : saved[u] \in Context
  OBVIOUS
<1>3. flow \in Flows \cup {Fault} /\ label \in Labels
  BY <1>2 DEF Context
<1>4. Stale \in Context /\ Stale.flow = Fault
  BY DEF Stale, Context, Labels
<1>5. ASSUME NEW u \in Tasks
      PROVE  /\ Left(flow, label, saved[u]) \in Context
             /\ \/ Left(flow, label, saved[u]).flow = saved[u].flow
                \/ Left(flow, label, saved[u]).flow = Fault
             /\ Left(flow, label, saved[u]).flow # Fault =>
                    Left(flow, label, saved[u]).label = saved[u].label
             /\ saved[u].flow # flow => Left(flow, label, saved[u]) = saved[u]
             /\ Left(flow, label, saved[u]).flow = flow /\ flow # Fault =>
                    /\ label \in SwitchLabels
                    /\ \/ Left(flow, label, saved[u]).popped
                       \/ Left(flow, label, saved[u]).label = After(flow)
  <2> DEFINE marked == [saved[u] EXCEPT !.popped = @ \/ saved[u].label # After(flow)]
  <2>1. /\ marked \in Context /\ marked.flow = saved[u].flow
        /\ marked.label = saved[u].label
        /\ marked.popped \/ saved[u].label = After(flow)
    BY <1>2 DEF Context
  <2>2. Left(flow, label, saved[u]) =
            IF saved[u].flow # flow THEN saved[u]
            ELSE IF label \notin SwitchLabels THEN Stale ELSE marked
    BY DEF Left
  <2>3. CASE saved[u].flow # flow
    BY <1>2, <2>2, <2>3
  <2>4. CASE saved[u].flow = flow /\ label \notin SwitchLabels
    BY <1>4, <2>2, <2>4
  <2>5. CASE saved[u].flow = flow /\ label \in SwitchLabels
    BY <2>1, <2>2, <2>5
  <2>6. QED
    BY <2>3, <2>4, <2>5
<1>6. \A u \in Tasks : stackPtr'[u] = Left(flow, label, saved[u])
  BY <1>1
<1>7. pc' \in [Flows -> Labels] /\ stackPtr' \in [Tasks -> Context]
  <2>1. pc \in [Flows -> Labels]
    BY DEF TypeOK
  <2>2. QED
    BY <1>1, <1>3, <1>5, <2>1
<1>8. \A f \in Flows : /\ f = running' => pc'[f] = label
                       /\ f # running' => pc'[f] = pc[f]
  BY <1>1
<1>9. running' = saved[t].flow \/ running' = Fault
  BY <1>1
<1>10. QED
  BY <1>1, <1>3, <1>5, <1>6, <1>7, <1>8, <1>9

-----------------------------------------------------------------------------
(* The invariant is kept.                                                  *)

LEMMA RequestTypes ==
    ASSUME TypeOK
    PROVE  /\ requests \in Seq(TaskRequest) /\ Len(requests) \in Nat
           /\ request \in Nat /\ taskCount \in Nat /\ MaxTasks \in Nat
           /\ \A i \in 1 .. Len(requests) : requests[i] \in TaskRequest
           /\ Main \in Flows /\ Tasks \subseteq Flows /\ Main \notin Tasks
           /\ Fault \notin Flows /\ Tasks \subseteq Nat /\ 0 \in Tasks
           /\ \A n \in Nat : n < MaxTasks => n \in Tasks
<1>1. requests \in Seq(TaskRequest)
  BY ConstantsAssumption DEF TypeOK
<1>2. Len(requests) \in Nat /\ \A i \in 1 .. Len(requests) : requests[i] \in TaskRequest
  BY <1>1
<1>3. request \in 1 .. Len(requests) + 1 /\ taskCount \in 0 .. MaxTasks
  BY DEF TypeOK
<1>4. MaxTasks \in Nat /\ MaxTasks > 0
  BY ConstantsAssumption
<1>5. QED
  BY <1>1, <1>2, <1>3, <1>4 DEF Tasks, Flows, Main, Fault

LEMMA SafeInit == Init => SafeInv
<1> SUFFICES ASSUME Init PROVE SafeInv
  OBVIOUS
<1>1. requests \in Seq(TaskRequest)
  BY ConstantsAssumption DEF Init
<1>2. Len(requests) \in Nat
  BY <1>1
<1>3. 0 \in Tasks /\ Main \in Flows /\ Main \notin Tasks /\ Fault \notin Flows
      /\ Tasks \subseteq Flows
  BY ConstantsAssumption DEF Tasks, Flows, Main, Fault
<1>4. \A t \in Tasks : taskPool[t] \in Task /\ taskPool[t].state = "READY"
  BY DEF Init, Task, LowestPriority
<1>5. Stale \in Context /\ Stale.flow = Fault
  BY DEF Stale, Context, Labels
<1>6. TypeOK
  <2>1. taskPool \in [Tasks -> Task] /\ stackPtr \in [Tasks -> Context]
    BY <1>4, <1>5 DEF Init
  <2>2. pc \in [Flows -> Labels] /\ candidate \in [Flows -> Tasks]
    BY <1>3 DEF Init, Labels, MainLabels
  <2>3. taskCount \in 0 .. MaxTasks /\ bootTicks \in 0 .. BootTicks
    BY ConstantsAssumption DEF Init
  <2>4. QED
    BY <1>2, <1>3, <2>1, <2>2, <2>3 DEF Init, TypeOK
<1>7. \A t \in Tasks : stackPtr[t].flow = Fault /\ ~OfMain(t) /\ pc[t] = "work"
  BY <1>3, <1>5 DEF Init, OfMain
<1>8. pc[Main] = "create" /\ ~scheduled /\ running = Main /\ currentTask = 0
  BY <1>3 DEF Init
<1>9. LabelInv /\ TaskInv
  BY <1>3, <1>4, <1>7, <1>8 DEF LabelInv, TaskInv, TaskLabels, CreateLabels
<1>10. OwnSlot
  BY <1>7 DEF OwnSlot
<1>11. MainInv
  BY <1>3, <1>7, <1>8 DEF MainInv, MainLabels, Early
<1>12. QED
  BY <1>6, <1>9, <1>10, <1>11 DEF SafeInv, FlowInv

LEMMA SafeMain ==
    ASSUME TypeOK, FlowInv, MainStep
    PROVE  SafeInv'
<1>1. /\ running = Main /\ pc[Main] \in MainLabels /\ ~scheduled /\ Early /\ currentTask = 0
      /\ \A t \in Tasks : ~OfMain(t)
  <2>1. running = Main /\ pc[Main] \in MainLabels
    BY DEF MainStep, CreateFails, Create, Fill, InitStack, CountTask, StartScheduler, At,
           MainLabels
  <2>2. ~scheduled /\ Early
    BY <2>1 DEF FlowInv, LabelInv, Early
  <2>3. QED
    BY <2>1, <2>2 DEF FlowInv, MainInv
<1>2. \A t \in Tasks : taskPool[t].state = "BLOCKED" => t < taskCount
  BY DEF FlowInv, TaskInv
<1> DEFINE Step ==
        /\ pc'[Main] \in MainLabels \cup {"choose"}
        /\ \A t \in Tasks : pc'[t] = pc[t]
        /\ pc'[Main] \in CreateLabels => request' <= Len(requests') /\ taskCount' < MaxTasks
        /\ \A u \in Tasks : stackPtr'[u] = stackPtr[u] \/
              (stackPtr'[u].flow = u /\ stackPtr'[u].label = "work")
        /\ \A u \in Tasks : taskPool'[u].state = taskPool[u].state
        /\ taskCount' \in Nat /\ taskCount <= taskCount'
        /\ UNCHANGED <<running, scheduled, currentTask, candidate>>
<1> HIDE DEF Step
<1>3. TypeOK' /\ Step
  <2> USE RequestTypes
  <2>1. pc \in [Flows -> Labels]
    BY DEF TypeOK
  <2>2. ASSUME NEW label \in Labels, Goto(Main, label)
        PROVE  /\ pc' \in [Flows -> Labels] /\ pc'[Main] = label
               /\ \A t \in Tasks : pc'[t] = pc[t]
    BY <2>1, <2>2 DEF Goto
  <2>3. {"create", "fill", "stack", "count", "choose"} \subseteq Labels
    BY DEF Labels, MainLabels, SwitchLabels
  <2>4. CASE CreateFails
    <3>1. request' \in 1 .. Len(requests') + 1 /\ pc' = pc /\ pc[Main] = "create"
      <4>1. /\ request' = request + 1 /\ requests' = requests /\ pc' = pc
            /\ pc[Main] = "create" /\ request <= Len(requests)
        BY <2>4 DEF CreateFails, At
      <4>2. request \in 1 .. Len(requests) + 1
        BY DEF TypeOK
      <4>3. QED
        BY <4>1, <4>2
    <3>2. TypeOK'
      BY <2>4, <3>1 DEF CreateFails, TypeOK, scheduleVars, coreVars
    <3>3. Step
      BY <2>4, <3>1 DEF CreateFails, Step, scheduleVars, coreVars, MainLabels, CreateLabels
    <3>4. QED
      BY <3>2, <3>3
  <2>5. CASE Create
    <3>1. pc' \in [Flows -> Labels] /\ pc'[Main] = "fill" /\ \A t \in Tasks : pc'[t] = pc[t]
      BY <2>2, <2>3, <2>5 DEF Create
    <3>2. TypeOK'
      BY <2>5, <3>1 DEF Create, TypeOK, scheduleVars, coreVars, createVars
    <3>3. Step
      BY <2>5, <3>1 DEF Create, Step, scheduleVars, coreVars, createVars, MainLabels
    <3>4. QED
      BY <3>2, <3>3
  <2>6. CASE Fill
    <3>1. pc' \in [Flows -> Labels] /\ pc'[Main] = "stack" /\ \A t \in Tasks : pc'[t] = pc[t]
      BY <2>2, <2>3, <2>6 DEF Fill
    <3>2. /\ pc[Main] = "fill" /\ request <= Len(requests) /\ taskCount < MaxTasks
          /\ taskCount \in Tasks
      BY <2>6 DEF Fill, At, FlowInv, LabelInv, CreateLabels, MainLabels
    <3>3. requests[request] \in TaskRequest
      BY <3>2 DEF TypeOK
    <3> DEFINE filled == [taskPool[taskCount] EXCEPT !.state = "READY",
                            !.priority = requests[request].priority,
                            !.timeSlice = requests[request].timeSlice]
    <3>4. filled \in Task /\ filled.state = "READY"
      BY <3>2, <3>3 DEF TypeOK, Task, TaskRequest
    <3>5. taskPool' = [taskPool EXCEPT ![taskCount] = filled]
      BY <2>6 DEF Fill
    <3>6. taskPool[taskCount].state = "READY"
      <4>1. taskPool[taskCount].state \in {"READY", "BLOCKED"}
        BY <3>2 DEF TypeOK, Task
      <4>2. QED
        BY <1>2, <3>2, <4>1
    <3> HIDE DEF filled
    <3>7. /\ taskPool' \in [Tasks -> Task]
          /\ \A u \in Tasks : taskPool'[u].state = taskPool[u].state
      BY <3>2, <3>4, <3>5, <3>6 DEF TypeOK
    <3>8. TypeOK'
      BY <2>6, <3>1, <3>7 DEF Fill, TypeOK, scheduleVars, coreVars, createVars
    <3>9. Step
      BY <2>6, <3>1, <3>2, <3>7 DEF Fill, Step, scheduleVars, coreVars, createVars, MainLabels
    <3>10. QED
      BY <3>8, <3>9
  <2>7. CASE InitStack
    <3>1. pc' \in [Flows -> Labels] /\ pc'[Main] = "count" /\ \A t \in Tasks : pc'[t] = pc[t]
      BY <2>2, <2>3, <2>7 DEF InitStack
    <3>2. /\ pc[Main] = "stack" /\ request <= Len(requests) /\ taskCount < MaxTasks
          /\ taskCount \in Tasks
      BY <2>7 DEF InitStack, At, FlowInv, LabelInv, CreateLabels, MainLabels
    <3> DEFINE first == [flow |-> taskCount, label |-> "work", popped |-> FALSE]
    <3>3. first \in Context /\ first.flow = taskCount /\ first.label = "work"
      BY <3>2 DEF Context, Labels
    <3>4. stackPtr' = [stackPtr EXCEPT ![taskCount] = first]
      BY <2>7 DEF InitStack
    <3> HIDE DEF first
    <3>5. stackPtr' \in [Tasks -> Context]
      BY <3>2, <3>3, <3>4 DEF TypeOK
    <3>6. \A u \in Tasks : stackPtr'[u] = stackPtr[u] \/
              (stackPtr'[u].flow = u /\ stackPtr'[u].label = "work")
      BY <3>2, <3>3, <3>4 DEF TypeOK
    <3>7. TypeOK'
      BY <2>7, <3>1, <3>5 DEF InitStack, TypeOK, scheduleVars, createVars
    <3>8. Step
      BY <2>7, <3>1, <3>2, <3>6 DEF InitStack, Step, scheduleVars, createVars, MainLabels
    <3>9. QED
      BY <3>7, <3>8
  <2>8. CASE CountTask
    <3>1. pc' \in [Flows -> Labels] /\ pc'[Main] = "create" /\ \A t \in Tasks : pc'[t] = pc[t]
      BY <2>2, <2>3, <2>8 DEF CountTask
    <3>2. request <= Len(requests) /\ taskCount < MaxTasks
      BY <2>8 DEF CountTask, At, FlowInv, LabelInv, CreateLabels, MainLabels
    <3>3. request' \in 1 .. Len(requests') + 1 /\ taskCount' \in 0 .. MaxTasks
      BY <2>8, <3>2 DEF CountTask, TypeOK
    <3>4. TypeOK'
      BY <2>8, <3>1, <3>3 DEF CountTask, TypeOK, scheduleVars, coreVars
    <3>5. Step
      BY <2>8, <3>1 DEF CountTask, Step, scheduleVars, coreVars, MainLabels, CreateLabels
    <3>6. QED
      BY <3>4, <3>5
  <2>9. CASE StartScheduler
    <3>1. pc' \in [Flows -> Labels] /\ pc'[Main] = "choose" /\ \A t \in Tasks : pc'[t] = pc[t]
      BY <2>2, <2>3, <2>9 DEF StartScheduler
    <3>2. TypeOK'
      BY <2>9, <3>1 DEF StartScheduler, TypeOK, scheduleVars, coreVars, createVars
    <3>3. Step
      BY <2>9, <3>1 DEF StartScheduler, Step, scheduleVars, coreVars, createVars, CreateLabels,
                        MainLabels
    <3>4. QED
      BY <3>2, <3>3
  <2>10. QED
    BY <2>4, <2>5, <2>6, <2>7, <2>8, <2>9 DEF MainStep
<1>4. running' = Main /\ ~scheduled' /\ currentTask' = 0 /\ Early'
  BY <1>1, <1>3 DEF Step, Early
<1>5. Main \notin Tasks /\ Fault \notin Flows /\ Main \in Flows /\ Tasks \subseteq Nat
      /\ taskCount \in Nat
  BY RequestTypes
<1>6. \A u \in Tasks : ~OfMain(u)'
  BY <1>1, <1>3, <1>5 DEF Step, OfMain
<1>7. LabelInv'
  <2>1. pc'[Main] \notin {"work", "ticks", "save", "load", "spin"}
    BY <1>3 DEF Step, MainLabels
  <2>2. \A t \in Tasks : pc'[t] \in TaskLabels
    BY <1>3 DEF Step, FlowInv, LabelInv
  <2>3. \A t \in Tasks : stackPtr'[t].flow \in Tasks => stackPtr'[t].label \in TaskLabels
    BY <1>3 DEF Step, FlowInv, LabelInv, TaskLabels
  <2>4. QED
    BY <1>3, <1>4, <1>6, <2>1, <2>2, <2>3 DEF Step, LabelInv
<1>8. TaskInv'
  <2>1. ASSUME NEW t \in Tasks
        PROVE  /\ taskPool'[t].state = "BLOCKED" => t < taskCount'
               /\ taskPool'[t].state = "READY" => pc'[t] = "work" /\
                    (stackPtr'[t].flow = t => stackPtr'[t].label = "work")
    BY <1>2, <1>3, <1>5 DEF Step, FlowInv, TaskInv
  <2>2. QED
    BY <1>4, <1>5, <2>1 DEF TaskInv
<1>9. OwnSlot'
  BY <1>1, <1>3, <1>4, <1>5 DEF Step, FlowInv, OwnSlot
<1>10. MainInv'
  BY <1>3, <1>4, <1>5, <1>6 DEF Step, MainInv, MainLabels, SwitchLabels
<1>11. QED
  BY <1>3, <1>7, <1>8, <1>9, <1>10 DEF SafeInv, FlowInv

LEMMA SafeBlock ==
    ASSUME TypeOK, FlowInv, NEW t \in Tasks, Block(t)
    PROVE  SafeInv'
<1> USE RequestTypes
<1>1. running = t /\ pc[t] = "work" /\ currentTask = t /\ t < taskCount
  BY DEF Block, At, FlowInv, TaskInv
<1>2. /\ pc' \in [Flows -> Labels] /\ pc'[t] = "ticks"
      /\ \A f \in Flows \ {t} : pc'[f] = pc[f]
  BY DEF Block, Goto, TypeOK, Labels
<1> DEFINE blocked == [taskPool[t] EXCEPT !.state = "BLOCKED"]
<1>3. /\ blocked \in Task /\ blocked.state = "BLOCKED"
      /\ blocked.priority = taskPool[t].priority
  BY DEF TypeOK, Task
<1>4. taskPool' = [taskPool EXCEPT ![t] = blocked]
  BY <1>1 DEF Block
<1> HIDE DEF blocked
<1>5. /\ taskPool' \in [Tasks -> Task] /\ taskPool'[t].state = "BLOCKED"
      /\ \A u \in Tasks : taskPool'[u].priority = taskPool[u].priority
      /\ \A u \in Tasks \ {t} : taskPool'[u] = taskPool[u]
  BY <1>3, <1>4 DEF TypeOK
<1>6. /\ UNCHANGED <<requests, request, taskCount, currentTask, candidate, scheduled>>
      /\ UNCHANGED <<stackPtr, running, bootTicks>>
  BY DEF Block, createVars, scheduleVars, coreVars
<1>7. TypeOK'
  BY <1>2, <1>5, <1>6 DEF TypeOK
<1>8. Schedulable' \subseteq Schedulable
  BY <1>5, <1>6 DEF Schedulable
<1>9. \A u \in Tasks : Kept(u) => Kept(u)'
  <2>1. Schedulable \subseteq Tasks
    BY DEF Schedulable
  <2>2. \A u, v \in Tasks : NotAfter(u, v) => NotAfter(u, v)'
    BY <1>5 DEF NotAfter
  <2>3. QED
    BY <1>8, <2>1, <2>2 DEF Kept, IsBest
<1>10. LabelInv'
  BY <1>1, <1>2, <1>6 DEF FlowInv, LabelInv, OfMain, TaskLabels
<1>11. TaskInv'
  BY <1>1, <1>2, <1>5, <1>6 DEF FlowInv, TaskInv
<1>12. OwnSlot'
  BY <1>6 DEF FlowInv, OwnSlot
<1>13. MainInv'
  <2>1. running \in Tasks /\ running # Main /\ pc'[Main] = pc[Main] /\ Early' = Early
    BY <1>1, <1>2, <1>6 DEF Early
  <2>2. \A u \in Tasks : OfMain(u)' = OfMain(u)
    BY <1>6 DEF OfMain
  <2>3. candidate[Main] \in Tasks /\ candidate'[Main] = candidate[Main]
    BY <1>6 DEF TypeOK
  <2>4. pc[Main] = "assign" /\ Early => Kept(candidate[Main])'
    BY <1>9, <2>3 DEF FlowInv, MainInv
  <2>5. pc'[Main] = "assign" /\ Early' => Kept(candidate[Main])'
    BY <2>1, <2>4
  <2>6. ~Early /\ running \in Tasks => \A u \in Tasks : OfMain(u) => u \notin Schedulable
    BY DEF FlowInv, MainInv
  <2>7. QED
    BY <1>6, <1>8, <2>1, <2>2, <2>5, <2>6 DEF FlowInv, MainInv
<1>14. QED
  BY <1>7, <1>10, <1>11, <1>12, <1>13 DEF SafeInv, FlowInv

\* A step of a flow that keeps the core, saves nothing and disturbs no choice.
FlowGoesOn(f, label) ==
    /\ f \in Flows /\ running = f /\ label \in Labels
    /\ Goto(f, label)
    /\ SamePool /\ taskPool' \in [Tasks -> Task]
    /\ currentTask' \in Tasks
    /\ \A g \in Flows \ {f} : candidate'[g] = candidate[g]
    /\ candidate' \in [Flows -> Tasks]
    /\ scheduled' \in BOOLEAN
    /\ UNCHANGED <<requests, request, taskCount, stackPtr, running, bootTicks>>

LEMMA GoesOnFacts ==
    ASSUME TypeOK, NEW f, NEW label, FlowGoesOn(f, label)
    PROVE  /\ TypeOK' /\ running' = f /\ pc'[f] = label /\ f \in Flows
           /\ \A g \in Flows \ {f} : pc'[g] = pc[g]
           /\ \A t \in Tasks : OfMain(t)' = OfMain(t) /\ NoTask(t)' = NoTask(t)
<1>1. pc' \in [Flows -> Labels] /\ pc'[f] = label /\ \A g \in Flows \ {f} : pc'[g] = pc[g]
  BY DEF FlowGoesOn, Goto, TypeOK
<1>2. TypeOK'
  BY <1>1 DEF FlowGoesOn, TypeOK
<1>3. QED
  BY <1>1, <1>2 DEF FlowGoesOn, OfMain, NoTask

\* What is left to show of a task.
LEMMA TaskGoesOn ==
    ASSUME TypeOK, FlowInv, NEW f \in Tasks, NEW label, FlowGoesOn(f, label),
           label \in TaskLabels \ {"work"}, pc[f] # "work", scheduled' = scheduled,
           label \notin {"reset", "load"} => currentTask' = f,
           currentTask' # f => currentTask' \in Schedulable,
           label \in {"assign", "reset", "load"} => IsChoice(candidate[f])',
           label \in {"reset", "load"} => currentTask' = candidate'[f],
           currentTask' = currentTask \/ currentTask = f
    PROVE  SafeInv'
<1> USE RequestTypes
<1>1. /\ TypeOK' /\ running' = f /\ running = f /\ pc'[f] = label
      /\ \A g \in Flows \ {f} : pc'[g] = pc[g]
      /\ \A t \in Tasks : OfMain(t)' = OfMain(t)
  BY GoesOnFacts DEF FlowGoesOn
<1>2. /\ UNCHANGED <<requests, request, taskCount, stackPtr>>
      /\ \A u \in Tasks : taskPool'[u].state = taskPool[u].state
      /\ \A g \in Flows \ {f} : candidate'[g] = candidate[g]
  BY DEF FlowGoesOn, SamePool
<1>3. /\ Schedulable' = Schedulable /\ \A t \in Tasks : Kept(t)' <=> Kept(t)
  BY ChoiceKept DEF FlowGoesOn
<1>4. LabelInv'
  BY <1>1, <1>2 DEF FlowInv, LabelInv
<1>5. TaskInv'
  <2>1. taskPool[f].state # "READY"
    BY DEF FlowInv, TaskInv
  <2>2. \A t \in Tasks :
            /\ taskPool'[t].state = "BLOCKED" => t < taskCount'
            /\ taskPool'[t].state = "READY" =>
                  pc'[t] = "work" /\ (stackPtr'[t].flow = t => stackPtr'[t].label = "work")
    BY <1>1, <1>2, <2>1 DEF FlowInv, TaskInv
  <2>3. f < taskCount' /\ stackPtr'[f].flow # Main
    BY <1>1, <1>2 DEF FlowInv, TaskInv
  <2>4. QED
    BY <1>1, <1>3, <2>2, <2>3 DEF TaskInv
<1>6. OwnSlot'
  <2>1. running # Fault
    BY <1>1
  <2>2. \A t \in Tasks : \/ stackPtr[t].flow \in {t, Main, Fault}
                         \/ /\ t = currentTask /\ stackPtr[t].flow = running
                            /\ stackPtr[t].popped /\ stackPtr[t].label \in {"reset", "load"}
    BY <2>1 DEF FlowInv, OwnSlot
  <2>3. QED
    BY <1>1, <1>2, <2>2 DEF OwnSlot
<1>7. MainInv'
  <2>1. pc'[Main] = pc[Main] /\ Early' = Early /\ f # Main
    BY <1>1 DEF Early
  <2>2. candidate[Main] \in Tasks /\ candidate'[Main] = candidate[Main]
    BY <1>2 DEF TypeOK
  <2>3. pc[Main] = "assign" /\ Early => Kept(candidate[Main])
    BY DEF FlowInv, MainInv
  <2>4. pc'[Main] = "assign" /\ Early' => Kept(candidate[Main])'
    BY <1>3, <2>1, <2>2, <2>3 DEF Kept, IsBest, NotAfter
  <2>5. QED
    BY <1>1, <1>2, <1>3, <2>1, <2>4 DEF FlowInv, MainInv
<1>8. QED
  BY <1>1, <1>4, <1>5, <1>6, <1>7 DEF SafeInv, FlowInv

\* And of main.
LEMMA MainGoesOn ==
    ASSUME TypeOK, FlowInv, NEW label, FlowGoesOn(Main, label),
           label \in {"assign", "save", "reset", "load"},
           NEW c \in Tasks, candidate'[Main] = c, NEW t \in Tasks, currentTask' = t,
           label \in {"save", "load"} => scheduled', scheduled => scheduled',
           ~scheduled' /\ label = "assign" => Early /\ t = currentTask,
           Kept(c), scheduled' \/ label # "assign" => Kept(t),
           scheduled' /\ label \in SwitchLabels =>
              NoTask(t) \/ (label \in {"reset", "load"} /\ IsBest(t)),
           scheduled' \/ label # "assign" => NoTask(c) \/ IsBest(c) \/ c = t,
           pc[Main] \notin MainLabels
    PROVE  SafeInv'
<1> USE RequestTypes
<1>1. /\ TypeOK' /\ running' = Main /\ running = Main /\ pc'[Main] = label
      /\ \A g \in Tasks : pc'[g] = pc[g]
      /\ \A u \in Tasks : OfMain(u)' = OfMain(u) /\ NoTask(u)' = NoTask(u)
  BY GoesOnFacts DEF FlowGoesOn
<1>2. /\ UNCHANGED <<requests, request, taskCount, stackPtr>>
      /\ \A u \in Tasks : taskPool'[u].state = taskPool[u].state
  BY DEF FlowGoesOn, SamePool
<1>3. \A u \in Tasks : (Kept(u)' <=> Kept(u)) /\ (IsBest(u)' <=> IsBest(u))
  BY ChoiceKept DEF FlowGoesOn
<1>4. label \notin MainLabels /\ label # "spin" /\ label \notin {"work", "ticks", "choose"}
  BY DEF MainLabels
<1>5. LabelInv'
  <2>1. label \notin CreateLabels
    BY <1>4 DEF CreateLabels
  <2>2. \A u \in Tasks :
            /\ stackPtr'[u].flow \in Tasks => stackPtr'[u].label \in TaskLabels
            /\ OfMain(u)' =>
                /\ stackPtr'[u].label \notin {"work", "ticks"} \cup MainLabels
                /\ stackPtr'[u].label \in {"save", "load", "spin"} => scheduled'
    BY <1>1, <1>2 DEF FlowInv, LabelInv
  <2>3. \A u \in Tasks : pc'[u] \in TaskLabels
    BY <1>1 DEF FlowInv, LabelInv
  <2>4. QED
    BY <1>1, <1>4, <2>1, <2>2, <2>3 DEF LabelInv
<1>6. TaskInv'
  BY <1>1, <1>2 DEF FlowInv, TaskInv
<1>7. OwnSlot'
  BY <1>1, <1>2 DEF FlowInv, OwnSlot
<1>8. MainInv'
  <2>1. Early' => Early /\ t = currentTask /\ label = "assign" /\ ~scheduled'
    BY <1>1, <1>4 DEF Early
  <2>2. Early' =>
          /\ currentTask' = 0
          /\ \A u \in Tasks : OfMain(u)' =>
                u = 0 /\ stackPtr'[u].label \in MainLabels \cup {"choose", "assign"}
    BY <1>1, <1>2, <2>1 DEF FlowInv, MainInv
  <2>3. \A u \in Tasks : OfMain(u)' =>
              Kept(u)' /\ (stackPtr'[u].popped \/ stackPtr'[u].label = "spin")
    BY <1>1, <1>2, <1>3 DEF FlowInv, MainInv
  <2>4. Kept(candidate[Main])' /\ (~Early' => Kept(currentTask)')
    <3>1. ~Early' => scheduled' \/ label # "assign"
      BY <1>1 DEF Early
    <3>2. Kept(c)' /\ (~Early' => Kept(t)')
      BY <1>3, <3>1
    <3>3. QED
      BY <3>2 DEF Kept, IsBest, NotAfter
  <2>5. scheduled' /\ label \in SwitchLabels =>
              NoTask(t)' \/ (label \in {"reset", "load"} /\ IsBest(t)')
    BY <1>1, <1>3
  <2>6. ~Early' => NoTask(c)' \/ IsBest(c)' \/ c = t
    <3>1. ~Early' => scheduled' \/ label # "assign"
      BY <1>1 DEF Early
    <3>2. QED
      BY <1>1, <1>3, <3>1
  <2>9. ~scheduled' => \A u, v \in Tasks :
            OfMain(u)' /\ OfMain(v)' /\ stackPtr'[u].label \in {"choose", "assign"} => v = 0
    BY <1>1, <1>2 DEF FlowInv, MainInv
  <2>7. scheduled' /\ pc'[Main] \in SwitchLabels =>
              \/ NoTask(currentTask)'
              \/ pc'[Main] \in {"reset", "load"} /\ IsBest(currentTask)'
    BY <1>1, <2>5 DEF NoTask, IsBest
  <2>8. ~Early' => \/ NoTask(candidate[Main])' \/ IsBest(candidate[Main])'
                   \/ candidate'[Main] = currentTask'
    BY <1>1, <2>6 DEF NoTask, IsBest
  <2>10. QED
    BY <1>1, <1>4, <2>2, <2>3, <2>4, <2>7, <2>8, <2>9 DEF MainInv
<1>9. QED
  BY <1>1, <1>5, <1>6, <1>7, <1>8 DEF SafeInv, FlowInv

LEMMA SafeTicks ==
    ASSUME TypeOK, FlowInv, NEW f \in Flows, SetTicks(f)
    PROVE  SafeInv'
<1> USE RequestTypes
<1>1. f \in Tasks /\ running = f /\ pc[f] = "ticks" /\ currentTask = f
  BY DEF SetTicks, At, Flows, FlowInv, LabelInv, TaskInv
<1>2. PICK ticks \in Delays : taskPool' = [taskPool EXCEPT ![currentTask].timeSlice = ticks]
  BY DEF SetTicks
<1>3. ticks \in Nat
  BY ConstantsAssumption
<1>4. taskPool' \in [Tasks -> Task] /\ SamePool
  <2> DEFINE delayed == [taskPool[f] EXCEPT !.timeSlice = ticks]
  <2>1. /\ delayed \in Task /\ delayed.state = taskPool[f].state
        /\ delayed.priority = taskPool[f].priority
    BY <1>1, <1>3 DEF TypeOK, Task
  <2>2. taskPool' = [taskPool EXCEPT ![f] = delayed]
    BY <1>1, <1>2
  <2> HIDE DEF delayed
  <2>3. QED
    BY <1>1, <2>1, <2>2 DEF SetTicks, createVars, SamePool, TypeOK
<1>5. FlowGoesOn(f, "save")
  BY <1>1, <1>4 DEF FlowGoesOn, SetTicks, createVars, scheduleVars, coreVars, TypeOK, Labels
<1>6. UNCHANGED <<currentTask, scheduled>>
  BY DEF SetTicks, scheduleVars
<1>7. QED
  BY <1>1, <1>5, <1>6, TaskGoesOn DEF TaskLabels

LEMMA SafeChoose ==
    ASSUME TypeOK, FlowInv, NEW f \in Flows, Choose(f)
    PROVE  SafeInv'
<1> USE RequestTypes
<1>1. running = f /\ pc[f] = "choose"
  BY DEF Choose, At
<1>2. PICK c \in Tasks : c = Chosen /\ IsChoice(c)
  BY ChosenIsChoice
<1>3. /\ candidate' \in [Flows -> Tasks] /\ candidate'[f] = c
      /\ \A g \in Flows \ {f} : candidate'[g] = candidate[g]
  BY <1>2 DEF Choose, TypeOK
<1>4. FlowGoesOn(f, "assign") /\ UNCHANGED <<currentTask, scheduled>> /\ SamePool
  BY <1>1, <1>3 DEF Choose, FlowGoesOn, createVars, coreVars, SamePool, TypeOK, Labels,
                    SwitchLabels
<1>5. CASE f \in Tasks
  <2>1. currentTask = f
    BY <1>1, <1>5 DEF FlowInv, TaskInv
  <2>2. IsChoice(candidate[f])'
    <3>1. IsChoice(c)'
      BY <1>2, <1>4, ChoiceKept
    <3>2. QED
      BY <1>3, <3>1 DEF IsChoice
  <2>3. QED
    BY <1>1, <1>4, <1>5, <2>1, <2>2, TaskGoesOn DEF TaskLabels, SwitchLabels
<1>6. CASE f = Main
  <2>1. Kept(c)
    BY <1>2, BestIsChosen
  <2>2. scheduled => Kept(currentTask) /\ NoTask(currentTask)
    BY <1>1, <1>6 DEF FlowInv, MainInv, Early, SwitchLabels
  <2>3. scheduled => NoTask(c) \/ IsBest(c)
    BY <1>2, <2>2, BestIsChosen
  <2>4. ~scheduled => Early
    BY <1>1, <1>6 DEF Early
  <2>5. pc[Main] \notin MainLabels
    BY <1>1, <1>6 DEF MainLabels
  <2>6. currentTask \in Tasks
    BY DEF TypeOK
  <2>7. QED
    BY <1>2, <1>3, <1>4, <1>6, <2>1, <2>2, <2>3, <2>4, <2>5, <2>6, MainGoesOn
<1>7. QED
  BY <1>5, <1>6 DEF Flows

\* Where a flow is after schedule.
LEMMA ReturnFacts ==
    ASSUME TypeOK, NEW f \in Flows, Return(f), Scheduled(f)
    PROVE  \E label \in {"save", "load"} :
              /\ Goto(f, label) /\ label \in Labels
              /\ f # Main => label = "load" /\ scheduled' = scheduled
              /\ f = Main => scheduled' /\ (label = "load" <=> scheduled)
<1>1. scheduled \in BOOLEAN
  BY DEF TypeOK
<1>2. QED
  BY <1>1 DEF Return, Scheduled, Labels, SwitchLabels

LEMMA SafeAssignNothing ==
    ASSUME TypeOK, FlowInv, NEW f \in Flows, AssignNothing(f)
    PROVE  SafeInv'
<1> USE RequestTypes
<1>1. running = f /\ pc[f] = "assign" /\ candidate[f] = currentTask /\ currentTask \in Tasks
  BY DEF AssignNothing, At, TypeOK
<1>2. PICK label \in {"save", "load"} :
              /\ Goto(f, label) /\ label \in Labels
              /\ f # Main => label = "load" /\ scheduled' = scheduled
              /\ f = Main => scheduled' /\ (label = "load" <=> scheduled)
  BY ReturnFacts DEF AssignNothing
<1>3. scheduled' \in BOOLEAN
  BY <1>2 DEF AssignNothing, Scheduled
<1>4. FlowGoesOn(f, label) /\ UNCHANGED <<currentTask, candidate>> /\ SamePool
  BY <1>1, <1>2, <1>3 DEF AssignNothing, FlowGoesOn, createVars, coreVars, SamePool, TypeOK
<1>5. CASE f \in Tasks
  <2>1. currentTask = f /\ IsChoice(candidate[f])
    BY <1>1, <1>5 DEF FlowInv, TaskInv
  <2>2. IsChoice(candidate[f])'
    <3>1. IsChoice(currentTask)'
      BY <1>1, <1>4, <2>1, ChoiceKept DEF IsChoice
    <3>2. QED
      BY <1>1, <1>4, <3>1 DEF IsChoice
  <2>3. QED
    BY <1>1, <1>2, <1>4, <1>5, <2>1, <2>2, TaskGoesOn DEF TaskLabels, SwitchLabels
<1>6. CASE f = Main
  <2>1. Kept(candidate[Main])
    BY <1>1, <1>6 DEF FlowInv, MainInv
  <2>2. scheduled => NoTask(currentTask)
    BY <1>1, <1>6 DEF FlowInv, MainInv, SwitchLabels
  <2>3. pc[Main] \notin MainLabels
    BY <1>1, <1>6 DEF MainLabels
  <2>4. candidate'[Main] = currentTask /\ currentTask' = currentTask
    BY <1>1, <1>4, <1>6
  <2>5. QED
    BY <1>1, <1>2, <1>4, <1>6, <2>1, <2>2, <2>3, <2>4, MainGoesOn DEF SwitchLabels
<1>7. QED
  BY <1>5, <1>6 DEF Flows

LEMMA SafeAssign ==
    ASSUME TypeOK, FlowInv, NEW f \in Flows, Assign(f)
    PROVE  SafeInv'
<1> USE RequestTypes
<1>1. /\ running = f /\ pc[f] = "assign" /\ candidate[f] # currentTask
      /\ candidate[f] \in Tasks /\ currentTask' = candidate[f]
  BY DEF Assign, At, TypeOK
<1>2. FlowGoesOn(f, "reset") /\ UNCHANGED <<scheduled, candidate>> /\ SamePool
  BY <1>1 DEF Assign, FlowGoesOn, createVars, coreVars, SamePool, TypeOK, Labels, SwitchLabels
<1>3. CASE f \in Tasks
  <2>1. currentTask = f /\ IsChoice(candidate[f])
    BY <1>1, <1>3 DEF FlowInv, TaskInv
  <2>2. IsBest(candidate[f])
    BY <1>1, <2>1, BestIsChosen
  <2>3. candidate[f] \in Schedulable
    BY <2>2 DEF IsBest
  <2>4. IsChoice(candidate[f])'
    <3>1. IsChoice(currentTask)'
      BY <1>1, <1>2, <2>1, ChoiceKept DEF IsChoice
    <3>2. QED
      BY <1>1, <1>2, <3>1 DEF IsChoice
  <2>5. QED
    BY <1>1, <1>2, <1>3, <2>1, <2>3, <2>4, TaskGoesOn DEF TaskLabels, SwitchLabels
<1>4. CASE f = Main
  <2>1. Kept(candidate[Main])
    BY <1>1, <1>4 DEF FlowInv, MainInv
  <2>2. scheduled => NoTask(candidate[Main]) \/ IsBest(candidate[Main])
    BY <1>1, <1>4 DEF FlowInv, MainInv, Early
  <2>3. pc[Main] \notin MainLabels
    BY <1>1, <1>4 DEF MainLabels
  <2>4. candidate'[Main] = candidate[Main]
    BY <1>2
  <2>5. QED
    BY <1>1, <1>2, <1>4, <2>1, <2>2, <2>3, <2>4, MainGoesOn
<1>5. QED
  BY <1>3, <1>4 DEF Flows

LEMMA SafeReset ==
    ASSUME TypeOK, FlowInv, NEW f \in Flows, Reset(f)
    PROVE  SafeInv'
<1> USE RequestTypes
<1>1. running = f /\ pc[f] = "reset" /\ currentTask \in Tasks /\ candidate[f] \in Tasks
  BY DEF Reset, At, TypeOK
<1>2. PICK label \in {"save", "load"} :
              /\ Goto(f, label) /\ label \in Labels
              /\ f # Main => label = "load" /\ scheduled' = scheduled
              /\ f = Main => scheduled' /\ (label = "load" <=> scheduled)
  BY ReturnFacts DEF Reset
<1>3. scheduled' \in BOOLEAN
  BY <1>2 DEF Reset, Scheduled
<1>4. taskPool' \in [Tasks -> Task] /\ SamePool
  BY <1>1, ConstantsAssumption DEF Reset, createVars, SamePool, TypeOK, Task
<1>5. FlowGoesOn(f, label) /\ UNCHANGED <<currentTask, candidate>> /\ SamePool
  BY <1>1, <1>2, <1>3, <1>4 DEF Reset, FlowGoesOn, createVars, coreVars, TypeOK
<1>6. CASE f \in Tasks
  <2>1. currentTask = candidate[f] /\ IsChoice(candidate[f])
        /\ (currentTask # f => currentTask \in Schedulable)
    BY <1>1, <1>6 DEF FlowInv, TaskInv
  <2>2. IsChoice(candidate[f])'
    <3>1. IsChoice(currentTask)'
      BY <1>1, <1>5, <2>1, ChoiceKept DEF IsChoice
    <3>2. QED
      BY <1>1, <1>5, <2>1, <3>1 DEF IsChoice
  <2>3. QED
    BY <1>1, <1>2, <1>5, <1>6, <2>1, <2>2, TaskGoesOn DEF TaskLabels, SwitchLabels
<1>7. CASE f = Main
  <2>1. ~Early
    BY <1>1, <1>7 DEF Early, MainLabels
  <2>2. Kept(candidate[Main]) /\ Kept(currentTask)
    BY <1>1, <1>7, <2>1 DEF FlowInv, MainInv
  <2>3. scheduled => /\ NoTask(currentTask) \/ IsBest(currentTask)
                     /\ NoTask(candidate[Main]) \/ IsBest(candidate[Main])
    BY <1>1, <1>7, <2>1 DEF FlowInv, MainInv, SwitchLabels
  <2>7. NoTask(candidate[Main]) \/ IsBest(candidate[Main]) \/ candidate[Main] = currentTask
    BY <1>1, <1>7, <2>1 DEF FlowInv, MainInv
  <2>4. pc[Main] \notin MainLabels
    BY <1>1, <1>7 DEF MainLabels
  <2>5. candidate'[Main] = candidate[Main] /\ currentTask' = currentTask
    BY <1>5
  <2>6. QED
    BY <1>1, <1>2, <1>5, <1>7, <2>2, <2>3, <2>4, <2>5, <2>7, MainGoesOn DEF SwitchLabels
<1>8. QED
  BY <1>6, <1>7 DEF Flows

LEMMA SafeSave ==
    ASSUME TypeOK, FlowInv, NEW f \in Flows, Save(f)
    PROVE  SafeInv'
<1> USE RequestTypes
<1>1. running = f /\ pc[f] = "save" /\ currentTask \in Tasks
  BY DEF Save, At, TypeOK
<1>2. PICK context \in Contexts(f, After(f)) : stackPtr' = Saved(context)
  BY DEF Save
<1>3. After(f) \in Labels /\ (f # Main => After(f) = "work") /\ After(Main) = "spin"
  BY DEF After, Labels
<1>4. /\ context.label = After(f) /\ ~context.popped
      /\ context.flow = f \/ (f = Main /\ context.flow = Fault)
      /\ stackPtr' \in [Tasks -> Context] /\ stackPtr'[currentTask] = context
      /\ \A u \in Tasks \ {currentTask} :
            /\ stackPtr'[u].flow = stackPtr[u].flow
            /\ stackPtr'[u].popped = stackPtr[u].popped
            /\ stackPtr'[u].label = stackPtr[u].label \/
                  (/\ stackPtr[u].popped /\ stackPtr[u].flow = context.flow
                   /\ stackPtr'[u].label = After(f))
  BY <1>2, <1>3, SavedFacts
<1>5. /\ pc' \in [Flows -> Labels] /\ pc'[f] = "choose"
      /\ \A g \in Flows \ {f} : pc'[g] = pc[g]
  BY DEF Save, Goto, TypeOK, Labels, SwitchLabels
<1>6. /\ UNCHANGED <<requests, request, taskCount, taskPool, currentTask, candidate>>
      /\ UNCHANGED <<scheduled, running, bootTicks>>
  BY DEF Save, createVars, scheduleVars
<1>7. TypeOK'
  BY <1>4, <1>5, <1>6 DEF TypeOK
<1>8. SamePool
  BY <1>6 DEF SamePool
<1>9. Schedulable' = Schedulable /\ \A u \in Tasks : Kept(u)' <=> Kept(u)
  BY <1>8, ChoiceKept
<1>10. CASE f \in Tasks
  <2>1. currentTask = f /\ f # Main /\ After(f) = "work" /\ context.flow = f
    BY <1>1, <1>3, <1>4, <1>10 DEF FlowInv, TaskInv
  <2>2. \A u \in Tasks : OfMain(u)' =>
            OfMain(u) /\ stackPtr'[u].label = stackPtr[u].label
    BY <1>4, <2>1 DEF OfMain
  <2>3. LabelInv'
    <3>1. \A u \in Tasks : stackPtr'[u].flow \in Tasks => stackPtr'[u].label \in TaskLabels
      BY <1>4, <2>1 DEF FlowInv, LabelInv, TaskLabels
    <3>2. \A u \in Tasks : pc'[u] \in TaskLabels
      BY <1>5 DEF FlowInv, LabelInv, TaskLabels, SwitchLabels
    <3>3. pc'[Main] = pc[Main]
      BY <1>5, <2>1
    <3>4. QED
      BY <1>6, <2>2, <3>1, <3>2, <3>3 DEF FlowInv, LabelInv
  <2>4. TaskInv'
    <3>1. taskPool[f].state # "READY"
      BY <1>1, <1>10 DEF FlowInv, TaskInv
    <3>2. \A u \in Tasks : stackPtr'[u].flow = u /\ u # f =>
              stackPtr[u].flow = u /\ stackPtr'[u].label = stackPtr[u].label
      BY <1>4, <2>1
    <3>3. \A u \in Tasks :
            /\ taskPool'[u].state = "BLOCKED" => u < taskCount'
            /\ taskPool'[u].state = "READY" => pc'[u] = "work" /\
                  (stackPtr'[u].flow = u => stackPtr'[u].label = "work")
      BY <1>5, <1>6, <3>1, <3>2 DEF FlowInv, TaskInv
    <3>4. running' = f /\ f < taskCount'
      BY <1>1, <1>6, <1>10 DEF FlowInv, TaskInv
    <3>5. QED
      BY <1>4, <1>5, <1>6, <2>1, <3>3, <3>4 DEF TaskInv
  <2>5. OwnSlot'
    <3>1. \A u \in Tasks \ {currentTask} : stackPtr[u].flow \in {u, Main, Fault}
      BY <1>1 DEF FlowInv, OwnSlot
    <3>2. QED
      BY <1>4, <1>6, <2>1, <3>1 DEF OwnSlot
  <2>6. MainInv'
    <3>1. pc'[Main] = pc[Main] /\ Early' = Early /\ running # Main
      BY <1>1, <1>5, <1>6, <2>1 DEF Early
    <3>2. candidate[Main] \in Tasks /\ candidate'[Main] = candidate[Main]
      BY <1>6 DEF TypeOK
    <3>3. pc[Main] = "assign" /\ Early => Kept(candidate[Main])'
      BY <1>6, <1>9, <3>2 DEF FlowInv, MainInv
    <3>4. QED
      BY <1>6, <1>9, <2>2, <3>1, <3>3 DEF FlowInv, MainInv
  <2>7. QED
    BY <1>7, <2>3, <2>4, <2>5, <2>6 DEF SafeInv, FlowInv
<1>11. CASE f = Main
  <2>1. scheduled /\ scheduled' /\ ~Early /\ ~Early' /\ running' = Main /\ pc'[Main] = "choose"
    BY <1>1, <1>5, <1>6, <1>11 DEF FlowInv, LabelInv, Early
  <2>2. After(f) = "spin" /\ context.flow \in {Main, Fault}
    BY <1>3, <1>4, <1>11
  <2>3. LabelInv'
    <3>1. ASSUME NEW u \in Tasks
          PROVE  /\ stackPtr'[u].flow \in Tasks => stackPtr'[u].label \in TaskLabels
                 /\ OfMain(u)' => stackPtr'[u].label \notin {"work", "ticks"} \cup MainLabels
      <4>1. OfMain(u) => stackPtr[u].label \notin {"work", "ticks"} \cup MainLabels
        BY <1>1, <1>11 DEF FlowInv, LabelInv
      <4>2. "spin" \notin {"work", "ticks"} \cup MainLabels
        BY DEF MainLabels
      <4>3. CASE u = currentTask
        BY <1>4, <2>2, <4>2, <4>3
      <4>4. CASE u # currentTask
        BY <1>4, <2>2, <4>1, <4>2, <4>4 DEF FlowInv, LabelInv, OfMain
      <4>5. QED
        BY <4>3, <4>4
    <3>2. "choose" \notin MainLabels \cup CreateLabels
      BY DEF MainLabels, CreateLabels
    <3>3. \A u \in Tasks : pc'[u] \in TaskLabels
      BY <1>5, <1>11 DEF FlowInv, LabelInv
    <3>4. QED
      BY <2>1, <3>1, <3>2, <3>3 DEF LabelInv
  <2>4. TaskInv'
    <3>1. \A u \in Tasks : stackPtr'[u].flow = u =>
              stackPtr[u].flow = u /\ stackPtr'[u].label = stackPtr[u].label
      BY <1>4, <2>2
    <3>2. QED
      BY <1>5, <1>6, <1>11, <2>1, <3>1 DEF FlowInv, TaskInv
  <2>5. OwnSlot'
    <3>1. \A u \in Tasks \ {currentTask} : stackPtr[u].flow \in {u, Main, Fault}
      BY <1>1 DEF FlowInv, OwnSlot
    <3>2. QED
      BY <1>4, <1>6, <2>2, <3>1 DEF OwnSlot
  <2>6. MainInv'
    <3>1. Kept(currentTask) /\ Kept(candidate[Main])
      BY <1>1, <1>11, <2>1 DEF FlowInv, MainInv
    <3>2. ASSUME NEW u \in Tasks, OfMain(u)'
          PROVE  Kept(u)' /\ (stackPtr'[u].popped \/ stackPtr'[u].label = "spin")
      <4>1. CASE u = currentTask
        BY <1>4, <1>9, <2>2, <3>1, <4>1
      <4>2. CASE u # currentTask
        BY <1>1, <1>4, <1>9, <1>11, <2>2, <3>2, <4>2 DEF FlowInv, MainInv, OfMain
      <4>3. QED
        BY <4>1, <4>2
    <3>3. Kept(currentTask)' /\ Kept(candidate[Main])'
      <4>1. candidate[Main] \in Tasks
        BY DEF TypeOK
      <4>2. QED
        BY <1>1, <1>6, <1>9, <3>1, <4>1 DEF Kept, IsBest, NotAfter
    <3>4. NoTask(currentTask)'
      BY <1>4, <1>6, <2>2 DEF NoTask
    <3>5. "choose" \notin MainLabels
      BY DEF MainLabels
    <3>6. \/ NoTask(candidate[Main])' \/ IsBest(candidate[Main])'
          \/ candidate'[Main] = currentTask'
      <4>1. candidate[Main] \in Tasks /\ candidate'[Main] = candidate[Main]
        BY <1>6 DEF TypeOK
      <4>2. NoTask(candidate[Main]) \/ IsBest(candidate[Main]) \/ candidate[Main] = currentTask
        BY <1>1, <1>11, <2>1 DEF FlowInv, MainInv
      <4>3. \A u \in Tasks : (NoTask(u) => NoTask(u)') /\ (IsBest(u) => IsBest(u)')
        BY <1>4, <1>8, <2>2, ChoiceKept DEF NoTask
      <4>4. QED
        BY <1>6, <4>1, <4>2, <4>3 DEF NoTask, IsBest, NotAfter
    <3>7. QED
      BY <2>1, <3>2, <3>3, <3>4, <3>5, <3>6 DEF MainInv
  <2>7. QED
    BY <1>7, <2>3, <2>4, <2>5, <2>6 DEF SafeInv, FlowInv
<1>12. QED
  BY <1>10, <1>11 DEF Flows

\* The slots when one of them is loaded, by the flow that runs or in the handler.
Loadable(t, saved) ==
    /\ saved[t].flow \in Tasks => IsChoice(t)
    /\ \A u \in Tasks :
        /\ saved[u].flow \in Tasks => saved[u].label \in TaskLabels
        /\ saved[u].flow = Main =>
            /\ saved[u].label \notin {"work", "ticks"}
            /\ saved[u].label \in {"save", "load", "spin"} => scheduled
            /\ saved[u].label \in MainLabels =>
                  saved[u].label = pc[Main] /\
                  (saved[t].flow = Main => saved[t].label \in MainLabels)
        /\ \/ saved[u].flow \in {u, Main, Fault}
           \/ /\ u = t /\ saved[u].flow = running
              /\ saved[u].label \in {"reset", "load"}
        /\ taskPool[u].state = "READY" /\ saved[u].flow = u => saved[u].label = "work"
    /\ saved[t].flow \in Tasks => saved[t].flow = running \/ t \in Schedulable
    /\ running \in Tasks =>
        /\ saved[running].flow # Main
        /\ saved[t].flow = running =>
            /\ t = currentTask
            /\ t # running => t \in Schedulable /\ taskPool[running].state # "READY"
            /\ saved[t].label \in {"assign", "reset", "load"} => IsChoice(candidate[running])
            /\ saved[t].label \in {"reset", "load"} => t = candidate[running]

LEMMA LoadKeeps ==
    ASSUME TypeOK, FlowInv, running # Fault, NEW t \in Tasks,
           NEW saved \in [Tasks -> Context], Loadable(t, saved), Resume(t, saved),
           running' # Fault, SamePool, currentTask' = t,
           UNCHANGED <<requests, request, candidate, scheduled>>
    PROVE  LabelInv' /\ TaskInv' /\ OwnSlot'
<1> USE RequestTypes
<1> DEFINE label == saved[t].label
<1>1. /\ running' = saved[t].flow /\ running' \in Flows
      /\ \A f \in Flows : /\ f = running' => pc'[f] = label
                          /\ f # running' => pc'[f] = pc[f]
      /\ \A u \in Tasks :
            /\ stackPtr'[u].flow = saved[u].flow \/ stackPtr'[u].flow = Fault
            /\ stackPtr'[u].flow # Fault => stackPtr'[u].label = saved[u].label
            /\ stackPtr'[u].flow = running' =>
                /\ label \in SwitchLabels
                /\ stackPtr'[u].popped \/ stackPtr'[u].label = After(running')
  <2>1. running' \in Flows \cup {Fault}
    BY ResumeFacts
  <2>2. QED
    BY <2>1, ResumeFacts
<1>2. taskCount' = taskCount /\ \A u \in Tasks : taskPool'[u].state = taskPool[u].state
  BY DEF SamePool
<1>3. Schedulable' = Schedulable /\ (running' \in Tasks => IsChoice(t)')
  BY <1>1, ChoiceKept DEF Loadable
<1>4. LabelInv'
  <2>1. \A u \in Tasks : pc'[u] \in TaskLabels
    BY <1>1 DEF Loadable, FlowInv, LabelInv
  <2>2. /\ pc'[Main] \notin {"work", "ticks"}
        /\ pc'[Main] \in MainLabels => ~scheduled'
        /\ pc'[Main] \in {"save", "load", "spin"} => scheduled'
        /\ pc'[Main] \in CreateLabels => request' <= Len(requests') /\ taskCount' < MaxTasks
    <3>1. /\ pc[Main] \notin {"work", "ticks"}
          /\ pc[Main] \in MainLabels => ~scheduled
          /\ pc[Main] \in {"save", "load", "spin"} => scheduled
          /\ pc[Main] \in CreateLabels => request <= Len(requests) /\ taskCount < MaxTasks
      BY DEF FlowInv, LabelInv
    <3>2. CASE running' = Main
      <4>1. pc'[Main] = label /\ label \notin {"work", "ticks"}
            /\ (label \in MainLabels => label = pc[Main])
            /\ (label \in {"save", "load", "spin"} => scheduled)
        BY <1>1, <3>2 DEF Loadable
      <4>2. CreateLabels \subseteq MainLabels
        BY DEF CreateLabels
      <4>3. QED
        BY <1>2, <3>1, <4>1, <4>2
    <3>3. CASE running' # Main
      BY <1>1, <1>2, <3>1, <3>3
    <3>4. QED
      BY <3>2, <3>3
  <2>3. ASSUME NEW u \in Tasks
        PROVE  /\ stackPtr'[u].flow \in Tasks => stackPtr'[u].label \in TaskLabels
               /\ OfMain(u)' =>
                    /\ stackPtr'[u].label \notin {"work", "ticks"}
                    /\ stackPtr'[u].label \in {"save", "load", "spin"} => scheduled'
               /\ OfMain(u)' /\ stackPtr'[u].label \in MainLabels =>
                    running' # Main /\ stackPtr'[u].label = pc'[Main]
    <3>1. stackPtr'[u].flow \in Flows =>
            stackPtr'[u].flow = saved[u].flow /\ stackPtr'[u].label = saved[u].label
      BY <1>1
    <3>2. stackPtr'[u].flow \in Tasks => stackPtr'[u].label \in TaskLabels
      BY <3>1 DEF Loadable
    <3>3. OfMain(u)' => saved[u].flow = Main /\ stackPtr'[u].label = saved[u].label
      BY <3>1 DEF OfMain
    <3>4. SwitchLabels \cap MainLabels = {}
      BY DEF SwitchLabels, MainLabels
    <3>5. ASSUME OfMain(u)', stackPtr'[u].label \in MainLabels
          PROVE  running' # Main /\ stackPtr'[u].label = pc'[Main]
      <4>1. saved[u].label = pc[Main] /\ (saved[t].flow = Main => label \in MainLabels)
        BY <3>3, <3>5 DEF Loadable
      <4>2. running' # Main
        BY <1>1, <3>4, <3>5, <4>1 DEF OfMain
      <4>3. QED
        BY <1>1, <3>3, <3>5, <4>1, <4>2
    <3>6. QED
      BY <3>2, <3>3, <3>5 DEF Loadable
  <2>4. QED
    BY <2>1, <2>2, <2>3 DEF LabelInv
<1>5. TaskInv'
  <2>1. ASSUME NEW u \in Tasks
        PROVE  /\ taskPool'[u].state = "BLOCKED" => u < taskCount'
               /\ taskPool'[u].state = "READY" => pc'[u] = "work" /\
                    (stackPtr'[u].flow = u => stackPtr'[u].label = "work")
    <3>1. taskPool'[u].state = "BLOCKED" => u < taskCount'
      BY <1>2 DEF FlowInv, TaskInv
    <3>2. taskPool'[u].state = "READY" /\ stackPtr'[u].flow = u => stackPtr'[u].label = "work"
      BY <1>1, <1>2 DEF Loadable
    <3>3. ASSUME taskPool'[u].state = "READY" PROVE pc'[u] = "work"
      <4>1. CASE u # running'
        BY <1>1, <1>2, <3>3, <4>1 DEF FlowInv, TaskInv
      <4>2. CASE u = running' /\ u = t
        <5>1. saved[u].flow = u /\ taskPool[u].state = "READY"
          BY <1>1, <1>2, <3>3, <4>2
        <5>2. saved[u].label = "work"
          BY <5>1 DEF Loadable
        <5>3. QED
          BY <1>1, <4>2, <5>2
      <4>3. CASE u = running' /\ u # t
        <5>1. saved[t].flow = running /\ running = u
          BY <1>1, <4>3 DEF Loadable
        <5>2. QED
          BY <1>2, <3>3, <4>3, <5>1 DEF Loadable
      <4>4. QED
        BY <4>1, <4>2, <4>3
    <3>4. QED
      BY <3>1, <3>2, <3>3
  <2>2. ASSUME running' \in Tasks
        PROVE  /\ running' < taskCount'
               /\ stackPtr'[running'].flow # Main
               /\ label \notin {"reset", "load"} => t = running'
               /\ t # running' => t \in Schedulable
               /\ label = "work" => IsChoice(running)'
               /\ label \in {"assign", "reset", "load"} => IsChoice(candidate[running])'
               /\ label \in {"reset", "load"} => t = candidate'[running']
    <3>1. running' = saved[t].flow
      BY <1>1
    <3>2. CASE running' = running
      <4>1. running < taskCount /\ saved[running].flow # Main
        BY <2>2, <3>2 DEF FlowInv, TaskInv, Loadable
      <4>2. /\ t = currentTask
            /\ t # running => t \in Schedulable
            /\ label \in {"assign", "reset", "load"} => IsChoice(candidate[running])
            /\ label \in {"reset", "load"} => t = candidate[running]
            /\ label \notin {"reset", "load"} => t = running
        BY <2>2, <3>1, <3>2 DEF Loadable
      <4>3. label \in {"assign", "reset", "load"} => IsChoice(candidate[running])'
        <5>1. candidate[running] \in Tasks
          BY <2>2, <3>2 DEF TypeOK
        <5>2. label \in {"assign", "reset", "load"} => candidate[running] = Chosen
          BY <4>2, BestIsChosen
        <5>3. label \in {"assign", "reset", "load"} => candidate[running] = t
          BY <2>2, <3>1, <5>2, BestIsChosen DEF Loadable
        <5>4. candidate'[running'] = candidate[running]
          BY <3>2
        <5>5. QED
          BY <1>3, <2>2, <5>3, <5>4 DEF IsChoice, NotAfter
      <4>4. label = "work" => IsChoice(running)'
        BY <1>3, <3>2, <4>2 DEF IsChoice, NotAfter
      <4>5. stackPtr'[running'].flow # Main
        BY <1>1, <2>2, <3>2, <4>1
      <4>6. QED
        BY <1>2, <3>2, <4>1, <4>2, <4>3, <4>4, <4>5
    <3>3. CASE running' # running
      <4>1. running' = t /\ t \in Schedulable
        BY <2>2, <3>1, <3>3 DEF Loadable
      <4>2. t < taskCount /\ taskPool[t].state = "READY"
        BY <4>1 DEF Schedulable
      <4>3. label = "work"
        BY <3>1, <4>1, <4>2 DEF Loadable
      <4>4. stackPtr'[t].flow # Main
        <5>1. stackPtr'[t].flow = t \/ stackPtr'[t].flow = Fault
          BY <1>1, <3>1, <4>1
        <5>2. t # Main /\ Fault # Main
          BY <1>1, <2>2
        <5>3. QED
          BY <5>1, <5>2
      <4>5. IsChoice(running)'
        BY <1>3, <4>1 DEF IsChoice, NotAfter
      <4>6. QED
        BY <1>2, <4>1, <4>2, <4>3, <4>4, <4>5
    <3>4. QED
      BY <3>2, <3>3
  <2>3. running' \in Tasks => pc'[running'] = label
    BY <1>1
  <2>4. QED
    BY <1>3, <2>1, <2>2, <2>3 DEF TaskInv
<1>6. OwnSlot'
  <2>1. ASSUME NEW u \in Tasks, stackPtr'[u].flow \notin {u, Main, Fault}
        PROVE  /\ u = currentTask' /\ stackPtr'[u].flow = running'
               /\ stackPtr'[u].popped /\ stackPtr'[u].label \in {"reset", "load"}
    <3>1. stackPtr'[u].flow = saved[u].flow /\ stackPtr'[u].label = saved[u].label
      BY <1>1, <2>1
    <3>2. u = t /\ saved[u].label \in {"reset", "load"}
      BY <2>1, <3>1 DEF Loadable
    <3>3. stackPtr'[u].flow = running'
      BY <1>1, <3>1, <3>2
    <3>4. stackPtr'[u].label # After(running')
      BY <3>1, <3>2 DEF After
    <3>5. QED
      BY <1>1, <3>1, <3>2, <3>3, <3>4
  <2>2. QED
    BY <2>1 DEF OwnSlot
<1>7. QED
  BY <1>4, <1>5, <1>6

\* The slots that may hold main, when one of them is loaded.
MainLoadable(t, saved) ==
    /\ saved[t].flow \in Tasks => \A u \in Tasks : saved[u].flow = Main =>
        /\ Early => u = 0 /\ saved[u].label = pc[Main]
        /\ ~Early => u \notin Schedulable
    /\ saved[t].flow = Main =>
        /\ \A u \in Tasks : saved[u].flow = Main => Kept(u)
        /\ ~scheduled => \A u, v \in Tasks :
              saved[u].flow = Main /\ saved[v].flow = Main /\
              saved[u].label \in MainLabels \cup {"choose", "assign"} => v = 0
        /\ Kept(candidate[Main]) \/
              (~scheduled /\ saved[t].label \in MainLabels \cup {"choose"})
        /\ \/ ~scheduled /\ saved[t].label \in MainLabels \cup {"choose", "assign"}
           \/ saved[candidate[Main]].flow \in {Main, Fault} \/ IsBest(candidate[Main])

LEMMA MainLoaded ==
    ASSUME TypeOK, FlowInv, NEW t \in Tasks, NEW saved \in [Tasks -> Context],
           MainLoadable(t, saved), Resume(t, saved),
           running' # Fault, SamePool, currentTask' = t,
           UNCHANGED <<candidate, scheduled>>
    PROVE  MainInv'
<1> USE RequestTypes
<1> DEFINE label == saved[t].label
<1>1. /\ running' = saved[t].flow /\ running' \in Flows
      /\ \A f \in Flows : /\ f = running' => pc'[f] = label
                          /\ f # running' => pc'[f] = pc[f]
      /\ \A u \in Tasks :
            /\ stackPtr'[u].flow = saved[u].flow \/ stackPtr'[u].flow = Fault
            /\ stackPtr'[u].flow # Fault => stackPtr'[u].label = saved[u].label
            /\ stackPtr'[u].flow = running' =>
                /\ label \in SwitchLabels
                /\ stackPtr'[u].popped \/ stackPtr'[u].label = After(running')
  <2>1. running' \in Flows \cup {Fault}
    BY ResumeFacts
  <2>2. QED
    BY <2>1, ResumeFacts
<1>2. /\ Schedulable' = Schedulable
      /\ \A u \in Tasks : (Kept(u)' <=> Kept(u)) /\ (IsBest(u)' <=> IsBest(u))
  BY ChoiceKept
<1>3. \A u \in Tasks : OfMain(u)' =>
          saved[u].flow = Main /\ stackPtr'[u].label = saved[u].label
  BY <1>1 DEF OfMain
<1>4. candidate'[Main] = candidate[Main] /\ candidate[Main] \in Tasks
  BY DEF TypeOK
<1>5. CASE running' \in Tasks
  <2>1. pc'[Main] = pc[Main] /\ Early' = Early /\ saved[t].flow \in Tasks
    BY <1>1, <1>5 DEF Early
  <2>2. Early => \A u \in Tasks : OfMain(u)' => u = 0 /\ stackPtr'[u].label = pc[Main]
    BY <1>3, <2>1 DEF MainLoadable
  <2>3. ~Early => \A u \in Tasks : OfMain(u)' => u \notin Schedulable
    BY <1>3, <2>1 DEF MainLoadable
  <2>4. pc[Main] = "assign" /\ Early => Kept(candidate[Main])
    BY DEF FlowInv, MainInv
  <2>5. pc'[Main] = "assign" /\ Early' => Kept(candidate[Main])'
    BY <1>2, <1>4, <2>1, <2>4 DEF Kept, IsBest, NotAfter
  <2>6. Early => pc[Main] \in MainLabels \cup {"choose", "assign"}
    BY DEF Early
  <2>7. QED
    BY <1>2, <1>5, <2>1, <2>2, <2>3, <2>5, <2>6 DEF MainInv
<1>6. CASE running' = Main
  <2>1. pc'[Main] = label /\ saved[t].flow = Main
    BY <1>1, <1>6
  <2>2. ~scheduled => \A u, v \in Tasks :
              saved[u].flow = Main /\ saved[v].flow = Main /\
              saved[u].label \in MainLabels \cup {"choose", "assign"} => v = 0
    BY <2>1 DEF MainLoadable
  <2>3. Early' => t = 0 /\ \A u \in Tasks : OfMain(u)' =>
            u = 0 /\ stackPtr'[u].label \in MainLabels \cup {"choose", "assign"}
    <3>1. Early' => ~scheduled /\ label \in MainLabels \cup {"choose", "assign"}
      BY <2>1 DEF Early
    <3>2. QED
      BY <1>3, <2>1, <2>2, <3>1
  <2>4. Kept(candidate[Main])' \/ (~scheduled /\ label \in MainLabels \cup {"choose"})
    <3>1. Kept(candidate[Main]) \/ (~scheduled /\ label \in MainLabels \cup {"choose"})
      BY <2>1 DEF MainLoadable
    <3>2. QED
      BY <1>2, <1>4, <3>1 DEF Kept, IsBest, NotAfter
  <2>5. label \in MainLabels => \A u \in Tasks : ~OfMain(u)'
    BY <1>1, <1>6 DEF OfMain, MainLabels, SwitchLabels
  <2>6. \A u \in Tasks : saved[u].flow = Main => Kept(u)'
    BY <1>2, <2>1 DEF MainLoadable
  <2>7. \A u \in Tasks : OfMain(u)' =>
            Kept(u)' /\ (stackPtr'[u].popped \/ stackPtr'[u].label = "spin")
    BY <1>1, <1>3, <1>6, <2>6 DEF OfMain, After
  <2>8. ~Early' => Kept(currentTask)' /\ Kept(candidate[Main])'
    <3>1. Kept(t)'
      BY <2>1, <2>6
    <3>2. Kept(currentTask)'
      BY <3>1 DEF Kept, IsBest, NotAfter
    <3>3. ~Early' => Kept(candidate[Main])'
      BY <2>1, <2>4 DEF Early
    <3>4. QED
      BY <3>2, <3>3
  <2>9. NoTask(currentTask)'
    <3>1. stackPtr'[t].flow \in {Main, Fault}
      BY <1>1, <2>1
    <3>2. QED
      BY <3>1 DEF NoTask
  <2>10. ~Early' => NoTask(candidate[Main])' \/ IsBest(candidate[Main])'
    <3>1. ~Early' =>
              saved[candidate[Main]].flow \in {Main, Fault} \/ IsBest(candidate[Main])
      BY <2>1 DEF MainLoadable, Early
    <3>2. saved[candidate[Main]].flow \in {Main, Fault} => NoTask(candidate[Main])'
      BY <1>1, <1>4 DEF NoTask
    <3>3. IsBest(candidate[Main]) => IsBest(candidate[Main])'
      BY <1>2, <1>4 DEF IsBest, NotAfter
    <3>4. QED
      BY <3>1, <3>2, <3>3
  <2>11. ~scheduled' => \A u, v \in Tasks :
            OfMain(u)' /\ OfMain(v)' /\ stackPtr'[u].label \in {"choose", "assign"} => v = 0
    BY <1>3, <2>2
  <2>12. pc'[Main] = "assign" /\ Early' => Kept(candidate[Main])'
    BY <2>1, <2>4 DEF MainLabels
  <2>13. QED
    BY <1>6, <2>1, <2>3, <2>5, <2>7, <2>8, <2>9, <2>10, <2>11, <2>12 DEF MainInv
<1>7. QED
  BY <1>1, <1>5, <1>6 DEF Flows


LEMMA SwitchLoadable ==
    ASSUME TypeOK, FlowInv, NEW f \in Flows, Switch(f)
    PROVE  Loadable(currentTask, stackPtr) /\ MainLoadable(currentTask, stackPtr)
<1> USE RequestTypes
<1>1. running = f /\ pc[f] = "load" /\ currentTask \in Tasks /\ candidate[Main] \in Tasks
  BY DEF Switch, At, TypeOK
<1>2. ASSUME NEW u \in Tasks
      PROVE  /\ stackPtr[u].flow \in Tasks => stackPtr[u].label \in TaskLabels
             /\ stackPtr[u].flow = Main =>
                  /\ stackPtr[u].label \notin {"work", "ticks"}
                  /\ stackPtr[u].label \in {"save", "load", "spin"} => scheduled
                  /\ stackPtr[u].label \in MainLabels =>
                        running # Main /\ stackPtr[u].label = pc[Main]
             /\ \/ stackPtr[u].flow \in {u, Main, Fault}
                \/ /\ u = currentTask /\ stackPtr[u].flow = running
                   /\ stackPtr[u].label \in {"reset", "load"}
             /\ taskPool[u].state = "READY" =>
                  pc[u] = "work" /\ (stackPtr[u].flow = u => stackPtr[u].label = "work")
  <2>1. running # Fault
    BY <1>1
  <2>2. QED
    BY <2>1 DEF FlowInv, LabelInv, TaskInv, OwnSlot, OfMain
<1>3. CASE f \in Tasks
  <2>1. /\ IsChoice(currentTask) /\ currentTask = candidate[f]
        /\ stackPtr[f].flow # Main /\ (currentTask # f => currentTask \in Schedulable)
        /\ taskPool[f].state # "READY" /\ running # Main
    BY <1>1, <1>3 DEF FlowInv, TaskInv
  <2>2. Early => \A u \in Tasks : stackPtr[u].flow = Main =>
            /\ u = 0 /\ stackPtr[u].label = pc[Main]
            /\ stackPtr[u].label \in MainLabels \cup {"choose", "assign"}
    BY <1>1, <1>3 DEF FlowInv, MainInv, OfMain
  <2>3. ~Early => \A u \in Tasks : stackPtr[u].flow = Main => u \notin Schedulable
    BY <1>1, <1>3 DEF FlowInv, MainInv, OfMain
  <2>4. ASSUME NEW u \in Tasks, stackPtr[u].flow = Main, stackPtr[u].label \in MainLabels,
               stackPtr[currentTask].flow = Main
        PROVE  stackPtr[currentTask].label \in MainLabels
    <3>1. stackPtr[u].label = pc[Main] /\ ~scheduled
      BY <1>2, <2>4 DEF FlowInv, LabelInv
    <3>2. Early
      BY <2>4, <3>1 DEF Early
    <3>3. QED
      BY <1>1, <2>2, <2>4, <3>1, <3>2
  <2>5. stackPtr[currentTask].flow \in Tasks =>
            stackPtr[currentTask].flow = running \/ currentTask \in Schedulable
    BY <1>1, <1>2, <2>1
  <2>6. Loadable(currentTask, stackPtr)
    BY <1>1, <1>2, <1>3, <2>1, <2>4, <2>5 DEF Loadable
  <2>7. MainLoadable(currentTask, stackPtr)
    <3>1. ASSUME stackPtr[currentTask].flow = Main
          PROVE  /\ \A u \in Tasks : stackPtr[u].flow = Main => Kept(u) /\ u = 0
                 /\ ~scheduled /\ (Kept(candidate[Main]) \/
                        stackPtr[currentTask].label \in MainLabels \cup {"choose"})
                 /\ stackPtr[currentTask].label \in MainLabels \cup {"choose", "assign"}
      <4>1. currentTask \in Schedulable /\ Kept(currentTask)
        BY <2>1, <3>1, BestIsChosen
      <4>2. Early
        BY <1>1, <2>3, <3>1, <4>1
      <4>3. /\ currentTask = 0 /\ stackPtr[currentTask].label = pc[Main]
            /\ pc[Main] \in MainLabels \cup {"choose", "assign"}
        BY <1>1, <2>2, <3>1, <4>2
      <4>4. pc[Main] = "assign" => Kept(candidate[Main])
        BY <4>2 DEF FlowInv, MainInv
      <4>5. ~scheduled
        BY <4>2 DEF Early
      <4>6. \A u \in Tasks : stackPtr[u].flow = Main => u = currentTask
        BY <2>2, <4>2, <4>3
      <4>7. QED
        BY <4>1, <4>3, <4>4, <4>5, <4>6
    <3>2. QED
      BY <2>2, <2>3, <3>1 DEF MainLoadable
  <2>8. QED
    BY <2>6, <2>7
<1>4. CASE f = Main
  <2>1. scheduled /\ ~Early /\ running = Main /\ Main \notin Tasks
    BY <1>1, <1>4 DEF FlowInv, LabelInv, Early
  <2>2. /\ \A u \in Tasks : stackPtr[u].flow = Main => Kept(u)
        /\ Kept(candidate[Main])
        /\ stackPtr[currentTask].flow \in {Main, Fault} \/ IsBest(currentTask)
        /\ stackPtr[candidate[Main]].flow \in {Main, Fault} \/ IsBest(candidate[Main])
    BY <1>1, <1>4, <2>1 DEF FlowInv, MainInv, OfMain, NoTask, SwitchLabels
  <2>3. stackPtr[currentTask].flow \in Tasks =>
            /\ IsBest(currentTask) /\ IsChoice(currentTask) /\ currentTask \in Schedulable
            /\ \A u \in Tasks : stackPtr[u].flow = Main => u \notin Schedulable
    <3>1. stackPtr[currentTask].flow \in Tasks => IsBest(currentTask)
      BY <2>1, <2>2
    <3>2. IsBest(currentTask) => IsChoice(currentTask) /\ currentTask \in Schedulable
      BY BestIsChosen DEF IsBest
    <3>3. ASSUME NEW u \in Tasks, stackPtr[u].flow = Main, u \in Schedulable,
                 stackPtr[currentTask].flow \in Tasks
          PROVE  FALSE
      <4>1. IsBest(u)
        BY <2>2, <3>3 DEF Kept
      <4>2. u = currentTask
        BY <3>1, <3>3, <4>1, BestIsChosen
      <4>3. QED
        BY <2>1, <3>3, <4>2
    <3>4. QED
      BY <3>1, <3>2, <3>3
  <2>4. Loadable(currentTask, stackPtr)
    BY <1>2, <2>1, <2>3 DEF Loadable
  <2>5. MainLoadable(currentTask, stackPtr)
    BY <2>1, <2>2, <2>3 DEF MainLoadable
  <2>6. QED
    BY <2>4, <2>5
<1>5. QED
  BY <1>3, <1>4 DEF Flows

LEMMA SafeSwitch ==
    ASSUME TypeOK, FlowInv, NEW f \in Flows, Switch(f)
    PROVE  SafeInv'
<1>1. /\ currentTask \in Tasks /\ stackPtr \in [Tasks -> Context]
      /\ running # Fault /\ Resume(currentTask, stackPtr)
  BY RequestTypes DEF Switch, At, TypeOK
<1>2. /\ UNCHANGED <<requests, request, taskCount, taskPool, currentTask, candidate>>
      /\ UNCHANGED <<scheduled, bootTicks>>
  BY DEF Switch, createVars, scheduleVars
<1>3. /\ running' \in Flows \cup {Fault} /\ pc' \in [Flows -> Labels]
      /\ stackPtr' \in [Tasks -> Context]
  BY <1>1, ResumeFacts
<1>4. TypeOK'
  BY <1>2, <1>3 DEF TypeOK
<1>5. SamePool
  BY <1>2 DEF SamePool
<1>6. ASSUME running' # Fault PROVE FlowInv'
  BY <1>1, <1>2, <1>5, <1>6, SwitchLoadable, LoadKeeps, MainLoaded DEF FlowInv
<1>7. QED
  BY <1>4, <1>6 DEF SafeInv


\* A tick that does not end the slice.
LEMMA SliceGoesOn ==
    ASSUME TypeOK, FlowInv, SamePool,
           UNCHANGED <<requests, request, stackPtr, currentTask, running, pc>>,
           UNCHANGED <<candidate, scheduled>>
    PROVE  FlowInv'
<1>1. /\ Schedulable' = Schedulable
      /\ \A u \in Tasks : (Kept(u)' <=> Kept(u)) /\ (IsBest(u)' <=> IsBest(u))
      /\ \A u \in Tasks : IsChoice(u) => IsChoice(u)'
  BY ChoiceKept
<1>2. taskCount' = taskCount /\ \A u \in Tasks : taskPool'[u].state = taskPool[u].state
  BY DEF SamePool
<1>3. /\ currentTask \in Tasks
      /\ \A f \in Flows : candidate[f] \in Tasks
      /\ Main \in Flows /\ Tasks \subseteq Flows
  BY RequestTypes DEF TypeOK
<1>4. LabelInv'
  BY <1>2 DEF FlowInv, LabelInv, OfMain
<1>5. TaskInv'
  <2>1. ASSUME running \in Tasks
        PROVE  /\ IsChoice(running) => IsChoice(running)'
               /\ IsChoice(candidate[running]) => IsChoice(candidate[running])'
    <3>1. candidate[running] \in Tasks
      BY <1>3, <2>1
    <3>2. QED
      BY <1>1, <2>1, <3>1 DEF IsChoice, NotAfter
  <2>2. QED
    BY <1>1, <1>2, <2>1 DEF FlowInv, TaskInv
<1>6. OwnSlot'
  BY DEF FlowInv, OwnSlot
<1>7. MainInv'
  <2>1. /\ Early' = Early
        /\ \A u \in Tasks : OfMain(u)' = OfMain(u) /\ NoTask(u)' = NoTask(u)
    BY DEF Early, OfMain, NoTask
  <2>2. /\ Kept(candidate[Main])' <=> Kept(candidate[Main])
        /\ Kept(currentTask)' <=> Kept(currentTask)
        /\ IsBest(candidate[Main])' <=> IsBest(candidate[Main])
        /\ IsBest(currentTask)' <=> IsBest(currentTask)
        /\ NoTask(candidate[Main])' <=> NoTask(candidate[Main])
        /\ NoTask(currentTask)' <=> NoTask(currentTask)
    <3>1. candidate'[Main] = candidate[Main] /\ candidate[Main] \in Tasks
      BY <1>3
    <3>2. \A u \in Tasks :
            /\ u \in Schedulable' <=> u \in Schedulable
            /\ NoTask(u)' <=> NoTask(u)
      BY <1>1, <2>1
    <3>3. QED
      BY <1>1, <1>3, <3>1, <3>2 DEF Kept, IsBest, NotAfter, NoTask
  <2>3. QED
    BY <1>1, <2>1, <2>2 DEF FlowInv, MainInv
<1>8. QED
  BY <1>4, <1>5, <1>6, <1>7 DEF FlowInv

LEMMA ExpireLoadable ==
    ASSUME TypeOK, FlowInv, running # Fault,
           NEW context \in Contexts(running, pc[running]), NEW t \in Tasks, IsChoice(t)
    PROVE  /\ Saved(context) \in [Tasks -> Context]
           /\ Loadable(t, Saved(context)) /\ MainLoadable(t, Saved(context))
<1> USE RequestTypes
<1> DEFINE saved == Saved(context)
           label == pc[running]
<1>1. /\ running \in Flows /\ label \in Labels
      /\ currentTask \in Tasks /\ candidate[Main] \in Tasks
  BY DEF TypeOK
<1>2. /\ saved \in [Tasks -> Context]
      /\ saved[currentTask].label = label
      /\ saved[currentTask].flow = running \/
            (running = Main /\ saved[currentTask].flow = Fault)
      /\ \A u \in Tasks \ {currentTask} :
            /\ saved[u].flow = stackPtr[u].flow
            /\ saved[u].popped = stackPtr[u].popped
            /\ saved[u].label = stackPtr[u].label \/
                  (/\ stackPtr[u].popped /\ stackPtr[u].flow = saved[currentTask].flow
                   /\ saved[u].label = label)
            /\ stackPtr[u].popped /\ stackPtr[u].flow = saved[currentTask].flow =>
                  saved[u].label = label
  BY <1>1, SavedFacts
<1> HIDE DEF saved
<1>3. /\ t # currentTask => IsBest(t) /\ t \in Schedulable
      /\ Kept(t) /\ \A u : IsBest(u) \/ IsChoice(u) => u = t
  BY BestIsChosen DEF IsBest
<1>4. ASSUME NEW u \in Tasks
      PROVE  /\ stackPtr[u].flow \in Tasks => stackPtr[u].label \in TaskLabels
             /\ stackPtr[u].flow = Main =>
                  /\ stackPtr[u].label \notin {"work", "ticks"}
                  /\ stackPtr[u].label \in {"save", "load", "spin"} => scheduled
                  /\ stackPtr[u].label \in MainLabels =>
                        running # Main /\ stackPtr[u].label = pc[Main]
             /\ u # currentTask => stackPtr[u].flow \in {u, Main, Fault}
             /\ taskPool[u].state = "READY" =>
                  pc[u] = "work" /\ (stackPtr[u].flow = u => stackPtr[u].label = "work")
  BY DEF FlowInv, LabelInv, TaskInv, OwnSlot, OfMain
<1>5. CASE running \in Tasks
  <2>1. /\ saved[currentTask].flow = running /\ running # Main /\ label \in TaskLabels
        /\ running < taskCount /\ stackPtr[running].flow # Main
        /\ label \notin {"reset", "load"} => currentTask = running
        /\ currentTask # running => currentTask \in Schedulable
        /\ label \in {"assign", "reset", "load"} => IsChoice(candidate[running])
        /\ label \in {"reset", "load"} => currentTask = candidate[running]
    BY <1>2, <1>5 DEF FlowInv, LabelInv, TaskInv
  <2>2. currentTask # running => t = currentTask /\ label \in {"reset", "load"}
    BY <1>3, <2>1
  <2>3. \A u \in Tasks : saved[u].flow = Main =>
            stackPtr[u].flow = Main /\ saved[u].label = stackPtr[u].label
    BY <1>2, <2>1
  <2>4. Early => \A u \in Tasks : saved[u].flow = Main => u = 0 /\ saved[u].label = pc[Main]
    BY <1>5, <2>3 DEF FlowInv, MainInv, OfMain
  <2>5. ~Early => \A u \in Tasks : saved[u].flow = Main => u \notin Schedulable
    BY <1>5, <2>3 DEF FlowInv, MainInv, OfMain
  <2>6. ASSUME NEW u \in Tasks
        PROVE  /\ saved[u].flow \in Tasks => saved[u].label \in TaskLabels
               /\ saved[u].flow = Main =>
                    /\ saved[u].label \notin {"work", "ticks"}
                    /\ saved[u].label \in {"save", "load", "spin"} => scheduled
                    /\ saved[u].label \in MainLabels => saved[u].label = pc[Main]
               /\ \/ saved[u].flow \in {u, Main, Fault}
                  \/ /\ u = t /\ saved[u].flow = running
                     /\ saved[u].label \in {"reset", "load"}
               /\ taskPool[u].state = "READY" /\ saved[u].flow = u =>
                    saved[u].label = "work"
    <3>1. CASE u = currentTask
      BY <1>2, <1>4, <2>1, <2>2, <3>1
    <3>2. CASE u # currentTask
      BY <1>2, <1>4, <2>1, <3>2
    <3>3. QED
      BY <3>1, <3>2
  <2>7. ASSUME NEW u \in Tasks, saved[u].flow = Main, saved[u].label \in MainLabels,
               saved[t].flow = Main
        PROVE  saved[t].label \in MainLabels
    <3>1. saved[u].label = pc[Main] /\ ~scheduled
      BY <2>6, <2>7 DEF FlowInv, LabelInv
    <3>2. Early
      BY <2>7, <3>1 DEF Early
    <3>3. QED
      BY <2>4, <2>7, <3>1, <3>2
  <2>8. saved[t].flow = running => t = currentTask
    <3>1. SUFFICES ASSUME saved[t].flow = running, t # currentTask PROVE FALSE
      OBVIOUS
    <3>2. t = running
      BY <1>2, <1>4, <2>1, <3>1
    <3>3. QED
      BY <2>2, <3>1, <3>2
  <2>9. saved[t].flow = running =>
            /\ t # running => t \in Schedulable /\ taskPool[running].state # "READY"
            /\ saved[t].label \in {"assign", "reset", "load"} => IsChoice(candidate[running])
            /\ saved[t].label \in {"reset", "load"} => t = candidate[running]
    BY <1>2, <1>4, <1>5, <2>1, <2>2, <2>8
  <2>10. saved[running].flow # Main
    BY <1>2, <1>5, <2>1
  <2>11. saved[t].flow \in Tasks => saved[t].flow = running \/ t \in Schedulable
    BY <1>3, <2>1
  <2>12. Loadable(t, saved)
    BY <2>6, <2>7, <2>8, <2>9, <2>10, <2>11 DEF Loadable
  <2>13. MainLoadable(t, saved)
    <3>1. ASSUME saved[t].flow = Main
          PROVE  /\ \A u \in Tasks : saved[u].flow = Main => Kept(u) /\ u = 0
                 /\ ~scheduled /\ (Kept(candidate[Main]) \/
                        saved[t].label \in MainLabels \cup {"choose"})
                 /\ saved[t].label \in MainLabels \cup {"choose", "assign"}
      <4>1. Early
        BY <1>3, <2>1, <2>5, <3>1
      <4>2. t = 0 /\ saved[t].label = pc[Main] /\ ~scheduled
            /\ pc[Main] \in MainLabels \cup {"choose", "assign"}
        BY <2>4, <3>1, <4>1 DEF Early
      <4>3. pc[Main] = "assign" => Kept(candidate[Main])
        BY <4>1 DEF FlowInv, MainInv
      <4>4. \A u \in Tasks : saved[u].flow = Main => u = t
        BY <2>4, <4>1, <4>2
      <4>5. QED
        BY <1>3, <4>2, <4>3, <4>4
    <3>2. QED
      BY <2>4, <2>5, <3>1 DEF MainLoadable
  <2>14. QED
    BY <1>2, <2>12, <2>13 DEF saved
<1>6. CASE running = Main
  <2>1. /\ saved[currentTask].flow \in {Main, Fault} /\ running \notin Tasks
        /\ saved[currentTask].flow = Main \/ \A u \in Tasks \ {currentTask} :
              saved[u].flow = Main => saved[u].label = stackPtr[u].label
    BY <1>2, <1>6
  <2>2. /\ label \notin {"work", "ticks"}
        /\ label \in MainLabels => ~scheduled
        /\ label \in {"save", "load", "spin"} => scheduled
    BY <1>6 DEF FlowInv, LabelInv
  <2>3. /\ label \in MainLabels => \A u \in Tasks : stackPtr[u].flow # Main
        /\ \A u \in Tasks : stackPtr[u].flow = Main =>
              Kept(u) /\ (stackPtr[u].popped \/ stackPtr[u].label = "spin")
        /\ ~Early => Kept(currentTask) /\ Kept(candidate[Main])
        /\ Early => currentTask = 0 /\ \A u \in Tasks : stackPtr[u].flow = Main => u = 0
        /\ pc[Main] = "assign" /\ Early => Kept(candidate[Main])
        /\ ~Early =>
              \/ stackPtr[candidate[Main]].flow \in {Main, Fault} \/ IsBest(candidate[Main])
              \/ candidate[Main] = currentTask
        /\ ~scheduled => \A u, v \in Tasks :
              stackPtr[u].flow = Main /\ stackPtr[v].flow = Main
              /\ stackPtr[u].label \in {"choose", "assign"} => v = 0
    BY <1>6 DEF FlowInv, MainInv, OfMain, NoTask
  <2>4. ASSUME NEW u \in Tasks
        PROVE  /\ saved[u].flow \in Tasks => saved[u].label \in TaskLabels
               /\ saved[u].flow = Main =>
                    /\ saved[u].label \notin {"work", "ticks"}
                    /\ saved[u].label \in {"save", "load", "spin"} => scheduled
                    /\ saved[u].label \in MainLabels => u = currentTask /\ label \in MainLabels
               /\ saved[u].flow \in {u, Main, Fault}
               /\ taskPool[u].state = "READY" /\ saved[u].flow = u =>
                    saved[u].label = "work"
    <3>1. CASE u = currentTask
      BY <1>2, <2>1, <2>2, <3>1
    <3>2. CASE u # currentTask
      BY <1>2, <1>4, <1>6, <2>1, <2>2, <2>3, <3>2
    <3>3. QED
      BY <3>1, <3>2
  <2>5. label \in MainLabels => \A u \in Tasks : saved[u].flow = Main => u = currentTask
    BY <1>2, <2>3
  <2>6. saved[t].flow \in Tasks => t # currentTask /\ IsBest(t) /\ t \in Schedulable
    BY <1>3, <2>1
  <2>7. ASSUME NEW u \in Tasks, saved[u].flow = Main
        PROVE  (~Early \/ u # currentTask \/ u = t) => Kept(u)
    BY <1>2, <1>3, <2>3, <2>7
  <2>8. Loadable(t, saved)
    <3>1. ASSUME NEW u \in Tasks, saved[u].flow = Main, saved[u].label \in MainLabels
          PROVE  saved[u].label = pc[Main] /\
                 (saved[t].flow = Main => saved[t].label \in MainLabels)
      <4>1. u = currentTask /\ label \in MainLabels
        BY <2>4, <3>1
      <4>2. QED
        BY <1>2, <1>6, <2>5, <4>1
    <3>2. QED
      BY <2>1, <2>4, <2>6, <3>1 DEF Loadable
  <2>9. MainLoadable(t, saved)
    <3>1. ASSUME saved[t].flow \in Tasks, NEW u \in Tasks, saved[u].flow = Main
          PROVE  /\ Early => u = 0 /\ saved[u].label = pc[Main]
                 /\ ~Early => u \notin Schedulable
      <4>1. Early => u = 0 /\ u = currentTask
        BY <1>2, <2>3, <3>1
      <4>2. ~Early => Kept(u) /\ IsBest(t) /\ u # t
        BY <2>1, <2>6, <2>7, <3>1
      <4>3. QED
        BY <1>2, <1>3, <1>6, <4>1, <4>2 DEF Kept
    <3>2. ASSUME saved[t].flow = Main
          PROVE  /\ \A u \in Tasks : saved[u].flow = Main => Kept(u)
                 /\ ~scheduled => \A u, v \in Tasks :
                      saved[u].flow = Main /\ saved[v].flow = Main /\
                      saved[u].label \in MainLabels \cup {"choose", "assign"} => v = 0
                 /\ Kept(candidate[Main]) \/
                      (~scheduled /\ saved[t].label \in MainLabels \cup {"choose"})
                 /\ \/ ~scheduled /\ saved[t].label \in MainLabels \cup {"choose", "assign"}
                    \/ saved[candidate[Main]].flow \in {Main, Fault}
                    \/ IsBest(candidate[Main])
      <4>1. CASE Early
        <5>1. t = currentTask /\ currentTask = 0 /\ ~scheduled
              /\ \A u \in Tasks : saved[u].flow = Main => u = 0
          BY <1>2, <2>3, <3>2, <4>1 DEF Early
        <5>2. saved[t].label = pc[Main]
              /\ pc[Main] \in MainLabels \cup {"choose", "assign"}
          BY <1>2, <1>6, <4>1, <5>1 DEF Early
        <5>3. QED
          BY <1>3, <2>3, <4>1, <5>1, <5>2
      <4>2. CASE ~Early
        <5>1. \A u \in Tasks : saved[u].flow = Main => Kept(u)
          BY <2>7, <4>2
        <5>2. label \notin {"choose", "assign"} \cup MainLabels \/ scheduled
          BY <1>6, <4>2 DEF Early
        <5>3. ASSUME ~scheduled, NEW u \in Tasks, NEW v \in Tasks, saved[u].flow = Main,
                     saved[v].flow = Main,
                     saved[u].label \in MainLabels \cup {"choose", "assign"}
              PROVE  v = 0
          <6>1. u # currentTask /\ stackPtr[u].flow = Main
                /\ saved[u].label \in {"choose", "assign"}
                /\ stackPtr[u].label \in {"choose", "assign"}
            BY <1>2, <2>4, <5>2, <5>3
          <6>2. stackPtr[u].popped
            BY <2>3, <6>1
          <6>3. saved[currentTask].flow # Main
            <7>1. saved[currentTask].flow = Main => saved[u].label = label
              BY <1>2, <6>1, <6>2
            <7>2. QED
              BY <5>2, <5>3, <6>1, <7>1
          <6>4. v # currentTask /\ stackPtr[v].flow = Main
            BY <1>2, <5>3, <6>3
          <6>5. QED
            BY <2>3, <5>3, <6>1, <6>4
        <5>4. saved[candidate[Main]].flow \in {Main, Fault} \/ IsBest(candidate[Main])
          BY <1>1, <1>2, <2>1, <2>3, <4>2
        <5>5. QED
          BY <2>3, <4>2, <5>1, <5>3, <5>4
      <4>3. QED
        BY <4>1, <4>2
    <3>3. QED
      BY <3>1, <3>2 DEF MainLoadable
  <2>10. QED
    BY <1>2, <2>8, <2>9 DEF saved
<1>7. QED
  BY <1>1, <1>5, <1>6 DEF Flows


LEMMA SafeTick ==
    ASSUME TypeOK, FlowInv, SysTick
    PROVE  SafeInv'
<1>1. /\ running # Fault /\ currentTask \in Tasks
      /\ UNCHANGED <<requests, request, taskCount, candidate, scheduled>>
  BY DEF SysTick, createVars, TypeOK
<1>2. bootTicks' \in 0 .. BootTicks
  BY ConstantsAssumption DEF SysTick, TypeOK
<1>3. CASE UNCHANGED <<taskPool, currentTask, coreVars, pc>>
  <2>1. TypeOK'
    BY <1>1, <1>2, <1>3 DEF TypeOK, coreVars
  <2>2. FlowInv'
    BY <1>1, <1>3, SliceGoesOn DEF SamePool, coreVars
  <2>3. QED
    BY <2>1, <2>2 DEF SafeInv
<1>4. CASE Charge
  <2> DEFINE charged == [taskPool[currentTask] EXCEPT !.timeSlice = @ - 1]
  <2>1. /\ charged \in Task /\ charged.state = taskPool[currentTask].state
        /\ charged.priority = taskPool[currentTask].priority
    <3>1. taskPool[currentTask] \in Task /\ taskPool[currentTask].timeSlice - 1 \in Nat
      BY <1>1, <1>4 DEF Charge, TypeOK, Task
    <3>2. QED
      BY <3>1 DEF Task
  <2>2. taskPool' = [taskPool EXCEPT ![currentTask] = charged]
    BY <1>4 DEF Charge
  <2> HIDE DEF charged
  <2>3. taskPool' \in [Tasks -> Task] /\ SamePool
    BY <1>1, <2>1, <2>2 DEF SamePool, TypeOK
  <2>4. TypeOK'
    BY <1>1, <1>2, <1>4, <2>3 DEF Charge, TypeOK, coreVars
  <2>5. FlowInv'
    BY <1>1, <1>4, <2>3, SliceGoesOn DEF Charge, coreVars
  <2>6. QED
    BY <2>4, <2>5 DEF SafeInv
<1>5. CASE Expire
  <2>1. PICK t \in Tasks : t = Chosen /\ IsChoice(t)
    BY ChosenIsChoice
  <2>2. PICK context \in Contexts(running, pc[running]) : Resume(t, Saved(context))
    BY <1>5, <2>1 DEF Expire
  <2>3. currentTask' = t /\ taskPool' =
            [u \in Tasks |->
                IF u = t /\ u # currentTask
                THEN [taskPool[u] EXCEPT !.timeSlice = ResetSlice]
                ELSE IF u = currentTask THEN [taskPool[u] EXCEPT !.timeSlice = 0]
                ELSE taskPool[u]]
    BY <1>5, <2>1 DEF Expire
  <2>4. \A u \in Tasks, n \in Nat :
            /\ taskPool[u] \in Task
            /\ [taskPool[u] EXCEPT !.timeSlice = n] \in Task
            /\ [taskPool[u] EXCEPT !.timeSlice = n].state = taskPool[u].state
            /\ [taskPool[u] EXCEPT !.timeSlice = n].priority = taskPool[u].priority
    BY DEF TypeOK, Task
  <2>5. taskPool' \in [Tasks -> Task] /\ SamePool
    BY <1>1, <2>3, <2>4, ConstantsAssumption DEF SamePool
  <2>6. /\ Saved(context) \in [Tasks -> Context]
        /\ Loadable(t, Saved(context)) /\ MainLoadable(t, Saved(context))
    BY <1>1, <2>1, ExpireLoadable
  <2>7. /\ running' \in Flows \cup {Fault} /\ pc' \in [Flows -> Labels]
        /\ stackPtr' \in [Tasks -> Context]
    BY <2>2, <2>6, ResumeFacts
  <2>8. TypeOK'
    BY <1>1, <1>2, <2>3, <2>5, <2>7 DEF TypeOK
  <2>9. ASSUME running' # Fault PROVE FlowInv'
    BY <1>1, <2>2, <2>3, <2>5, <2>6, <2>9, LoadKeeps, MainLoaded DEF FlowInv
  <2>10. QED
    BY <2>8, <2>9 DEF SafeInv
<1>6. QED
  BY <1>3, <1>4, <1>5 DEF SysTick

LEMMA SafeStutter ==
    ASSUME SafeInv, UNCHANGED vars
    PROVE  SafeInv'
<1>1. TypeOK'
  BY DEF SafeInv, TypeOK, vars
<1>2. running # Fault => FlowInv'
  BY SliceGoesOn DEF SafeInv, SamePool, vars
<1>3. QED
  BY <1>1, <1>2 DEF SafeInv, vars

LEMMA SafeNext == SafeInv /\ [Next]_vars => SafeInv'
<1> SUFFICES ASSUME SafeInv, [Next]_vars PROVE SafeInv'
  OBVIOUS
<1>1. running # Fault => TypeOK /\ FlowInv
  BY DEF SafeInv
<1>2. Fault \notin Flows /\ Main \in Flows /\ Tasks \subseteq Flows
  BY RequestTypes DEF SafeInv
<1>3. CASE MainStep
  <2>1. running # Fault
    BY <1>2, <1>3 DEF MainStep, CreateFails, Create, Fill, InitStack, CountTask,
                      StartScheduler, At
  <2>2. QED
    BY <1>1, <1>3, <2>1, SafeMain
<1>4. ASSUME NEW f \in Flows, FlowStep(f) PROVE SafeInv'
  <2>1. running # Fault
    BY <1>2, <1>4 DEF FlowStep, SetTicks, KernelStep, Save, Choose, AssignNothing, Assign,
                      Reset, Switch, At
  <2>2. QED
    BY <1>1, <1>4, <2>1, SafeTicks, SafeSave, SafeChoose, SafeAssignNothing, SafeAssign,
       SafeReset, SafeSwitch DEF FlowStep, KernelStep
<1>5. ASSUME NEW t \in Tasks, Block(t) PROVE SafeInv'
  <2>1. running # Fault
    BY <1>2, <1>5 DEF Block, At
  <2>2. QED
    BY <1>1, <1>5, <2>1, SafeBlock
<1>6. CASE SysTick
  BY <1>1, <1>6, SafeTick DEF SysTick
<1>7. CASE UNCHANGED vars
  BY <1>7, SafeStutter
<1>8. QED
  BY <1>3, <1>4, <1>5, <1>6, <1>7 DEF Next, Halted

LEMMA AlwaysSafe == Spec => []SafeInv
<1>1. Init => SafeInv
  BY SafeInit
<1>2. SafeInv /\ [Next]_vars => SafeInv'
  BY SafeNext
<1>3. QED
  BY <1>1, <1>2, PTL DEF Spec


-----------------------------------------------------------------------------
(* If no slice ends before main is done.                                   *)

LEMMA BootInit == Init => BootInv
<1> SUFFICES ASSUME Init PROVE BootInv
  OBVIOUS
<1>1. \A t \in Tasks : taskPool[t].timeSlice = 0
  BY DEF Init
<1>2. Main \in Flows
  BY DEF Flows
<1>3. running = Main /\ pc[Main] = "create" /\ ~scheduled /\ currentTask = 0
  BY <1>2 DEF Init
<1>4. QED
  BY <1>1, <1>3 DEF BootInv, Early, SlicesLast, MainLabels

LEMMA BootMain ==
    ASSUME TypeOK, FlowInv, BootInv, MainStep
    PROVE  BootInv'
<1> SUFFICES ASSUME BootFits' PROVE BootInv'
  BY DEF BootInv
<1> USE RequestTypes
<1>1. /\ running = Main /\ running' = Main /\ pc[Main] \in MainLabels
      /\ UNCHANGED <<requests, currentTask, scheduled, bootTicks>>
  BY DEF MainStep, CreateFails, Create, Fill, InitStack, CountTask, StartScheduler, At,
         MainLabels, createVars, scheduleVars, coreVars
<1>2. pc'[Main] \in MainLabels \cup {"choose"}
  <2>1. pc \in [Flows -> Labels]
    BY DEF TypeOK
  <2>2. QED
    BY <1>1, <2>1 DEF MainStep, CreateFails, Create, Fill, InitStack, CountTask,
                      StartScheduler, Goto, MainLabels
<1>3. BootFits /\ ~scheduled /\ ~scheduled' /\ Early /\ Early'
  BY <1>1, <1>2 DEF BootFits, FlowInv, LabelInv, Early
<1>4. SlicesLast /\ currentTask = 0
  BY <1>1, <1>3 DEF BootInv
<1>5. SlicesLast'
  <2>1. CASE Fill
    <3>1. /\ pc[Main] = "fill" /\ request <= Len(requests) /\ taskCount \in Tasks
      BY <2>1 DEF Fill, At, FlowInv, LabelInv, CreateLabels, MainLabels
    <3>2. request \in DOMAIN requests /\ requests[request].timeSlice \in Nat
      BY <3>1 DEF TypeOK, TaskRequest
    <3>3. requests[request].timeSlice \notin 1 .. BootTicks
      BY <1>3, <3>2 DEF BootFits
    <3>4. BootTicks \in Nat /\ bootTicks \in Nat
      BY ConstantsAssumption DEF TypeOK
    <3>5. \/ requests[request].timeSlice = 0
          \/ requests[request].timeSlice > BootTicks - bootTicks
      BY <3>2, <3>3, <3>4
    <3>6. ASSUME NEW u \in Tasks
          PROVE  taskPool'[u].timeSlice =
                    IF u = taskCount THEN requests[request].timeSlice
                    ELSE taskPool[u].timeSlice
      <4>1. taskPool \in [Tasks -> Task] /\ taskPool[u] \in Task
        BY DEF TypeOK
      <4>2. QED
        BY <2>1, <3>1, <4>1 DEF Fill, Task
    <3>7. QED
      BY <1>1, <1>4, <3>5, <3>6 DEF SlicesLast
  <2>2. CASE ~Fill
    <3>1. taskPool' = taskPool
      BY <2>2 DEF MainStep, CreateFails, Create, InitStack, CountTask, StartScheduler
    <3>2. QED
      BY <1>1, <1>4, <3>1 DEF SlicesLast
  <2>3. QED
    BY <2>1, <2>2
<1>6. QED
  BY <1>1, <1>2, <1>3, <1>4, <1>5 DEF BootInv, MainLabels

LEMMA BootFlow ==
    ASSUME TypeOK, FlowInv, BootInv, NEW f \in Flows, FlowStep(f)
    PROVE  BootInv'
<1> SUFFICES ASSUME BootFits' PROVE BootInv'
  BY DEF BootInv
<1> USE RequestTypes
<1>1. BootFits /\ running = f /\ UNCHANGED <<taskCount, requests, bootTicks>>
  BY DEF FlowStep, SetTicks, KernelStep, Save, Choose, AssignNothing, Assign, Reset, Switch,
         At, BootFits, createVars
<1>2. f = Main /\ pc[Main] \notin MainLabels \cup {"ticks"} /\ currentTask \in Tasks
      /\ candidate[Main] \in Tasks
  <2>1. f = Main /\ pc[Main] \notin {"work", "ticks"}
    BY <1>1 DEF BootInv, FlowInv, LabelInv
  <2>2. pc[Main] \in SwitchLabels \cup {"save", "ticks"}
    BY <2>1 DEF FlowStep, SetTicks, KernelStep, Save, Choose, AssignNothing, Assign, Reset,
                Switch, At, SwitchLabels
  <2>3. QED
    BY <2>1, <2>2 DEF TypeOK, MainLabels, SwitchLabels
<1>3. /\ Early => SlicesLast /\ currentTask = 0
      /\ ~Early => IsChoice(currentTask)
      /\ pc[Main] \in {"assign", "reset", "load"} => IsChoice(candidate[Main])
      /\ scheduled /\ pc[Main] \in SwitchLabels => NoTask(currentTask)
  BY <1>1, <1>2 DEF BootInv
<1>4. pc \in [Flows -> Labels]
  BY DEF TypeOK
<1>5. SamePool
  <2>1. CASE Reset(Main)
    <3>1. taskPool' = [taskPool EXCEPT ![currentTask].timeSlice = ResetSlice]
      BY <2>1 DEF Reset
    <3>2. ASSUME NEW u \in Tasks
          PROVE  /\ taskPool'[u].state = taskPool[u].state
                 /\ taskPool'[u].priority = taskPool[u].priority
      <4>1. taskPool \in [Tasks -> Task] /\ taskPool[u] \in Task
        BY DEF TypeOK
      <4>2. CASE u = currentTask
        BY <1>2, <3>1, <4>1, <4>2 DEF Task
      <4>3. CASE u # currentTask
        BY <3>1, <4>1, <4>3
      <4>4. QED
        BY <4>2, <4>3
    <3>3. QED
      BY <1>1, <3>2 DEF SamePool
  <2>2. CASE ~Reset(Main)
    <3>1. taskPool' = taskPool
      BY <1>2, <2>2 DEF FlowStep, SetTicks, KernelStep, Save, Choose, AssignNothing, Assign,
                        Switch, At
    <3>2. QED
      BY <1>1, <3>1 DEF SamePool
  <2>3. QED
    BY <2>1, <2>2
<1>6. \A t \in Tasks : IsChoice(t) /\ (currentTask' = currentTask \/ t = currentTask') =>
          IsChoice(t)'
  BY <1>5, ChoiceKept
\* What is left to show of a step that keeps the core.
<1>7. ASSUME running' = Main,
             NEW c \in Tasks, candidate'[Main] = c, NEW t \in Tasks, currentTask' = t,
             Early' => SlicesLast' /\ t = 0,
             ~Early' => IsChoice(t), t = currentTask \/ c = t,
             pc'[Main] \in {"assign", "reset", "load"} => IsChoice(c),
             scheduled' /\ pc'[Main] \in SwitchLabels => NoTask(t)'
      PROVE  BootInv'
  <2>1. IsChoice(t) => IsChoice(t)'
    BY <1>6, <1>7
  <2>2. t = currentTask \/ c = t
    BY <1>7
  <2>3. IsChoice(c) => IsChoice(c)'
    BY <1>6, <1>7, <2>2
  <2>4. IsChoice(t)' => IsChoice(currentTask)'
    BY <1>7 DEF IsChoice, NotAfter
  <2>5. IsChoice(c)' => IsChoice(candidate[Main])'
    BY <1>7 DEF IsChoice, NotAfter
  <2>6. NoTask(t)' => NoTask(currentTask)'
    BY <1>7 DEF NoTask
  <2>7. QED
    BY <1>7, <2>1, <2>3, <2>4, <2>5, <2>6 DEF BootInv
<1>8. CASE Save(Main)
  <2>1. pc[Main] = "save" /\ ~Early /\ pc'[Main] = "choose"
    BY <1>4, <1>8 DEF Save, At, Goto, Early, MainLabels
  <2>2. PICK context \in Contexts(Main, After(Main)) : stackPtr' = Saved(context)
    BY <1>8 DEF Save
  <2>3. NoTask(currentTask)'
    <3>1. After(Main) \in Labels
      BY DEF After, Labels
    <3>2. context.flow \in {Main, Fault} /\ Saved(context)[currentTask] = context
      BY <3>1, SavedFacts
    <3>3. stackPtr'[currentTask].flow \in {Main, Fault} /\ currentTask' = currentTask
      BY <1>8, <2>2, <3>2 DEF Save, scheduleVars
    <3>4. QED
      BY <3>3 DEF NoTask
  <2>4. UNCHANGED <<currentTask, candidate, scheduled, running>> /\ ~Early'
    BY <1>8, <2>1 DEF Save, scheduleVars, Early, FlowInv, LabelInv
  <2>5. NoTask(currentTask)' => \A t \in Tasks : t = currentTask => NoTask(t)'
    BY <2>4 DEF NoTask
  <2>6. QED
    BY <1>1, <1>2, <1>3, <1>7, <2>1, <2>3, <2>4, <2>5
<1>9. CASE Choose(Main)
  <2>1. PICK c \in Tasks : c = Chosen /\ IsChoice(c)
    BY ChosenIsChoice
  <2>2. /\ candidate'[Main] = c /\ pc[Main] = "choose" /\ pc'[Main] = "assign"
        /\ UNCHANGED <<taskPool, currentTask, scheduled, stackPtr, running, bootTicks>>
    BY <1>4, <1>9, <2>1 DEF Choose, At, Goto, TypeOK, coreVars
  <2>3. (Early' <=> Early) /\ (SlicesLast' <=> SlicesLast)
    BY <2>2 DEF Early, SlicesLast
  <2>4. scheduled => NoTask(currentTask)'
    BY <1>3, <2>2 DEF NoTask, SwitchLabels
  <2>5. NoTask(currentTask)' => \A t \in Tasks : t = currentTask => NoTask(t)'
    BY <2>2 DEF NoTask
  <2>6. QED
    BY <1>1, <1>2, <1>3, <1>7, <2>1, <2>2, <2>3, <2>4, <2>5
<1>10. CASE AssignNothing(Main)
  <2>1. /\ pc[Main] = "assign" /\ candidate[Main] = currentTask
        /\ UNCHANGED <<taskPool, currentTask, candidate, stackPtr, running>>
        /\ scheduled' /\ pc'[Main] = (IF ~scheduled THEN "save" ELSE "load")
    BY <1>4, <1>10 DEF AssignNothing, At, Return, Scheduled, Goto, coreVars
  <2>2. ~Early' /\ IsChoice(currentTask)
    BY <1>3, <2>1 DEF Early
  <2>3. scheduled => \A t \in Tasks : t = currentTask => NoTask(t)'
    BY <1>3, <2>1 DEF NoTask, SwitchLabels
  <2>4. QED
    BY <1>1, <1>2, <1>7, <2>1, <2>2, <2>3 DEF SwitchLabels
<1>11. CASE Assign(Main)
  <2>1. /\ pc[Main] = "assign" /\ candidate[Main] # currentTask
        /\ currentTask' = candidate[Main] /\ UNCHANGED <<candidate, scheduled, running>>
        /\ pc'[Main] = "reset"
    BY <1>4, <1>11 DEF Assign, At, Goto, coreVars
  <2>2. IsChoice(candidate[Main])
    BY <1>3, <2>1
  <2>3. ~scheduled
    <3>1. scheduled => IsChoice(currentTask)
      BY <1>3 DEF Early
    <3>2. QED
      BY <2>1, <2>2, <3>1, BestIsChosen
  <2>4. ~Early' /\ ~scheduled'
    BY <2>1, <2>3 DEF Early, MainLabels
  <2>5. QED
    BY <1>1, <1>2, <1>7, <2>1, <2>2, <2>4
<1>12. CASE Reset(Main)
  <2>1. /\ pc[Main] = "reset"
        /\ UNCHANGED <<currentTask, candidate, stackPtr, running>>
        /\ scheduled' /\ pc'[Main] = (IF ~scheduled THEN "save" ELSE "load")
    BY <1>4, <1>12 DEF Reset, At, Return, Scheduled, Goto, coreVars
  <2>2. ~Early /\ ~Early'
    BY <2>1 DEF Early, MainLabels
  <2>3. scheduled => \A t \in Tasks : t = currentTask => NoTask(t)'
    BY <1>3, <2>1 DEF NoTask, SwitchLabels
  <2>4. QED
    BY <1>1, <1>2, <1>3, <1>7, <2>1, <2>2, <2>3 DEF SwitchLabels
<1>13. CASE Switch(Main)
  <2>1. /\ pc[Main] = "load" /\ scheduled /\ ~Early
        /\ UNCHANGED <<currentTask, candidate, scheduled>>
        /\ Resume(currentTask, stackPtr) /\ stackPtr \in [Tasks -> Context]
    BY <1>13 DEF Switch, At, Early, FlowInv, LabelInv, scheduleVars, TypeOK
  <2>2. stackPtr[currentTask].flow \in {Main, Fault}
    BY <1>3, <2>1 DEF NoTask, SwitchLabels
  <2>3. running' \in {Main, Fault} /\ stackPtr'[currentTask].flow \in {Main, Fault}
    BY <1>2, <2>1, <2>2, ResumeFacts
  <2>4. ~Early' /\ \A t \in Tasks : t = currentTask => NoTask(t)'
    BY <2>1, <2>3 DEF Early, NoTask
  <2>5. CASE running' = Main
    BY <1>2, <1>3, <1>7, <2>1, <2>4, <2>5
  <2>6. CASE running' = Fault
    BY <2>6 DEF BootInv
  <2>7. QED
    BY <2>3, <2>5, <2>6
<1>14. CASE SetTicks(f)
  BY <1>2, <1>14 DEF SetTicks, At
<1>15. QED
  BY <1>2, <1>8, <1>9, <1>10, <1>11, <1>12, <1>13, <1>14 DEF FlowStep, KernelStep


LEMMA BootTick ==
    ASSUME TypeOK, FlowInv, BootInv, SysTick
    PROVE  BootInv'
<1> SUFFICES ASSUME BootFits' PROVE BootInv'
  BY DEF BootInv
<1> USE RequestTypes
<1>1. /\ BootFits /\ running = Main /\ currentTask \in Tasks /\ candidate[Main] \in Tasks
      /\ UNCHANGED <<requests, request, taskCount, candidate, scheduled>>
  BY DEF SysTick, createVars, BootFits, BootInv, TypeOK
<1>2. /\ Early => SlicesLast /\ currentTask = 0
      /\ ~Early => IsChoice(currentTask)
      /\ pc[Main] \in {"assign", "reset", "load"} => IsChoice(candidate[Main])
      /\ scheduled /\ pc[Main] \in SwitchLabels => NoTask(currentTask)
  BY <1>1 DEF BootInv
<1>3. Early => Booting /\ bootTicks' = bootTicks + 1 /\ BootTicks - bootTicks >= 1
  <2>1. Early => Booting
    BY <1>1 DEF Early, Booting, MainLabels
  <2>2. BootTicks \in Nat /\ bootTicks \in 0 .. BootTicks
    BY ConstantsAssumption DEF TypeOK
  <2>3. QED
    BY <2>1, <2>2 DEF SysTick
<1>4. BootTicks \in Nat /\ bootTicks \in Nat /\ taskPool \in [Tasks -> Task]
      /\ \A u \in Tasks : taskPool[u].timeSlice \in Nat
  BY ConstantsAssumption DEF TypeOK, Task
\* The slice goes on.
<1>5. ASSUME SamePool, UNCHANGED <<currentTask, coreVars, pc>>, Early => SlicesLast'
      PROVE  BootInv'
  <2>1. IsChoice(currentTask) => IsChoice(currentTask)'
    <3>1. \A t \in Tasks : t = currentTask /\ IsChoice(t) => IsChoice(t)'
      BY <1>5, ChoiceKept
    <3>2. QED
      BY <1>1, <1>5, <3>1 DEF IsChoice, NotAfter
  <2>2. IsChoice(candidate[Main]) => IsChoice(candidate[Main])'
    <3>1. \A t \in Tasks : t = candidate[Main] /\ IsChoice(t) => IsChoice(t)'
      BY <1>5, ChoiceKept
    <3>2. QED
      BY <1>1, <3>1 DEF IsChoice, NotAfter
  <2>3. NoTask(currentTask)' = NoTask(currentTask) /\ Early' = Early
    BY <1>1, <1>5 DEF NoTask, Early, coreVars
  <2>4. QED
    BY <1>1, <1>2, <1>5, <2>1, <2>2, <2>3 DEF BootInv, coreVars
<1>6. CASE UNCHANGED <<taskPool, currentTask, coreVars, pc>>
  BY <1>1, <1>2, <1>3, <1>4, <1>5, <1>6 DEF SlicesLast, SamePool
<1>7. CASE Charge
  <2>1. \A u \in Tasks : taskPool'[u].timeSlice =
            IF u = currentTask THEN taskPool[u].timeSlice - 1 ELSE taskPool[u].timeSlice
    BY <1>1, <1>4, <1>7 DEF Charge, Task
  <2>2. SamePool
    BY <1>1, <1>4, <1>7 DEF Charge, SamePool, Task
  <2>3. Early => SlicesLast'
    <3>1. SUFFICES ASSUME Early, NEW u \in Tasks
                   PROVE  \/ taskPool'[u].timeSlice = 0
                          \/ taskPool'[u].timeSlice > BootTicks - bootTicks'
      BY DEF SlicesLast
    <3>2. taskPool[u].timeSlice = 0 \/ taskPool[u].timeSlice > BootTicks - bootTicks
      BY <1>2, <3>1 DEF SlicesLast
    <3>3. u = currentTask => taskPool[u].timeSlice > 1
      BY <1>7 DEF Charge
    <3>4. QED
      BY <1>3, <1>4, <2>1, <3>1, <3>2, <3>3
  <2>4. QED
    BY <1>5, <1>7, <2>2, <2>3 DEF Charge
<1>8. CASE Expire
  <2>1. ~Early
    BY <1>1, <1>2, <1>3, <1>4, <1>8 DEF SlicesLast, Expire
  <2>2. currentTask = Chosen /\ IsChoice(currentTask)
    BY <1>2, <2>1, BestIsChosen
  <2>3. PICK context \in Contexts(Main, pc[Main]) : Resume(currentTask, Saved(context))
    BY <1>1, <1>8, <2>2 DEF Expire
  <2>4. /\ currentTask' = currentTask
        /\ \A u \in Tasks : taskPool'[u] =
              IF u = currentTask THEN [taskPool[u] EXCEPT !.timeSlice = 0] ELSE taskPool[u]
    BY <1>8, <2>2 DEF Expire
  <2>5. SamePool
    BY <1>1, <1>4, <2>4 DEF SamePool, Task
  <2>6. /\ Saved(context) \in [Tasks -> Context]
        /\ Saved(context)[currentTask].flow \in {Main, Fault}
        /\ Saved(context)[currentTask].label = pc[Main]
    <3>1. pc[Main] \in Labels
      BY DEF TypeOK
    <3>2. QED
      BY <3>1, SavedFacts
  <2>7. /\ running' \in {Main, Fault} /\ stackPtr'[currentTask].flow \in {Main, Fault}
        /\ running' = Main => pc'[Main] = pc[Main]
    BY <1>1, <2>3, <2>6, ResumeFacts
  <2>8. running' = Main => ~Early' /\ NoTask(currentTask)'
    BY <1>1, <2>1, <2>4, <2>7 DEF Early, NoTask
  <2>9. \A t \in Tasks : IsChoice(t) => IsChoice(t)'
    BY <2>4, <2>5, ChoiceKept
  <2>10. IsChoice(currentTask)'
    <3>1. \A t \in Tasks : t = currentTask => IsChoice(t)'
      BY <2>2, <2>9
    <3>2. QED
      BY <1>1, <2>4, <3>1 DEF IsChoice, NotAfter
  <2>11. IsChoice(candidate[Main]) => IsChoice(candidate[Main])'
    <3>1. \A t \in Tasks : t = candidate[Main] /\ IsChoice(t) => IsChoice(t)'
      BY <2>9
    <3>2. QED
      BY <1>1, <3>1 DEF IsChoice, NotAfter
  <2>12. QED
    BY <1>2, <2>7, <2>8, <2>10, <2>11 DEF BootInv
<1>9. QED
  BY <1>6, <1>7, <1>8 DEF SysTick

LEMMA BootStutter ==
    ASSUME BootInv, UNCHANGED vars
    PROVE  BootInv'
<1>1. UNCHANGED <<requests, taskPool, stackPtr, taskCount, currentTask>>
      /\ UNCHANGED <<running, pc, candidate, scheduled, bootTicks>>
  BY DEF vars
<1>2. BootFits' = BootFits /\ Early' = Early /\ SlicesLast' = SlicesLast
  BY <1>1 DEF BootFits, Early, SlicesLast
<1>3. \A t : IsChoice(t)' <=> IsChoice(t)
  BY <1>1 DEF IsChoice, Schedulable, NotAfter
<1>4. QED
  BY <1>1, <1>2, <1>3 DEF BootInv, NoTask, IsChoice, Schedulable, NotAfter

LEMMA BootNext == SafeInv /\ BootInv /\ [Next]_vars => BootInv'
<1> SUFFICES ASSUME SafeInv, BootInv, [Next]_vars PROVE BootInv'
  OBVIOUS
<1>1. running # Fault => TypeOK /\ FlowInv
  BY DEF SafeInv
<1>2. Fault \notin Flows /\ Main \in Flows /\ Tasks \subseteq Flows /\ Main \notin Tasks
  BY RequestTypes DEF SafeInv
<1>3. CASE MainStep
  <2>1. running # Fault
    BY <1>2, <1>3 DEF MainStep, CreateFails, Create, Fill, InitStack, CountTask,
                      StartScheduler, At
  <2>2. QED
    BY <1>1, <1>3, <2>1, BootMain
<1>4. ASSUME NEW f \in Flows, FlowStep(f) PROVE BootInv'
  <2>1. running # Fault
    BY <1>2, <1>4 DEF FlowStep, SetTicks, KernelStep, Save, Choose, AssignNothing, Assign,
                      Reset, Switch, At
  <2>2. QED
    BY <1>1, <1>4, <2>1, BootFlow
<1>5. ASSUME NEW t \in Tasks, Block(t) PROVE BootInv'
  BY <1>2, <1>5 DEF Block, At, BootInv, BootFits, createVars, coreVars
<1>6. CASE SysTick
  BY <1>1, <1>6, BootTick DEF SysTick
<1>7. CASE UNCHANGED vars
  BY <1>7, BootStutter
<1>8. QED
  BY <1>3, <1>4, <1>5, <1>6, <1>7 DEF Next, Halted

LEMMA AlwaysBooting == Spec => []BootInv
<1>1. Init => BootInv
  BY BootInit
<1>2. SafeInv /\ BootInv /\ [Next]_vars => BootInv'
  BY BootNext
<1>3. QED
  BY <1>1, <1>2, AlwaysSafe, PTL DEF Spec

-----------------------------------------------------------------------------
(* The theorems.                                                           *)

\* Every variable keeps its type: taskCount stays within the pool, currentTask is an
\* index of it, and a slot leads to a flow or nowhere, however SysTick interleaves.
THEOREM AutosarTypes == Spec => []TypeOK
<1>1. SafeInv => TypeOK
  BY DEF SafeInv
<1>2. QED
  BY <1>1, AlwaysSafe, PTL

\* The task that works is the one that is charged for the ticks and that os_delay
\* blocks, although the save before schedule and a tick after the assignment to
\* currentTask put flows into slots that are not their own.
THEOREM TheCurrentTaskWorks == Spec => []CurrentTaskWorks
<1>1. SafeInv => CurrentTaskWorks
  <2>1. \A t \in Tasks : t # Fault
    BY ConstantsAssumption DEF Tasks, Fault
  <2>2. QED
    BY <2>1 DEF SafeInv, FlowInv, TaskInv, CurrentTaskWorks, Working
<1>2. QED
  BY <1>1, AlwaysSafe, PTL

\* The task that works is a most urgent READY one, if schedule can choose any, and so
\* it stays when its slice ends.
THEOREM TheMostUrgentWorks == Spec => []MostUrgentWorks
<1>1. SafeInv => MostUrgentWorks
  <2> SUFFICES ASSUME SafeInv, Working, NEW t \in Tasks, Waiting(t)
               PROVE  /\ taskPool[running].state = "READY"
                      /\ taskPool[running].priority <= taskPool[t].priority
    BY DEF MostUrgentWorks
  <2>1. t \in Schedulable
    BY DEF Waiting, Schedulable
  <2>2. running \in Tasks /\ TypeOK /\ IsChoice(running)
    <3>1. \A u \in Tasks : u # Fault
      BY ConstantsAssumption DEF Tasks, Fault
    <3>2. QED
      BY <3>1 DEF SafeInv, FlowInv, TaskInv, Working
  <2>3. running \in Schedulable /\ NotAfter(running, t)
    BY <2>1, <2>2 DEF IsChoice
  <2>4. QED
    BY <2>1, <2>2, <2>3, TaskFacts DEF NotAfter, Schedulable
<1>2. QED
  BY <1>1, AlwaysSafe, PTL

\* The slot of a task holds that task or main, but for a flow that a tick saved in
\* the slot of the task schedule found, and that went on at once.
THEOREM SlotsHoldTheirOwn == Spec => []OwnSlot
<1>1. SafeInv => OwnSlot
  BY DEF SafeInv, FlowInv, OwnSlot
<1>2. QED
  BY <1>1, AlwaysSafe, PTL

\* The candidate that a flow stores is still the one schedule would find, in a task
\* always, in main if no slice ends before it is done.
THEOREM TheCandidateIsFresh == Spec => []CandidateFresh
<1>1. SafeInv /\ BootInv => CandidateFresh
  <2> SUFFICES ASSUME SafeInv, BootInv, NEW f \in Flows, At(f, "assign"), f = Main => BootFits
               PROVE  candidate[f] = Chosen
    BY DEF CandidateFresh
  <2>1. TypeOK /\ FlowInv
    BY RequestTypes DEF SafeInv, At
  <2>2. IsChoice(candidate[f])
    BY <2>1 DEF FlowInv, TaskInv, BootInv, At, Flows
  <2>3. QED
    BY <2>1, <2>2, BestIsChosen
<1>2. QED
  BY <1>1, AlwaysSafe, AlwaysBooting, PTL

\* If no slice ends before main is done, no task ever has the core: the save before
\* schedule puts main in the slot that main's own switch_context then loads.
THEOREM MainKeepsTheCore == Spec => []MainKeepsCore
<1>1. BootInv => MainKeepsCore
  BY DEF BootInv, MainKeepsCore
<1>2. QED
  BY <1>1, AlwaysBooting, PTL


=============================================================================
