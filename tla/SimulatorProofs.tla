--------------------------- MODULE SimulatorProofs ---------------------------
(***************************************************************************)
(* What Simulator guarantees for every set of tasks, every number of CPUs  *)
(* and descriptors, whichever system calls fail.                           *)
(***************************************************************************)
EXTENDS Simulator, NaturalsInduction, WellFoundedInduction, FiniteSetTheorems, TLAPS

BuildLabels == {"epoll", "events", "cleanup", "freeEpoll", "deinit",
                "createTiming", "createScheduler", "wait"}
ThreadLabels == {"createTiming", "createScheduler", "wait"}

\* The life of the schedulers: which of them have threads, and what those use.
Unloaded ==
    pc = "load" => /\ cpu = 0
                   /\ \A c \in Cpus : tasks[c] = <<>> /\ event_fds[c] = <<>>
Untouched(c) ==
    /\ pc \in {"load", "next"} /\ c >= cpu => status[c] = "none"
    /\ pc \in BuildLabels /\ c > cpu => status[c] = "none"
Building(c) ==
    /\ pc \in BuildLabels /\ c = cpu => status[c] = "building"
    /\ status[c] = "building" => /\ c = cpu /\ pc \in BuildLabels \cup {"gone"}
                                 /\ tasks[c] # <<>>
    /\ status[c] = "building" /\ Threaded(c) =>
            pc \in {"createScheduler", "wait", "gone"}
Unthreaded(c) == status[c] \in {"none", "failed"} => ~Threaded(c)
Created(c) ==
    status[c] = "created" => thread[c] = "up" /\ timing[c] # "none" /\ tasks[c] # <<>>
Timed(c) ==
    /\ thread[c] # "none" => timing[c] # "none"
    /\ pc \in {"createScheduler", "wait"} /\ c = cpu => timing[c] # "none"
    /\ timing[c] = "ended" => c \in unsetTid
Armed(c) == armed[c] # {} => status[c] = "created" /\ armed[c] = Timers(c)
Freed(c) ==
    c \in freed => pc \in {"destroy", "gone"} /\ status[c] \in {"none", "failed"}

LifeOf(c) ==
    /\ Untouched(c) /\ Building(c) /\ Unthreaded(c) /\ Created(c)
    /\ Timed(c) /\ Armed(c) /\ Freed(c)

LifeInv ==
    /\ Unloaded
    /\ pc \in BuildLabels => cpu \in Cpus
    /\ \A c \in Cpus : LifeOf(c)

\* The descriptors a scheduler has written down: of all of its events when it has
\* threads, and of none before it is built.
Whole(c) == event_fds[c] \in Seq(Fds) /\ Len(event_fds[c]) = NumEvents(c)
FullOf(c) ==
    /\ status[c] = "none" => event_fds[c] = <<>>
    /\ status[c] = "created" => Whole(c)
    /\ status[c] = "building" =>
        /\ pc = "epoll" => event_fds[c] = <<>>
        /\ pc = "events" => event_fds[c] \in Seq(Fds)
        /\ pc \in ThreadLabels \/ Threaded(c) => Whole(c)
FullInv == \A c \in Cpus : FullOf(c)

\* The descriptors of one scheduler, in the phases of its creation.
NodesOf(c, indices) == {[fd |-> event_fds[c][i], index |-> i] : i \in indices}
NoEvents(c) ==
    /\ event_fds[c] = <<>> /\ nodes[c] = {} /\ epoll[c] = {} /\ Owned(c) = {}
    /\ timerFailed[c] = 0
EventsOpen(c) ==
    /\ event_fds[c] \in Seq(Fds) /\ IsInjective(event_fds[c])
    /\ epoll_fd[c] \in Fds \ Range(event_fds[c])
    /\ nodes[c] = NodesOf(c, DOMAIN event_fds[c])
    /\ epoll[c] = Range(event_fds[c])
    /\ Owned(c) = Range(event_fds[c]) \cup {epoll_fd[c]}
    /\ timerFailed[c] = 0
AllEvents(c) == EventsOpen(c) /\ Len(event_fds[c]) = NumEvents(c)
Failing(c) ==
    /\ epoll_fd[c] \in Fds \ Range(event_fds[c])
    /\ \A n \in nodes[c] : n.fd \in Range(event_fds[c]) \ {NoFd}
    /\ Owned(c) = (Range(event_fds[c]) \ {NoFd}) \cup {epoll_fd[c]}
    /\ timerFailed[c] = 0
LeftIndices(c) == 1 .. timerFailed[c] - 1
LeftOver(c) == {event_fds[c][i] : i \in LeftIndices(c)}
Closing(c) ==
    /\ epoll_fd[c] \in Fds /\ epoll_fd[c] \notin LeftOver(c)
    /\ Owned(c) \ {epoll_fd[c]} = LeftOver(c)
    /\ nodes[c] = NodesOf(c, LeftIndices(c))
Released(c) ==
    /\ Owned(c) = LeftOver(c)
    /\ nodes[c] = NodesOf(c, LeftIndices(c))

FdsOf(c) ==
    /\ status[c] = "none" => NoEvents(c)
    /\ status[c] = "created" => AllEvents(c)
    /\ status[c] = "failed" => Released(c)
    /\ status[c] = "building" =>
        /\ pc = "epoll" => NoEvents(c)
        /\ pc = "events" => EventsOpen(c)
        /\ pc = "cleanup" => Failing(c)
        /\ pc = "freeEpoll" => Closing(c)
        /\ pc = "deinit" => Released(c)
        /\ pc \in ThreadLabels => AllEvents(c)
        /\ pc = "gone" /\ Threaded(c) => AllEvents(c)

FdInv == ~stray => \A c \in Cpus : FdsOf(c)

SafeInv == TypeOK /\ LifeInv /\ FullInv /\ FdInv

-----------------------------------------------------------------------------

\* A set of numbers with an upper bound has a greatest element, which Max chooses.
LEMMA MaxOfBounded ==
    ASSUME NEW B \in Nat, NEW S, S \subseteq 0 .. B, S # {}
    PROVE  Max(S) \in S
<1> DEFINE R == {B - x : x \in S}
<1>1. R \subseteq Nat /\ \E r \in R : TRUE
  <2>1. \A x \in S : x \in 0 .. B /\ B - x \in Nat
    OBVIOUS
  <2>2. PICK x \in S : TRUE
    OBVIOUS
  <2>3. B - x \in R
    BY <2>2
  <2>4. QED
    BY <2>1, <2>3
<1> HIDE DEF R
<1>2. PICK r \in R : \A i \in R : <<i, r>> \notin OpToRel(<, Nat)
  BY <1>1, NatLessThanWellFounded, WFMin
<1>3. \A i \in R : ~(i < r)
  BY <1>1, <1>2 DEF OpToRel
<1>4. B - r \in S /\ \A y \in S : B - r >= y
  <2>1. PICK x \in S : r = B - x
    BY DEF R
  <2>2. ASSUME NEW y \in S PROVE B - y \in R /\ y \in 0 .. B
    BY DEF R
  <2>3. x \in 0 .. B /\ B - r = x
    BY <2>1
  <2>4. ASSUME NEW y \in S PROVE B - r >= y
    <3>1. ~(B - y < B - x) /\ y \in 0 .. B
      BY <1>3, <2>1, <2>2
    <3>2. QED
      BY <3>1, <2>3
  <2>5. QED
    BY <2>3, <2>4
<1>5. QED
  BY <1>4 DEF Max

\* Some tasks have a largest table id.
LEMMA LargestTable ==
    ASSUME NEW info \in InfoSets, NEW q \in Seq(DOMAIN info), q # <<>>
    PROVE  Max({info[t].table_id : t \in Range(q)}) \in Nat
<1> DEFINE ids == {info[t].table_id : t \in Range(q)}
           Info == [cpu : Nat, table_id : 0 .. MaxTableId]
<1>1. info \in Seq(Info) /\ MaxTableId \in Nat
  BY SimulatorAssumption
<1>2. Range(q) \subseteq DOMAIN info /\ Range(q) # {}
  BY DEF Range
<1>3. \A t \in DOMAIN info : info[t].table_id \in 0 .. MaxTableId
  <2> HIDE DEF Info
  <2>1. \A t \in DOMAIN info : info[t] \in Info
    BY <1>1
  <2>2. QED
    BY <2>1 DEF Info
<1>4. ids \subseteq 0 .. MaxTableId /\ ids # {}
  BY <1>2, <1>3
<1>5. Max(ids) \in 0 .. MaxTableId
  BY <1>1, <1>4, MaxOfBounded
<1>6. QED
  BY <1>1, <1>5

\* A CPU with tasks has a number of tables and of events.
LEMMA TablesNumber ==
    ASSUME infos \in InfoSets, NEW c \in Cpus, tasks[c] \in Seq(DOMAIN infos),
           tasks[c] # <<>>
    PROVE  NumTables(c) \in Nat \ {0} /\ NumEvents(c) = NumTables(c) + 2
<1> DEFINE largest == Max({infos[t].table_id : t \in Range(tasks[c])})
<1>1. largest \in Nat
  BY LargestTable
<1>2. NumTables(c) = largest + 1 /\ NumEvents(c) = NumTables(c) + 2
  BY DEF NumTables, NumEvents, NativeEventNum
<1> HIDE DEF largest
<1>3. QED
  BY <1>1, <1>2

LEMMA CpuTypes == Cpus \subseteq Nat /\ NumCpus \in Nat \ {0} /\ 0 \in Cpus
BY SimulatorAssumption DEF Cpus

LEMMA FdTypes == Fds \subseteq Nat /\ NoFd \notin Fds /\ Nobody \notin Cpus /\ Std \notin Cpus
BY SimulatorAssumption DEF Fds, NoFd, Nobody, Std, Cpus

-----------------------------------------------------------------------------

LEMMA LifeInit == Init => LifeInv
BY CpuTypes DEF Init, LifeInv, LifeOf, Unloaded, Untouched, Building, Unthreaded, Created,
   Timed, Armed, Freed, Threaded, BuildLabels

\* The part of TypeOK that the life of the schedulers depends on.
LifeTypes ==
    /\ cpu \in 0 .. NumCpus
    /\ status \in [Cpus -> {"none", "building", "created", "failed"}]
    /\ armed \in [Cpus -> SUBSET Fds]
    /\ timing \in [Cpus -> {"none", "bind", "loop", "ended"}]
    /\ thread \in [Cpus -> {"none", "init", "up"}]
    /\ DOMAIN event_fds = Cpus /\ DOMAIN tasks = Cpus

LEMMA LifeTyped == TypeOK => LifeTypes
<1> SUFFICES ASSUME TypeOK PROVE LifeTypes
  OBVIOUS
<1>1. DOMAIN event_fds = Cpus /\ DOMAIN tasks = Cpus
  BY DEF TypeOK
<1>2. QED
  BY <1>1 DEF TypeOK, LifeTypes

\* Timers depends on what load_tasks loaded and on the CPU's own descriptors.
LEMMA TimersKept ==
    ASSUME NEW c \in Cpus, UNCHANGED <<infos, tasks>>, event_fds'[c] = event_fds[c]
    PROVE  Timers(c)' = Timers(c)
BY DEF Timers, NumTables

LEMMA LifeMain == TypeOK /\ LifeInv /\ MainStep => LifeInv'
<1> SUFFICES ASSUME TypeOK, LifeInv, MainStep PROVE LifeInv'
  OBVIOUS
<1> USE CpuTypes, LifeTyped DEF LifeTypes, LifeInv, LifeOf, Unloaded, Untouched, Building,
      Unthreaded, Created, Timed, Armed, Freed, Threaded, BuildLabels
<1>1. CASE Load
  BY <1>1, TimersKept DEF Load, NextCpu, simulatorVars, fdVars, threadVars
<1>2. CASE Skip
  BY <1>2, TimersKept DEF Skip, NextCpu, simulatorVars, fdVars, threadVars
<1>3. CASE InitScheduler
  BY <1>3, TimersKept DEF InitScheduler, NextCpu, simulatorVars, fdVars, threadVars
<1>4. CASE AllCreated
  BY <1>4, TimersKept DEF AllCreated, NextCpu, simulatorVars, fdVars, threadVars
<1>5. CASE CreateEpoll
  BY <1>5, TimersKept DEF CreateEpoll, NextCpu, simulatorVars, fdVars, threadVars
<1>6. CASE EpollFails
  BY <1>6, TimersKept DEF EpollFails, NextCpu, simulatorVars, fdVars, threadVars
<1>7. CASE AddEvent
  BY <1>7, TimersKept DEF AddEvent, NextCpu, simulatorVars, fdVars, threadVars
<1>8. CASE CtlFails
  BY <1>8, TimersKept DEF CtlFails, NextCpu, simulatorVars, fdVars, threadVars
<1>9. CASE TimerFails
  BY <1>9, TimersKept DEF TimerFails, NextCpu, simulatorVars, fdVars, threadVars
<1>10. CASE EventFails
  BY <1>10, TimersKept DEF EventFails, NextCpu, simulatorVars, fdVars, threadVars
<1>11. CASE EventsCreated
  BY <1>11, TimersKept DEF EventsCreated, NextCpu, simulatorVars, fdVars, threadVars
<1>12. CASE Cleanup
  BY <1>12, TimersKept DEF Cleanup, NextCpu, simulatorVars, fdVars, threadVars
<1>13. CASE FreeEpoll
  BY <1>13, TimersKept DEF FreeEpoll, NextCpu, simulatorVars, fdVars, threadVars
<1>14. CASE Deinit
  BY <1>14, TimersKept DEF Deinit, NextCpu, simulatorVars, fdVars, threadVars
<1>15. CASE CreateTimingThread
  BY <1>15, TimersKept DEF CreateTimingThread, NextCpu, simulatorVars, fdVars, threadVars
<1>16. CASE CreateSchedulerThread
  BY <1>16, TimersKept DEF CreateSchedulerThread, NextCpu, simulatorVars, fdVars, threadVars
<1>17. CASE ThreadFails
  BY <1>17, TimersKept DEF ThreadFails, NextCpu, simulatorVars, fdVars, threadVars
<1>18. CASE InitComplete
  BY <1>18, TimersKept DEF InitComplete, NextCpu, simulatorVars, fdVars, threadVars
<1>19. CASE Run
  BY <1>19, TimersKept DEF Run, NextCpu, simulatorVars, fdVars, threadVars
<1>20. CASE Destroy
  BY <1>20, TimersKept DEF Destroy, NextCpu, simulatorVars, fdVars, threadVars
<1>21. CASE FreeTasks
  BY <1>21, TimersKept DEF FreeTasks, NextCpu, simulatorVars, fdVars, threadVars
<1>22. QED
  BY <1>1, <1>2, <1>3, <1>4, <1>5, <1>6, <1>7, <1>8, <1>9, <1>10, <1>11, <1>12, <1>13,
     <1>14, <1>15, <1>16, <1>17, <1>18, <1>19, <1>20, <1>21 DEF MainStep

LEMMA LifeStep == TypeOK /\ LifeInv /\ [Next]_vars => LifeInv'
<1> SUFFICES ASSUME TypeOK, LifeInv, [Next]_vars PROVE LifeInv'
  OBVIOUS
<1> USE LifeTyped DEF LifeTypes, LifeInv, LifeOf, Unloaded, Untouched, Building,
      Unthreaded, Created, Timed, Armed, Freed, Threaded, BuildLabels
<1>1. CASE MainStep
  BY <1>1, LifeMain
<1>2. ASSUME NEW c \in Cpus, ThreadUp(c) PROVE LifeInv'
  BY <1>2, TimersKept DEF ThreadUp, simulatorVars, fdVars
<1>3. ASSUME NEW c \in Cpus, BindCpu(c) PROVE LifeInv'
  BY <1>3, TimersKept DEF BindCpu, simulatorVars, fdVars
<1>4. ASSUME NEW c \in Cpus, BindFails(c) PROVE LifeInv'
  BY <1>4, TimersKept DEF BindFails, simulatorVars, fdVars
<1>5. CASE UNCHANGED vars
  BY <1>5, TimersKept DEF vars, simulatorVars, fdVars, threadVars
<1>6. QED
  BY <1>1, <1>2, <1>3, <1>4, <1>5 DEF Next, Join, Ended

-----------------------------------------------------------------------------
(* Types                                                                   *)

LEMMA TypeInit == Init => TypeOK
<1> SUFFICES ASSUME Init PROVE TypeOK
  OBVIOUS
<1> USE CpuTypes, FdTypes
<1>1. tasks \in [Cpus -> Seq(DOMAIN infos)] /\ event_fds \in [Cpus -> Seq(Fds \cup {NoFd})]
  BY DEF Init
<1>2. QED
  BY <1>1 DEF Init, TypeOK, Labels, StdFds

\* NumEvents depends on what load_tasks loaded.
LEMMA EventsKept ==
    ASSUME NEW c \in Cpus, UNCHANGED <<infos, tasks>>
    PROVE  NumEvents(c)' = NumEvents(c) /\ NumTables(c)' = NumTables(c)
BY DEF NumEvents, NumTables

\* Each descriptor that is registered is one event more.
LEMMA RegisterTypes ==
    ASSUME TypeOK, cpu \in Cpus, Creating, NEW f \in Fds \cup {NoFd},
           event_fds' = [event_fds EXCEPT ![cpu] = Append(@, f)],
           UNCHANGED <<infos, tasks>>
    PROVE  /\ event_fds' \in [Cpus -> Seq(Fds \cup {NoFd})]
           /\ \A c \in Cpus : tasks'[c] # <<>> => Len(event_fds'[c]) <= NumEvents(c)'
<1>1. event_fds \in [Cpus -> Seq(Fds \cup {NoFd})]
  BY DEF TypeOK
<1>2. event_fds[cpu] \in Seq(Fds \cup {NoFd})
  BY <1>1
<1>4. event_fds'[cpu] = Append(event_fds[cpu], f)
      /\ \A c \in Cpus \ {cpu} : event_fds'[c] = event_fds[c]
  BY <1>1
<1>5. Len(event_fds'[cpu]) = Index
  BY <1>2, <1>4 DEF Index
<1>6. event_fds' \in [Cpus -> Seq(Fds \cup {NoFd})]
  BY <1>1, <1>2
<1>7. \A c \in Cpus : tasks'[c] # <<>> => Len(event_fds'[c]) <= NumEvents(c)'
  BY <1>4, <1>5, EventsKept DEF TypeOK, Creating
<1>8. QED
  BY <1>6, <1>7

\* The step of load_tasks.
LEMMA LoadTypes ==
    ASSUME TypeOK, LifeInv, Load
    PROVE  /\ tasks' \in [Cpus -> Seq(DOMAIN infos')]
           /\ \A c \in Cpus : tasks'[c] # <<>> => Len(event_fds'[c]) <= NumEvents(c)'
<1>1. tasks' \in [Cpus -> Seq(DOMAIN infos')]
  <2>1. tasks \in [Cpus -> Seq(DOMAIN infos)] /\ infos' = infos /\ infos \in Seq(Range(infos))
    BY SimulatorAssumption DEF TypeOK, Load, simulatorVars, Range
  <2>2. [t \in DOMAIN infos |-> t] \in Seq(DOMAIN infos)
    BY <2>1
  <2>3. QED
    BY <2>1, <2>2 DEF Load, Loaded
<1>2. \A c \in Cpus : event_fds'[c] = <<>>
  BY DEF LifeInv, Unloaded, Load, fdVars
<1>3. ASSUME NEW c \in Cpus, tasks'[c] # <<>> PROVE NumEvents(c)' \in Nat
  <2>1. infos' \in InfoSets /\ tasks'[c] \in Seq(DOMAIN infos')
    BY <1>1 DEF TypeOK, Load, simulatorVars
  <2> DEFINE largest == Max({infos'[t].table_id : t \in Range(tasks'[c])})
  <2>2. largest \in Nat
    BY <1>3, <2>1, LargestTable
  <2>3. NumEvents(c)' = largest + 1 + 2
    BY DEF NumTables, NumEvents, NativeEventNum
  <2> HIDE DEF largest
  <2>4. QED
    BY <2>2, <2>3
<1>4. QED
  BY <1>1, <1>2, <1>3

\* TypeOK in the parts its proof goes by.
TaskTypes ==
    /\ infos \in InfoSets /\ supported \in BOOLEAN
    /\ tasks \in [Cpus -> Seq(DOMAIN infos)]
ControlTypes ==
    /\ pc \in Labels /\ cpu \in 0 .. NumCpus
    /\ status \in [Cpus -> {"none", "building", "created", "failed"}]
    /\ freed \subseteq Cpus
KernelTypes ==
    /\ owner \in [Fds -> Cpus \cup {Nobody, Std}]
    /\ epoll_fd \in [Cpus -> Fds \cup {NoFd}]
    /\ epoll \in [Cpus -> SUBSET Fds]
    /\ stray \in BOOLEAN
EventTypes ==
    /\ event_fds \in [Cpus -> Seq(Fds \cup {NoFd})]
    /\ \A c \in Cpus : tasks[c] # <<>> => Len(event_fds[c]) <= NumEvents(c)
NodeTypes ==
    /\ nodes \in [Cpus -> SUBSET [fd : Fds, index : Nat]]
    /\ timerFailed \in [Cpus -> Nat]
ThreadTypes ==
    /\ armed \in [Cpus -> SUBSET Fds]
    /\ timing \in [Cpus -> {"none", "bind", "loop", "ended"}]
    /\ thread \in [Cpus -> {"none", "init", "up"}]
    /\ unsetTid \subseteq Cpus

LEMMA TaskTypesStep == TypeOK /\ LifeInv /\ Next => TaskTypes'
<1> SUFFICES ASSUME TypeOK, LifeInv, Next PROVE TaskTypes'
  OBVIOUS
<1>1. CASE Load
  BY <1>1, LoadTypes DEF TaskTypes, TypeOK, Load, simulatorVars, fdVars, threadVars
<1>2. CASE ~Load
  <2>1. UNCHANGED <<infos, supported, tasks>>
    BY <1>2 DEF Next, MainStep, Skip, InitScheduler, AllCreated, CreateEpoll,
       EpollFails, AddEvent, CtlFails, TimerFails, EventFails, EventsCreated, Cleanup,
       FreeEpoll, Deinit, CreateTimingThread, CreateSchedulerThread, ThreadFails,
       InitComplete, Run, Destroy, FreeTasks, ThreadUp, BindCpu, BindFails, Join,
       Ended, vars, simulatorVars, fdVars, threadVars
  <2>2. QED
    BY <2>1 DEF TaskTypes, TypeOK
<1>3. QED
  BY <1>1, <1>2

LEMMA ControlTypesStep == TypeOK /\ LifeInv /\ Next => ControlTypes'
<1> SUFFICES ASSUME TypeOK, LifeInv, Next PROVE ControlTypes'
  OBVIOUS
<1> USE CpuTypes DEF ControlTypes, Labels
<1>1. ControlTypes /\ (pc \in BuildLabels => cpu \in Cpus)
  BY DEF TypeOK, LifeInv
<1>2. CASE UNCHANGED vars
  BY <1>1, <1>2 DEF vars, simulatorVars
<1>3. CASE Load
  BY <1>1, <1>3 DEF Load, NextCpu, BuildLabels, Creating, Cpus, simulatorVars
<1>4. CASE Skip
  BY <1>1, <1>4 DEF Skip, NextCpu, BuildLabels, Creating, Cpus, simulatorVars
<1>5. CASE InitScheduler
  BY <1>1, <1>5 DEF InitScheduler, NextCpu, BuildLabels, Creating, Cpus, simulatorVars
<1>6. CASE AllCreated
  BY <1>1, <1>6 DEF AllCreated, NextCpu, BuildLabels, Creating, Cpus, simulatorVars
<1>7. CASE CreateEpoll
  BY <1>1, <1>7 DEF CreateEpoll, NextCpu, BuildLabels, Creating, Cpus, simulatorVars
<1>8. CASE EpollFails
  BY <1>1, <1>8 DEF EpollFails, NextCpu, BuildLabels, Creating, Cpus, simulatorVars
<1>9. CASE AddEvent
  BY <1>1, <1>9 DEF AddEvent, NextCpu, BuildLabels, Creating, Cpus, simulatorVars
<1>10. CASE CtlFails
  BY <1>1, <1>10 DEF CtlFails, NextCpu, BuildLabels, Creating, Cpus, simulatorVars
<1>11. CASE TimerFails
  BY <1>1, <1>11 DEF TimerFails, NextCpu, BuildLabels, Creating, Cpus, simulatorVars
<1>12. CASE EventFails
  BY <1>1, <1>12 DEF EventFails, NextCpu, BuildLabels, Creating, Cpus, simulatorVars
<1>13. CASE EventsCreated
  BY <1>1, <1>13 DEF EventsCreated, NextCpu, BuildLabels, Creating, Cpus, simulatorVars
<1>14. CASE Cleanup
  BY <1>1, <1>14 DEF Cleanup, NextCpu, BuildLabels, Creating, Cpus, simulatorVars
<1>15. CASE FreeEpoll
  BY <1>1, <1>15 DEF FreeEpoll, NextCpu, BuildLabels, Creating, Cpus, simulatorVars
<1>16. CASE Deinit
  BY <1>1, <1>16 DEF Deinit, NextCpu, BuildLabels, Creating, Cpus, simulatorVars
<1>17. CASE CreateTimingThread
  BY <1>1, <1>17 DEF CreateTimingThread, NextCpu, BuildLabels, Creating, Cpus, simulatorVars
<1>18. CASE CreateSchedulerThread
  BY <1>1, <1>18 DEF CreateSchedulerThread, NextCpu, BuildLabels, Creating, Cpus, simulatorVars
<1>19. CASE ThreadFails
  BY <1>1, <1>19 DEF ThreadFails, NextCpu, BuildLabels, Creating, Cpus, simulatorVars
<1>20. CASE InitComplete
  BY <1>1, <1>20 DEF InitComplete, NextCpu, BuildLabels, Creating, Cpus, simulatorVars
<1>21. CASE Run
  BY <1>1, <1>21 DEF Run, NextCpu, BuildLabels, Creating, Cpus, simulatorVars
<1>22. CASE Destroy
  BY <1>1, <1>22 DEF Destroy, NextCpu, BuildLabels, Creating, Cpus, simulatorVars
<1>23. CASE FreeTasks
  BY <1>1, <1>23 DEF FreeTasks, NextCpu, BuildLabels, Creating, Cpus, simulatorVars
<1>24. ASSUME NEW c \in Cpus, ThreadUp(c) PROVE ControlTypes'
  BY <1>1, <1>24 DEF ThreadUp, simulatorVars
<1>25. ASSUME NEW c \in Cpus, BindCpu(c) PROVE ControlTypes'
  BY <1>1, <1>25 DEF BindCpu, simulatorVars
<1>26. ASSUME NEW c \in Cpus, BindFails(c) PROVE ControlTypes'
  BY <1>1, <1>26 DEF BindFails, simulatorVars
<1>27. QED
  BY <1>2, <1>3, <1>4, <1>5, <1>6, <1>7, <1>8, <1>9, <1>10, <1>11, <1>12, <1>13,
     <1>14, <1>15, <1>16, <1>17, <1>18, <1>19, <1>20, <1>21, <1>22, <1>23, <1>24,
     <1>25, <1>26 DEF Next, MainStep, Join, Ended

LEMMA KernelTypesStep == TypeOK /\ LifeInv /\ Next => KernelTypes'
<1> SUFFICES ASSUME TypeOK, LifeInv, Next PROVE KernelTypes'
  OBVIOUS
<1>1. CASE CreateEpoll
  BY <1>1, CpuTypes DEF KernelTypes, TypeOK, CreateEpoll, simulatorVars, fdVars,
     threadVars, Open, FreeFds, LifeInv, BuildLabels
<1>2. CASE AddEvent
  <2>1. PICK fd \in Fds : Open(fd) /\ epoll' = [epoll EXCEPT ![cpu] = @ \cup {fd}]
    BY <1>2 DEF AddEvent, FreeFds
  <2>2. KernelTypes /\ cpu \in Cpus /\ UNCHANGED <<epoll_fd, stray>>
    BY <1>2 DEF KernelTypes, TypeOK, AddEvent, Creating, LifeInv, BuildLabels
  <2>3. owner' \in [Fds -> Cpus \cup {Nobody, Std}]
    BY <2>1, <2>2 DEF KernelTypes, Open
  <2>4. epoll' \in [Cpus -> SUBSET Fds]
    BY <2>1, <2>2 DEF KernelTypes
  <2>5. QED
    BY <2>2, <2>3, <2>4 DEF KernelTypes
<1>3. CASE CtlFails
  BY <1>3, CpuTypes DEF KernelTypes, TypeOK, CtlFails, simulatorVars, fdVars,
     threadVars, Open, FreeFds, Creating, LifeInv, BuildLabels
<1>4. CASE Cleanup
  BY <1>4 DEF KernelTypes, TypeOK, Cleanup, simulatorVars, fdVars, threadVars, Close
<1>5. CASE FreeEpoll
  BY <1>5 DEF KernelTypes, TypeOK, FreeEpoll, simulatorVars, fdVars, threadVars, Close
<1>6. CASE ~CreateEpoll /\ ~AddEvent /\ ~CtlFails /\ ~Cleanup /\ ~FreeEpoll
  <2>1. UNCHANGED <<owner, epoll_fd, epoll, stray>>
    BY <1>6 DEF Next, MainStep, Load, Skip, InitScheduler, AllCreated, EpollFails,
       TimerFails, EventFails, EventsCreated, Deinit, CreateTimingThread,
       CreateSchedulerThread, ThreadFails, InitComplete, Run, Destroy, FreeTasks,
       ThreadUp, BindCpu, BindFails, Join, Ended, vars, simulatorVars, fdVars,
       threadVars
  <2>2. QED
    BY <2>1 DEF KernelTypes, TypeOK
<1>7. QED
  BY <1>1, <1>2, <1>3, <1>4, <1>5, <1>6

LEMMA EventTypesStep == TypeOK /\ LifeInv /\ Next => EventTypes'
<1> SUFFICES ASSUME TypeOK, LifeInv, Next PROVE EventTypes'
  OBVIOUS
<1>1. CASE Load
  BY <1>1, LoadTypes DEF EventTypes, TypeOK, Load, simulatorVars, fdVars, threadVars
<1>2. CASE AddEvent
  <2>1. PICK fd \in Fds : Register(fd)
    BY <1>2 DEF AddEvent, FreeFds
  <2>2. cpu \in Cpus /\ Creating /\ UNCHANGED <<infos, tasks>>
    BY <1>2 DEF AddEvent, Creating, LifeInv, BuildLabels, simulatorVars
  <2>3. QED
    BY <2>1, <2>2, RegisterTypes DEF EventTypes, Register
<1>3. CASE CtlFails
  <2>1. PICK fd \in Fds : Register(fd)
    BY <1>3 DEF CtlFails, FreeFds
  <2>2. cpu \in Cpus /\ Creating /\ UNCHANGED <<infos, tasks>>
    BY <1>3 DEF CtlFails, Creating, LifeInv, BuildLabels, simulatorVars
  <2>3. QED
    BY <2>1, <2>2, RegisterTypes DEF EventTypes, Register
<1>4. CASE EventFails
  <2>1. event_fds' = [event_fds EXCEPT ![cpu] = Append(@, NoFd)]
    BY <1>4 DEF EventFails
  <2>2. cpu \in Cpus /\ Creating /\ UNCHANGED <<infos, tasks>>
    BY <1>4 DEF EventFails, Creating, LifeInv, BuildLabels, simulatorVars
  <2>3. QED
    BY <2>1, <2>2, RegisterTypes DEF EventTypes
<1>5. CASE ~Load /\ ~AddEvent /\ ~CtlFails /\ ~EventFails
  <2>1. UNCHANGED <<event_fds, tasks, infos>>
    BY <1>5 DEF Next, MainStep, Skip, InitScheduler, AllCreated, CreateEpoll,
       EpollFails, TimerFails, EventsCreated, Cleanup, FreeEpoll, Deinit,
       CreateTimingThread, CreateSchedulerThread, ThreadFails, InitComplete, Run,
       Destroy, FreeTasks, ThreadUp, BindCpu, BindFails, Join, Ended, vars,
       simulatorVars, fdVars, threadVars
  <2>2. QED
    BY <2>1, EventsKept DEF EventTypes, TypeOK
<1>6. QED
  BY <1>1, <1>2, <1>3, <1>4, <1>5

\* A registered node has a descriptor and an index.
LEMMA NodesTyped ==
    ASSUME TypeOK, cpu \in Cpus, NEW fd \in Fds, Register(fd)
    PROVE  nodes' \in [Cpus -> SUBSET [fd : Fds, index : Nat]]
<1> DEFINE Node == [fd : Fds, index : Nat]
<1>1. nodes \in [Cpus -> SUBSET Node] /\ event_fds[cpu] \in Seq(Fds \cup {NoFd})
  BY DEF TypeOK
<1>2. [fd |-> fd, index |-> Index] \in Node
  BY <1>1 DEF Index
<1>3. nodes[cpu] \cup {[fd |-> fd, index |-> Index]} \in SUBSET Node
  BY <1>1, <1>2
<1> HIDE DEF Node
<1>4. nodes' \in [Cpus -> SUBSET Node]
  BY <1>1, <1>3 DEF Register
<1>5. QED
  BY <1>4 DEF Node

LEMMA NodeTypesStep == TypeOK /\ LifeInv /\ Next => NodeTypes'
<1> SUFFICES ASSUME TypeOK, LifeInv, Next PROVE NodeTypes'
  OBVIOUS
<1>1. CASE AddEvent
  <2>1. PICK fd \in Fds : Register(fd)
    BY <1>1 DEF AddEvent, FreeFds
  <2>2. cpu \in Cpus /\ timerFailed' = timerFailed
    BY <1>1 DEF AddEvent, Creating, LifeInv, BuildLabels
  <2>3. QED
    BY <2>1, <2>2, NodesTyped DEF NodeTypes, TypeOK
<1>2. CASE CtlFails
  <2>1. PICK fd \in Fds : Register(fd)
    BY <1>2 DEF CtlFails, FreeFds
  <2>2. cpu \in Cpus /\ timerFailed' = timerFailed
    BY <1>2 DEF CtlFails, Creating, LifeInv, BuildLabels
  <2>3. QED
    BY <2>1, <2>2, NodesTyped DEF NodeTypes, TypeOK
<1>3. CASE TimerFails
  BY <1>3 DEF NodeTypes, TypeOK, TimerFails, simulatorVars, fdVars, threadVars,
     Creating, Index, LifeInv, BuildLabels
<1>4. CASE Cleanup
  <2>1. PICK garbage : Unregister(Written \cup garbage)
    BY <1>4 DEF Cleanup
  <2> DEFINE Node == [fd : Fds, index : Nat]
             kept == {n \in nodes[cpu] : n.fd \notin Written \cup garbage}
  <2>2. nodes \in [Cpus -> SUBSET Node] /\ timerFailed' = timerFailed
        /\ timerFailed \in [Cpus -> Nat] /\ cpu \in Cpus
    BY <1>4 DEF TypeOK, Cleanup, LifeInv, BuildLabels
  <2>3. nodes' = [nodes EXCEPT ![cpu] = kept] /\ kept \subseteq nodes[cpu]
    BY <2>1 DEF Unregister
  <2> HIDE DEF Node, kept
  <2>4. nodes' \in [Cpus -> SUBSET Node]
    BY <2>2, <2>3
  <2>5. QED
    BY <2>2, <2>4 DEF NodeTypes, Node
<1>5. CASE ~AddEvent /\ ~CtlFails /\ ~TimerFails /\ ~Cleanup
  <2>1. UNCHANGED <<nodes, timerFailed>>
    BY <1>5 DEF Next, MainStep, Load, Skip, InitScheduler, AllCreated, CreateEpoll,
       EpollFails, EventFails, EventsCreated, FreeEpoll, Deinit, CreateTimingThread,
       CreateSchedulerThread, ThreadFails, InitComplete, Run, Destroy, FreeTasks,
       ThreadUp, BindCpu, BindFails, Join, Ended, vars, simulatorVars, fdVars,
       threadVars
  <2>2. QED
    BY <2>1 DEF NodeTypes, TypeOK
<1>6. QED
  BY <1>1, <1>2, <1>3, <1>4, <1>5

\* A scheduler that was created has a timer for each of its tables.
LEMMA TimersTyped ==
    ASSUME TypeOK, NEW c \in Cpus, tasks[c] # <<>>, Whole(c)
    PROVE  Timers(c) \subseteq Fds
<1>1. NumTables(c) \in Nat \ {0} /\ NumEvents(c) = NumTables(c) + 2
  BY TablesNumber DEF TypeOK
<1>2. event_fds[c] \in Seq(Fds) /\ 1 .. NumTables(c) \subseteq DOMAIN event_fds[c]
  BY <1>1 DEF Whole
<1>3. QED
  BY <1>2 DEF Timers

LEMMA RunTypes == TypeOK /\ LifeInv /\ FullInv /\ Run => armed' \in [Cpus -> SUBSET Fds]
<1> SUFFICES ASSUME TypeOK, LifeInv, FullInv, Run PROVE armed' \in [Cpus -> SUBSET Fds]
  OBVIOUS
<1>1. armed \in [Cpus -> SUBSET Fds] /\ cpu \in Cpus
  BY DEF TypeOK, Run
<1>2. CASE status[cpu] = "created"
  <2>1. Timers(cpu) \subseteq Fds
    BY <1>1, <1>2, TimersTyped DEF LifeInv, LifeOf, Created, FullInv, FullOf
  <2>2. QED
    BY <1>1, <1>2, <2>1 DEF Run
<1>3. CASE status[cpu] # "created"
  BY <1>1, <1>3 DEF Run
<1>4. QED
  BY <1>2, <1>3

LEMMA ThreadTypesStep == TypeOK /\ LifeInv /\ FullInv /\ Next => ThreadTypes'
<1> SUFFICES ASSUME TypeOK, LifeInv, FullInv, Next PROVE ThreadTypes'
  OBVIOUS
<1>1. CASE CreateTimingThread
  BY <1>1 DEF ThreadTypes, TypeOK, CreateTimingThread, simulatorVars, fdVars,
     threadVars
<1>2. CASE CreateSchedulerThread
  BY <1>2 DEF ThreadTypes, TypeOK, CreateSchedulerThread, simulatorVars, fdVars,
     threadVars
<1>3. CASE Run
  BY <1>3, RunTypes DEF ThreadTypes, TypeOK, Run, simulatorVars, fdVars, threadVars
<1>4. ASSUME NEW c \in Cpus, ThreadUp(c) PROVE ThreadTypes'
  BY <1>4 DEF ThreadTypes, TypeOK, ThreadUp, simulatorVars, fdVars, threadVars
<1>5. ASSUME NEW c \in Cpus, BindCpu(c) PROVE ThreadTypes'
  BY <1>5 DEF ThreadTypes, TypeOK, BindCpu, simulatorVars, fdVars, threadVars
<1>6. ASSUME NEW c \in Cpus, BindFails(c) PROVE ThreadTypes'
  BY <1>6 DEF ThreadTypes, TypeOK, BindFails, simulatorVars, fdVars, threadVars
<1>7. CASE ~CreateTimingThread /\ ~CreateSchedulerThread /\ ~Run
           /\ \A c \in Cpus : ~ThreadUp(c) /\ ~BindCpu(c) /\ ~BindFails(c)
  <2>1. UNCHANGED <<armed, timing, thread, unsetTid>>
    BY <1>7 DEF Next, MainStep, Load, Skip, InitScheduler, AllCreated, CreateEpoll,
       EpollFails, AddEvent, CtlFails, TimerFails, EventFails, EventsCreated, Cleanup,
       FreeEpoll, Deinit, ThreadFails, InitComplete, Destroy, FreeTasks, Join, Ended,
       vars, simulatorVars, fdVars, threadVars
  <2>2. QED
    BY <2>1 DEF ThreadTypes, TypeOK
<1>8. QED
  BY <1>1, <1>2, <1>3, <1>4, <1>5, <1>6, <1>7


LEMMA TypeStep == TypeOK /\ LifeInv /\ FullInv /\ [Next]_vars => TypeOK'
<1> SUFFICES ASSUME TypeOK, LifeInv, FullInv, [Next]_vars PROVE TypeOK'
  OBVIOUS
<1>1. CASE Next
  <2>1. /\ TaskTypes' /\ ControlTypes' /\ KernelTypes'
        /\ EventTypes' /\ NodeTypes' /\ ThreadTypes'
    BY <1>1, TaskTypesStep, ControlTypesStep, KernelTypesStep, EventTypesStep,
       NodeTypesStep, ThreadTypesStep
  <2>2. QED
    BY <2>1 DEF TypeOK, TaskTypes, ControlTypes, KernelTypes, EventTypes, NodeTypes,
       ThreadTypes
<1>2. CASE UNCHANGED vars
  BY <1>2, EventsKept DEF vars, simulatorVars, fdVars, threadVars, TypeOK
<1>3. QED
  BY <1>1, <1>2

-----------------------------------------------------------------------------
(* The descriptors that are written down                                   *)

LEMMA FullInit == Init => FullInv
BY DEF Init, FullInv, FullOf

LEMMA WholeKept ==
    ASSUME NEW c \in Cpus, UNCHANGED <<infos, tasks>>, event_fds'[c] = event_fds[c]
    PROVE  Whole(c)' = Whole(c)
BY EventsKept DEF Whole

\* The scheduler of another CPU is not being built.
LEMMA Elsewhere ==
    ASSUME LifeInv, NEW c \in Cpus, c # cpu
    PROVE  status[c] # "building"
BY DEF LifeInv, LifeOf, Building

LEMMA FullStep == TypeOK /\ LifeInv /\ FullInv /\ [Next]_vars => FullInv'
<1> SUFFICES ASSUME TypeOK, LifeInv, FullInv, [Next]_vars, NEW c \in Cpus
             PROVE  FullOf(c)'
  BY DEF FullInv
<1>0. FullOf(c) /\ LifeOf(c) /\ (pc \in BuildLabels => cpu \in Cpus)
      /\ LifeTypes /\ (c # cpu => status[c] # "building")
  BY Elsewhere, LifeTyped DEF FullInv, LifeInv
<1>1. CASE Load
  <2>1. cpu = 0 /\ event_fds'[c] = <<>> /\ status'[c] = status[c]
    BY <1>1 DEF Load, LifeInv, Unloaded, fdVars
  <2>2. status[c] = "none"
    BY <1>0, <1>1, <2>1, CpuTypes DEF Load, LifeOf, Untouched
  <2>3. QED
    BY <2>1, <2>2 DEF FullOf
<1>2. CASE AddEvent \/ CtlFails
  <2>1. PICK fd \in Fds : Register(fd)
    BY <1>2 DEF AddEvent, CtlFails, FreeFds
  <2>2. Creating /\ cpu \in Cpus /\ UNCHANGED <<infos, tasks, status, timing, thread>>
        /\ pc' \in {"events", "cleanup"}
    BY <1>0, <1>2 DEF AddEvent, CtlFails, Creating, BuildLabels, simulatorVars, threadVars
  <2>3. CASE c = cpu
    <3>1. status[c] = "building" /\ ~Threaded(c) /\ event_fds[c] \in Seq(Fds)
      BY <1>0, <2>2, <2>3 DEF LifeOf, Building, BuildLabels, Creating, FullOf
    <3>2. event_fds'[c] = Append(event_fds[c], fd)
      BY <2>1, <2>3 DEF Register, TypeOK
    <3>3. event_fds'[c] \in Seq(Fds)
      BY <3>1, <3>2
    <3>4. QED
      BY <2>2, <3>1, <3>3 DEF FullOf, Threaded, ThreadLabels
  <2>4. CASE c # cpu
    <3>1. event_fds'[c] = event_fds[c]
      BY <2>1, <2>4 DEF Register, TypeOK
    <3>2. Whole(c)' = Whole(c)
      BY <2>2, <3>1, WholeKept
    <3>3. QED
      BY <1>0, <2>2, <2>4, <3>1, <3>2 DEF FullOf
  <2>5. QED
    BY <2>3, <2>4
<1>3. CASE EventFails
  <2>1. Creating /\ cpu \in Cpus /\ UNCHANGED <<infos, tasks, status, timing, thread>>
        /\ pc' = "cleanup"
    BY <1>0, <1>3 DEF EventFails, Creating, BuildLabels, simulatorVars, threadVars
  <2>2. CASE c = cpu
    BY <1>0, <2>1, <2>2 DEF FullOf, LifeOf, Building, BuildLabels, Creating, Threaded,
       ThreadLabels
  <2>3. CASE c # cpu
    <3>1. event_fds'[c] = event_fds[c]
      BY <1>3, <2>3 DEF EventFails, TypeOK
    <3>2. Whole(c)' = Whole(c)
      BY <2>1, <3>1, WholeKept
    <3>3. QED
      BY <1>0, <2>1, <2>3, <3>1, <3>2 DEF FullOf
  <2>4. QED
    BY <2>2, <2>3
<1>4. CASE EventsCreated
  <2>1. UNCHANGED <<infos, tasks, status, event_fds, timing, thread>> /\ cpu \in Cpus
    BY <1>0, <1>4 DEF EventsCreated, BuildLabels, simulatorVars, threadVars, fdVars
  <2>2. Whole(c)' = Whole(c)
    BY <2>1, WholeKept
  <2>3. CASE c = cpu
    <3>1. event_fds[c] \in Seq(Fds) /\ tasks[c] # <<>>
      BY <1>0, <1>4, <2>3 DEF EventsCreated, FullOf, LifeOf, Building, BuildLabels
    <3>2. Len(event_fds[c]) <= NumEvents(c) /\ Len(event_fds[c]) + 1 > NumEvents(c)
      BY <1>4, <2>3, <3>1 DEF EventsCreated, TypeOK, Index
    <3>3. NumEvents(c) \in Nat /\ Len(event_fds[c]) \in Nat
      <4>1. NumTables(c) \in Nat \ {0} /\ NumEvents(c) = NumTables(c) + 2
        BY <3>1, TablesNumber DEF TypeOK
      <4>2. QED
        BY <3>1, <4>1
    <3>4. Whole(c)
      BY <3>1, <3>2, <3>3 DEF Whole
    <3>5. QED
      BY <1>0, <1>4, <2>1, <2>2, <2>3, <3>4 DEF FullOf, EventsCreated, LifeOf, Building,
         BuildLabels
  <2>4. CASE c # cpu
    BY <1>0, <2>1, <2>2, <2>4 DEF FullOf
  <2>5. QED
    BY <2>3, <2>4
<1>5. CASE ~Load /\ ~AddEvent /\ ~CtlFails /\ ~EventFails /\ ~EventsCreated
  <2>1. UNCHANGED <<infos, tasks, event_fds>>
    BY <1>5 DEF Next, MainStep, Skip, InitScheduler, AllCreated, CreateEpoll,
       EpollFails, TimerFails, Cleanup, FreeEpoll, Deinit,
       CreateTimingThread, CreateSchedulerThread, ThreadFails, InitComplete, Run,
       Destroy, FreeTasks, ThreadUp, BindCpu, BindFails, Join, Ended, vars,
       simulatorVars, fdVars, threadVars
  <2>2. Whole(c)' = Whole(c)
    BY <2>1, WholeKept
  <2> USE DEF FullOf, LifeOf, Building, Created, Unthreaded, Timed, BuildLabels, ThreadLabels,
        Threaded, LifeTypes
  <2>3. CASE InitScheduler
    BY <1>0, <2>1, <2>2, <2>3, CpuTypes DEF InitScheduler, threadVars, Untouched
  <2>4. CASE CreateEpoll
    <3>1. <<>> \in Seq(Fds)
      OBVIOUS
    <3>2. pc = "epoll" /\ pc' = "events" /\ UNCHANGED <<status, timing, thread>>
      BY <2>4 DEF CreateEpoll, threadVars
    <3>3. status[c] = "building" => event_fds[c] = <<>> /\ ~Threaded(c)
      BY <1>0, <3>2
    <3>4. QED
      BY <1>0, <2>1, <2>2, <3>1, <3>2, <3>3
  <2>5. CASE CreateTimingThread
    BY <1>0, <2>1, <2>2, <2>5 DEF CreateTimingThread, threadVars
  <2>6. CASE CreateSchedulerThread
    BY <1>0, <2>1, <2>2, <2>6 DEF CreateSchedulerThread, threadVars
  <2>7. CASE InitComplete
    BY <1>0, <2>1, <2>2, <2>7 DEF InitComplete, NextCpu, threadVars
  <2>8. CASE Deinit
    BY <1>0, <2>1, <2>2, <2>8 DEF Deinit, NextCpu, threadVars
  <2>9. ASSUME NEW d \in Cpus, ThreadUp(d) \/ BindCpu(d) \/ BindFails(d) PROVE FullOf(c)'
    BY <1>0, <2>1, <2>2, <2>9 DEF ThreadUp, BindCpu, BindFails
  <2>10. CASE Skip \/ AllCreated \/ EpollFails \/ TimerFails \/ Cleanup \/ FreeEpoll
              \/ ThreadFails
    BY <1>0, <2>1, <2>2, <2>10 DEF Skip, AllCreated, EpollFails, TimerFails, Cleanup,
       FreeEpoll, ThreadFails, NextCpu, Creating, threadVars
  <2>11. CASE Run \/ Destroy \/ FreeTasks \/ UNCHANGED vars
    BY <1>0, <2>1, <2>2, <2>11 DEF Run, Destroy, FreeTasks, vars, threadVars
  <2>12. QED
    BY <1>5, <2>3, <2>4, <2>5, <2>6, <2>7, <2>8, <2>9, <2>10, <2>11
       DEF Next, MainStep, Join, Ended
<1>6. QED
  BY <1>1, <1>2, <1>3, <1>4, <1>5

-----------------------------------------------------------------------------
(* Descriptors, nodes and the epoll set                                    *)

LEMMA FdInit == Init => FdInv
BY CpuTypes, FdTypes DEF Init, FdInv, FdsOf, NoEvents, Owned

LEMMA AppendFd ==
    ASSUME NEW S, NEW s \in Seq(S), NEW x \in S
    PROVE  /\ Append(s, x) \in Seq(S)
           /\ DOMAIN Append(s, x) = DOMAIN s \cup {Len(s) + 1}
           /\ \A i \in DOMAIN s : Append(s, x)[i] = s[i]
           /\ Append(s, x)[Len(s) + 1] = x
           /\ Range(Append(s, x)) = Range(s) \cup {x}
           /\ x \notin Range(s) /\ IsInjective(s) => IsInjective(Append(s, x))
<1>1. /\ Append(s, x) \in Seq(S)
      /\ DOMAIN Append(s, x) = DOMAIN s \cup {Len(s) + 1}
      /\ \A i \in DOMAIN s : Append(s, x)[i] = s[i]
      /\ Append(s, x)[Len(s) + 1] = x
  OBVIOUS
<1> DEFINE t == Append(s, x)
           last == Len(s) + 1
<1> HIDE DEF t, last
<1>2. Range(t) = Range(s) \cup {x}
  BY <1>1 DEF Range, t, last
<1>3. ASSUME x \notin Range(s), IsInjective(s) PROVE IsInjective(t)
  <2>1. DOMAIN t = DOMAIN s \cup {last} /\ t[last] = x /\ \A i \in DOMAIN s : t[i] = s[i]
    BY <1>1 DEF t, last
  <2>2. QED
    BY <1>3, <2>1 DEF IsInjective, Range
<1>4. QED
  BY <1>1, <1>2, <1>3 DEF t

\* What FdsOf says of a CPU reads that CPU's own part of the state only.
LEMMA FdsKept ==
    ASSUME NEW c \in Cpus, UNCHANGED <<infos, tasks>>,
           event_fds'[c] = event_fds[c], nodes'[c] = nodes[c], epoll'[c] = epoll[c],
           epoll_fd'[c] = epoll_fd[c], timerFailed'[c] = timerFailed[c],
           Owned(c)' = Owned(c)
    PROVE  /\ NoEvents(c)' = NoEvents(c) /\ EventsOpen(c)' = EventsOpen(c)
           /\ AllEvents(c)' = AllEvents(c) /\ Failing(c)' = Failing(c)
           /\ Closing(c)' = Closing(c) /\ Released(c)' = Released(c)
<1>1. EventsOpen(c)' = EventsOpen(c)
  BY DEF EventsOpen, NodesOf
<1>2. AllEvents(c)' = AllEvents(c)
  BY <1>1, EventsKept DEF AllEvents
<1>3. NoEvents(c)' = NoEvents(c) /\ Failing(c)' = Failing(c)
  BY DEF NoEvents, Failing
<1>4. Closing(c)' = Closing(c) /\ Released(c)' = Released(c)
  BY DEF Closing, Released, LeftOver, LeftIndices, NodesOf
<1>5. QED
  BY <1>1, <1>2, <1>3, <1>4

\* The scheduler of another CPU is finished or was not begun.
LEMMA FdsElsewhere ==
    ASSUME NEW c \in Cpus, FdsOf(c), UNCHANGED <<infos, tasks>>,
           status[c] # "building", status'[c] = status[c],
           event_fds'[c] = event_fds[c], nodes'[c] = nodes[c], epoll'[c] = epoll[c],
           epoll_fd'[c] = epoll_fd[c], timerFailed'[c] = timerFailed[c],
           Owned(c)' = Owned(c)
    PROVE  FdsOf(c)'
BY FdsKept DEF FdsOf

\* A descriptor that is opened was nobody's.
LEMMA OpenOwned ==
    ASSUME TypeOK, cpu \in Cpus, NEW fd \in FreeFds, Open(fd)
    PROVE  \A c \in Cpus : /\ Owned(c)' = IF c = cpu THEN Owned(c) \cup {fd} ELSE Owned(c)
                           /\ fd \notin Owned(c)
<1>1. owner \in [Fds -> Cpus \cup {Nobody, Std}] /\ owner' = [owner EXCEPT ![fd] = cpu]
      /\ owner[fd] = Nobody /\ fd \in Fds
  BY DEF TypeOK, Open, FreeFds
<1>2. \A f \in Fds : owner'[f] = IF f = fd THEN cpu ELSE owner[f]
  BY <1>1
<1>3. QED
  BY <1>1, <1>2, FdTypes DEF Owned

\* What the invariants say of the CPU that create_scheduler is at.
LEMMA AtCpu ==
    ASSUME LifeInv, pc \in BuildLabels
    PROVE  /\ cpu \in Cpus /\ status[cpu] = "building" /\ tasks[cpu] # <<>>
           /\ \A c \in Cpus \ {cpu} : status[c] # "building"
           /\ pc \notin {"createScheduler", "wait"} => ~Threaded(cpu)
BY Elsewhere DEF LifeInv, LifeOf, Building, BuildLabels

LEMMA FdsCreateEpoll ==
    ASSUME TypeOK, LifeInv, CreateEpoll, NEW c \in Cpus, FdsOf(c)
    PROVE  FdsOf(c)'
<1>1. /\ pc = "epoll" /\ pc' = "events" /\ UNCHANGED <<infos, tasks, status>>
      /\ UNCHANGED <<epoll, event_fds, nodes, timerFailed>>
  BY DEF CreateEpoll, simulatorVars
<1>2. PICK fd \in FreeFds : Open(fd) /\ epoll_fd' = [epoll_fd EXCEPT ![cpu] = fd]
  BY DEF CreateEpoll
<1>3. cpu \in Cpus /\ status[cpu] = "building" /\ (c # cpu => status[c] # "building")
  BY <1>1, AtCpu DEF BuildLabels
<1>4. Owned(c)' = IF c = cpu THEN Owned(c) \cup {fd} ELSE Owned(c)
  BY <1>2, <1>3, OpenOwned
<1>5. CASE c = cpu
  <2>1. NoEvents(c) /\ epoll_fd'[c] = fd /\ fd \in Fds
    BY <1>1, <1>2, <1>3, <1>5 DEF FdsOf, TypeOK, FreeFds
  <2>2. <<>> \in Seq(Fds) /\ Range(<<>>) = {} /\ IsInjective(<<>>) /\ DOMAIN <<>> = {}
    BY DEF Range, IsInjective
  <2>3. EventsOpen(c)'
    BY <1>1, <1>4, <1>5, <2>1, <2>2 DEF EventsOpen, NoEvents, NodesOf
  <2>4. QED
    BY <1>1, <1>3, <1>5, <2>3 DEF FdsOf, ThreadLabels
<1>6. CASE c # cpu
  <2>1. epoll_fd'[c] = epoll_fd[c]
    BY <1>2, <1>6 DEF TypeOK
  <2>2. QED
    BY <1>1, <1>3, <1>4, <1>6, <2>1, FdsElsewhere
<1>7. QED
  BY <1>5, <1>6

\* An event that was opened and registered.
LEMMA Registered ==
    ASSUME TypeOK, NEW c \in Cpus, c = cpu, EventsOpen(c), NEW fd \in FreeFds,
           Open(fd), Register(fd)
    PROVE  /\ event_fds'[c] \in Seq(Fds) /\ IsInjective(event_fds'[c])
           /\ Range(event_fds'[c]) = Range(event_fds[c]) \cup {fd}
           /\ epoll_fd[c] \in Fds \ Range(event_fds'[c])
           /\ nodes'[c] = {[fd |-> event_fds'[c][i], index |-> i] :
                                i \in DOMAIN event_fds'[c]}
           /\ Owned(c)' = Range(event_fds'[c]) \cup {epoll_fd[c]}
<1> DEFINE s == event_fds[c]
           t == event_fds'[c]
<1>1. s \in Seq(Fds) /\ IsInjective(s) /\ epoll_fd[c] \in Fds \ Range(s)
      /\ nodes[c] = NodesOf(c, DOMAIN s) /\ Owned(c) = Range(s) \cup {epoll_fd[c]}
  BY DEF EventsOpen
<1>2. Owned(c)' = Owned(c) \cup {fd} /\ fd \notin Owned(c) /\ fd \in Fds
  BY OpenOwned DEF FreeFds
<1>3. t = Append(s, fd) /\ nodes'[c] = nodes[c] \cup {[fd |-> fd, index |-> Index]}
  BY DEF Register, TypeOK
<1>4. /\ t \in Seq(Fds) /\ DOMAIN t = DOMAIN s \cup {Index}
      /\ \A i \in DOMAIN s : t[i] = s[i]
      /\ t[Index] = fd
      /\ Range(t) = Range(s) \cup {fd}
      /\ IsInjective(t)
  BY <1>1, <1>2, <1>3, AppendFd DEF Index
<1>5. nodes'[c] = {[fd |-> t[i], index |-> i] : i \in DOMAIN t}
  <2>1. nodes[c] = {[fd |-> s[i], index |-> i] : i \in DOMAIN s}
    BY <1>1 DEF NodesOf
  <2> HIDE DEF s, t
  <2>2. QED
    BY <1>3, <1>4, <2>1
<1>6. QED
  BY <1>1, <1>2, <1>3, <1>4, <1>5

LEMMA FdsAddEvent ==
    ASSUME TypeOK, LifeInv, AddEvent, NEW c \in Cpus, FdsOf(c)
    PROVE  FdsOf(c)'
<1>1. /\ pc = "events" /\ pc' = "events" /\ UNCHANGED <<infos, tasks, status, cpu>>
      /\ UNCHANGED <<epoll_fd, timerFailed>>
  BY DEF AddEvent, Creating, simulatorVars
<1>2. PICK fd \in FreeFds : /\ Open(fd) /\ Register(fd)
                            /\ epoll' = [epoll EXCEPT ![cpu] = @ \cup {fd}]
  BY DEF AddEvent
<1>3. cpu \in Cpus /\ status[cpu] = "building" /\ (c # cpu => status[c] # "building")
  BY <1>1, AtCpu DEF BuildLabels
<1>4. CASE c = cpu
  <2>1. EventsOpen(c) /\ epoll'[c] = epoll[c] \cup {fd}
    BY <1>1, <1>2, <1>3, <1>4 DEF FdsOf, TypeOK
  <2>2. EventsOpen(c)'
    BY <1>1, <1>2, <1>3, <1>4, <2>1, Registered DEF EventsOpen, NodesOf
  <2>3. QED
    BY <1>1, <1>3, <1>4, <2>2 DEF FdsOf, ThreadLabels
<1>5. CASE c # cpu
  <2>1. epoll'[c] = epoll[c]
    BY <1>2, <1>5 DEF TypeOK
  <2>2. event_fds'[c] = event_fds[c] /\ nodes'[c] = nodes[c] /\ Owned(c)' = Owned(c)
    BY <1>2, <1>3, <1>5, OpenOwned DEF Register, TypeOK
  <2>3. QED
    BY <1>1, <1>3, <1>5, <2>1, <2>2, FdsElsewhere
<1>6. QED
  BY <1>4, <1>5

LEMMA FdsCtlFails ==
    ASSUME TypeOK, LifeInv, CtlFails, NEW c \in Cpus, FdsOf(c)
    PROVE  FdsOf(c)'
<1>1. /\ pc = "events" /\ pc' = "cleanup" /\ UNCHANGED <<infos, tasks, status, cpu>>
      /\ UNCHANGED <<epoll, epoll_fd, timerFailed>>
  BY DEF CtlFails, Creating, simulatorVars
<1>2. PICK fd \in FreeFds : Open(fd) /\ Register(fd)
  BY DEF CtlFails
<1>3. cpu \in Cpus /\ status[cpu] = "building" /\ (c # cpu => status[c] # "building")
  BY <1>1, AtCpu DEF BuildLabels
<1>4. CASE c = cpu
  <2>1. EventsOpen(c)
    BY <1>1, <1>3, <1>4 DEF FdsOf
  <2>2. /\ event_fds'[c] \in Seq(Fds)
        /\ epoll_fd[c] \in Fds \ Range(event_fds'[c])
        /\ nodes'[c] = {[fd |-> event_fds'[c][i], index |-> i] :
                                i \in DOMAIN event_fds'[c]}
        /\ Owned(c)' = Range(event_fds'[c]) \cup {epoll_fd[c]}
    BY <1>2, <1>4, <2>1, Registered
  <2>3. \A n \in nodes'[c] : n.fd \in Range(event_fds'[c])
    BY <2>2 DEF Range
  <2>4. NoFd \notin Range(event_fds'[c])
    BY <2>2, FdTypes DEF Range
  <2>5. Failing(c)'
    BY <1>1, <1>4, <2>1, <2>2, <2>3, <2>4 DEF Failing, EventsOpen
  <2>6. QED
    BY <1>1, <1>3, <1>4, <2>5 DEF FdsOf, ThreadLabels
<1>5. CASE c # cpu
  <2>1. event_fds'[c] = event_fds[c] /\ nodes'[c] = nodes[c] /\ Owned(c)' = Owned(c)
    BY <1>2, <1>3, <1>5, OpenOwned DEF Register, TypeOK
  <2>2. QED
    BY <1>1, <1>3, <1>5, <2>1, FdsElsewhere
<1>6. QED
  BY <1>4, <1>5

LEMMA FdsEventFails ==
    ASSUME TypeOK, LifeInv, EventFails, NEW c \in Cpus, FdsOf(c)
    PROVE  FdsOf(c)'
<1>1. /\ pc = "events" /\ pc' = "cleanup" /\ UNCHANGED <<infos, tasks, status, cpu>>
      /\ UNCHANGED <<owner, epoll, epoll_fd, nodes, timerFailed>>
      /\ event_fds' = [event_fds EXCEPT ![cpu] = Append(@, NoFd)]
  BY DEF EventFails, Creating, simulatorVars
<1>2. cpu \in Cpus /\ status[cpu] = "building" /\ (c # cpu => status[c] # "building")
  BY <1>1, AtCpu DEF BuildLabels
<1>3. Owned(c)' = Owned(c)
  BY <1>1 DEF Owned
<1>4. CASE c = cpu
  <2>1. EventsOpen(c)
    BY <1>1, <1>2, <1>4 DEF FdsOf
  <2>2. event_fds'[c] = Append(event_fds[c], NoFd) /\ event_fds[c] \in Seq(Fds \cup {NoFd})
    BY <1>1, <1>4 DEF TypeOK
  <2>3. Range(event_fds'[c]) = Range(event_fds[c]) \cup {NoFd}
    BY <2>2, AppendFd
  <2>4. NoFd \notin Range(event_fds[c]) /\ NoFd \notin Fds
    BY <2>1, FdTypes DEF EventsOpen, Range
  <2>5. \A n \in nodes[c] : n.fd \in Range(event_fds[c])
    BY <2>1 DEF EventsOpen, NodesOf, Range
  <2>6. Failing(c)'
    BY <1>1, <1>3, <2>1, <2>3, <2>4, <2>5 DEF Failing, EventsOpen
  <2>7. QED
    BY <1>1, <1>2, <1>4, <2>6 DEF FdsOf, ThreadLabels
<1>5. CASE c # cpu
  <2>1. event_fds'[c] = event_fds[c]
    BY <1>1, <1>5 DEF TypeOK
  <2>2. QED
    BY <1>1, <1>2, <1>3, <1>5, <2>1, FdsElsewhere
<1>6. QED
  BY <1>4, <1>5

LEMMA FdsTimerFails ==
    ASSUME TypeOK, LifeInv, TimerFails, NEW c \in Cpus, FdsOf(c)
    PROVE  FdsOf(c)'
<1>1. /\ pc = "events" /\ pc' = "freeEpoll" /\ UNCHANGED <<infos, tasks, status, cpu>>
      /\ UNCHANGED <<owner, epoll, epoll_fd, nodes, event_fds>>
      /\ timerFailed' = [timerFailed EXCEPT ![cpu] = Index]
  BY DEF TimerFails, Creating, simulatorVars
<1>2. cpu \in Cpus /\ status[cpu] = "building" /\ (c # cpu => status[c] # "building")
  BY <1>1, AtCpu DEF BuildLabels
<1>3. Owned(c)' = Owned(c)
  BY <1>1 DEF Owned
<1>4. CASE c = cpu
  <2>1. EventsOpen(c)
    BY <1>1, <1>2, <1>4 DEF FdsOf
  <2>2. timerFailed'[c] = Len(event_fds[c]) + 1 /\ Len(event_fds[c]) \in Nat
        /\ DOMAIN event_fds[c] = 1 .. Len(event_fds[c])
    BY <1>1, <1>4, <2>1 DEF TypeOK, Index, EventsOpen
  <2>3. 1 .. timerFailed'[c] - 1 = DOMAIN event_fds[c]
    BY <2>2
  <2>4. LeftIndices(c)' = DOMAIN event_fds[c] /\ LeftOver(c)' = Range(event_fds[c])
    BY <1>1, <2>3 DEF LeftIndices, LeftOver, Range
  <2>5. Closing(c)'
    BY <1>1, <1>3, <2>1, <2>4 DEF Closing, EventsOpen, NodesOf
  <2>6. QED
    BY <1>1, <1>2, <1>4, <2>5 DEF FdsOf, ThreadLabels
<1>5. CASE c # cpu
  <2>1. timerFailed'[c] = timerFailed[c]
    BY <1>1, <1>5 DEF TypeOK
  <2>2. QED
    BY <1>1, <1>2, <1>3, <1>5, <2>1, FdsElsewhere
<1>6. QED
  BY <1>4, <1>5

\* Nothing is left of a scheduler that has no event.
LEMMA NothingLeft ==
    ASSUME NEW c \in Cpus, timerFailed[c] = 0
    PROVE  LeftIndices(c) = {} /\ LeftOver(c) = {} /\ NodesOf(c, LeftIndices(c)) = {}
<1>1. 1 .. 0 - 1 = {}
  OBVIOUS
<1>2. QED
  BY <1>1 DEF LeftIndices, LeftOver, NodesOf

\* Descriptors of one CPU are closed.
LEMMA CloseOwned ==
    ASSUME TypeOK, NEW fds, Close(fds), NEW c \in Cpus
    PROVE  Owned(c)' = Owned(c) \ fds
BY FdTypes DEF Close, Owned, TypeOK

\* What a CPU closes of its own does not touch the others.
LEMMA ClosedElsewhere ==
    ASSUME TypeOK, NEW c \in Cpus, FdsOf(c), UNCHANGED <<infos, tasks>>,
           cpu \in Cpus, c # cpu, status[c] # "building", status'[c] = status[c],
           event_fds'[c] = event_fds[c], nodes'[c] = nodes[c],
           epoll_fd'[c] = epoll_fd[c], timerFailed'[c] = timerFailed[c],
           NEW fds, fds \subseteq Owned(cpu), Close(fds)
    PROVE  FdsOf(c)'
<1>1. Owned(c)' = Owned(c)
  <2>1. Owned(c)' = Owned(c) \ fds
    BY CloseOwned
  <2>2. Owned(c) \ fds = Owned(c)
    BY DEF Owned
  <2>3. QED
    BY <2>1, <2>2
<1>2. epoll'[c] = IF epoll_fd[c] \in fds THEN {} ELSE epoll[c] \ fds
  BY DEF Close
<1>3. CASE status[c] = "none"
  BY <1>1, <1>2, <1>3 DEF FdsOf, NoEvents
<1>4. CASE status[c] = "created"
  <2>1. epoll_fd[c] \notin fds /\ epoll[c] \cap fds = {}
    BY <1>4 DEF FdsOf, AllEvents, EventsOpen, Owned
  <2>2. epoll'[c] = epoll[c]
    BY <1>2, <2>1
  <2>3. QED
    BY <1>1, <2>2, FdsElsewhere
<1>5. CASE status[c] = "failed"
  BY <1>1, <1>5 DEF FdsOf, Released, LeftOver, LeftIndices, NodesOf
<1>6. QED
  BY <1>3, <1>4, <1>5 DEF TypeOK

LEMMA FdsCleanup ==
    ASSUME TypeOK, LifeInv, Cleanup, ~stray', NEW c \in Cpus, FdsOf(c), FdsOf(cpu)
    PROVE  FdsOf(c)'
<1>1. /\ pc = "cleanup" /\ pc' = "freeEpoll" /\ UNCHANGED <<infos, tasks, status, cpu>>
      /\ UNCHANGED <<epoll_fd, event_fds, timerFailed>>
  BY DEF Cleanup, simulatorVars
<1>2. PICK garbage \in SUBSET (OpenFds \ Written) :
        /\ Close(Written \cup garbage)
        /\ stray' = (stray \/ \E fd \in garbage : owner[fd] # cpu)
        /\ Unregister(Written \cup garbage)
  BY DEF Cleanup
<1>3. cpu \in Cpus /\ status[cpu] = "building" /\ (c # cpu => status[c] # "building")
  BY <1>1, AtCpu DEF BuildLabels
<1>4. Failing(cpu)
  BY <1>1, <1>3 DEF FdsOf
<1>5. Written \cup garbage \subseteq Owned(cpu) /\ garbage \subseteq {epoll_fd[cpu]}
  <2>1. Written \subseteq Owned(cpu) /\ Owned(cpu) \ Written \subseteq {epoll_fd[cpu]}
    BY <1>4 DEF Failing, Written
  <2>2. garbage \subseteq Owned(cpu) /\ garbage \cap Written = {}
    BY <1>2 DEF OpenFds, Owned
  <2>3. QED
    BY <2>1, <2>2
<1>6. CASE c = cpu
  <2>1. timerFailed[c] = 0 /\ epoll_fd[c] \in Fds
    BY <1>4, <1>6 DEF Failing
  <2>2. Owned(c)' \ {epoll_fd[c]} = {}
    BY <1>2, <1>4, <1>6, CloseOwned DEF Failing, Written
  <2>3. nodes'[c] = {}
    BY <1>2, <1>4, <1>6 DEF Failing, Written, Unregister, TypeOK
  <2>4. LeftIndices(c)' = {} /\ LeftOver(c)' = {} /\ NodesOf(c, {})' = {}
    BY <1>1, <2>1, NothingLeft DEF LeftIndices, LeftOver, NodesOf
  <2>5. Closing(c)'
    BY <1>1, <2>1, <2>2, <2>3, <2>4 DEF Closing, NodesOf
  <2>6. QED
    BY <1>1, <1>3, <1>6, <2>5 DEF FdsOf, ThreadLabels
<1>7. CASE c # cpu
  <2>1. nodes'[c] = nodes[c]
    BY <1>2, <1>7 DEF Unregister, TypeOK
  <2>2. QED
    BY <1>1, <1>2, <1>3, <1>5, <1>7, <2>1, ClosedElsewhere
<1>8. QED
  BY <1>6, <1>7

LEMMA FdsFreeEpoll ==
    ASSUME TypeOK, LifeInv, FreeEpoll, NEW c \in Cpus, FdsOf(c)
    PROVE  FdsOf(c)'
<1> DEFINE fds == {epoll_fd[cpu]} \cap {fd \in Fds : owner[fd] = cpu}
<1>1. /\ pc = "freeEpoll" /\ pc' = "deinit" /\ UNCHANGED <<infos, tasks, status, cpu>>
      /\ UNCHANGED <<epoll_fd, event_fds, nodes, timerFailed>>
      /\ Close(fds)
  BY DEF FreeEpoll, simulatorVars
<1>2. cpu \in Cpus /\ status[cpu] = "building" /\ (c # cpu => status[c] # "building")
  BY <1>1, AtCpu DEF BuildLabels
<1>3. fds \subseteq Owned(cpu) /\ fds = {epoll_fd[cpu]} \cap Owned(cpu)
  BY DEF Owned
<1> HIDE DEF fds
<1>4. CASE c = cpu
  <2>1. Closing(c)
    BY <1>1, <1>2, <1>4 DEF FdsOf
  <2>2. Owned(c)' = Owned(c) \ {epoll_fd[c]}
    BY <1>1, <1>3, <1>4, CloseOwned
  <2>3. LeftIndices(c)' = LeftIndices(c) /\ LeftOver(c)' = LeftOver(c)
        /\ NodesOf(c, LeftIndices(c))' = NodesOf(c, LeftIndices(c))
    BY <1>1 DEF LeftIndices, LeftOver, NodesOf
  <2>4. Released(c)'
    BY <1>1, <2>1, <2>2, <2>3 DEF Released, Closing
  <2>5. QED
    BY <1>1, <1>2, <1>4, <2>4 DEF FdsOf, ThreadLabels
<1>5. CASE c # cpu
  BY <1>1, <1>2, <1>3, <1>5, ClosedElsewhere
<1>6. QED
  BY <1>4, <1>5

\* The steps that touch no descriptor.
FdsAndTasks == <<infos, tasks, fdVars>>

LEMMA FdsUntouched ==
    ASSUME NEW c \in Cpus, UNCHANGED FdsAndTasks
    PROVE  /\ NoEvents(c)' = NoEvents(c) /\ EventsOpen(c)' = EventsOpen(c)
           /\ AllEvents(c)' = AllEvents(c) /\ Failing(c)' = Failing(c)
           /\ Closing(c)' = Closing(c) /\ Released(c)' = Released(c)
BY FdsKept DEF FdsAndTasks, fdVars, Owned

LEMMA FdsEpollFails ==
    ASSUME TypeOK, LifeInv, EpollFails, NEW c \in Cpus, FdsOf(c)
    PROVE  FdsOf(c)'
<1>1. /\ pc = "epoll" /\ pc' = "deinit" /\ UNCHANGED status /\ UNCHANGED FdsAndTasks
  BY DEF EpollFails, simulatorVars, FdsAndTasks
<1>2. status[cpu] = "building" /\ (c # cpu => status[c] # "building")
  BY <1>1, AtCpu DEF BuildLabels
<1>3. CASE c = cpu
  <2>1. NoEvents(c)
    BY <1>1, <1>2, <1>3 DEF FdsOf
  <2>2. Released(c)
    BY <2>1, NothingLeft DEF Released, NoEvents
  <2>3. QED
    BY <1>1, <1>2, <1>3, <2>2, FdsUntouched DEF FdsOf, ThreadLabels
<1>4. CASE c # cpu
  BY <1>1, <1>2, <1>4, FdsUntouched DEF FdsOf
<1>5. QED
  BY <1>3, <1>4

LEMMA FdsEventsCreated ==
    ASSUME TypeOK, LifeInv, FullInv', EventsCreated, NEW c \in Cpus, FdsOf(c)
    PROVE  FdsOf(c)'
<1>1. /\ pc = "events" /\ pc' = "createTiming" /\ UNCHANGED status /\ UNCHANGED FdsAndTasks
  BY DEF EventsCreated, simulatorVars, FdsAndTasks
<1>2. status[cpu] = "building" /\ (c # cpu => status[c] # "building")
  BY <1>1, AtCpu DEF BuildLabels
<1>3. CASE c = cpu
  <2>1. EventsOpen(c)' /\ Whole(c)'
    BY <1>1, <1>2, <1>3, FdsUntouched DEF FdsOf, FullInv, FullOf, ThreadLabels
  <2>2. AllEvents(c)'
    BY <2>1 DEF AllEvents, Whole
  <2>3. QED
    BY <1>1, <1>2, <1>3, <2>2 DEF FdsOf, ThreadLabels
<1>4. CASE c # cpu
  BY <1>1, <1>2, <1>4, FdsUntouched DEF FdsOf
<1>5. QED
  BY <1>3, <1>4

\* Before load_tasks there is no scheduler.
LEMMA FdsLoad ==
    ASSUME TypeOK, LifeInv, Load, NEW c \in Cpus, FdsOf(c)
    PROVE  FdsOf(c)'
<1>1. status[c] = "none" /\ UNCHANGED <<status, fdVars>>
  BY CpuTypes DEF Load, LifeInv, LifeOf, Unloaded, Untouched, TypeOK
<1>2. NoEvents(c)
  BY <1>1 DEF FdsOf
<1>3. NoEvents(c)'
  BY <1>1, <1>2 DEF NoEvents, Owned, fdVars
<1>4. QED
  BY <1>1, <1>3 DEF FdsOf

LEMMA FdsQuiet ==
    ASSUME TypeOK, LifeInv, NEW c \in Cpus, FdsOf(c),
           \/ Skip \/ InitScheduler \/ AllCreated \/ Deinit
           \/ CreateTimingThread \/ CreateSchedulerThread \/ ThreadFails \/ InitComplete
           \/ Run \/ Destroy \/ FreeTasks
           \/ \E d \in Cpus : ThreadUp(d) \/ BindCpu(d) \/ BindFails(d)
           \/ UNCHANGED vars
    PROVE  FdsOf(c)'
<1> USE DEF FdsOf, ThreadLabels, Threaded, BuildLabels, Creating
<1>1. UNCHANGED FdsAndTasks
  BY DEF FdsAndTasks, Skip, InitScheduler, AllCreated, Deinit, CreateTimingThread,
     CreateSchedulerThread, ThreadFails, InitComplete, Run, Destroy, FreeTasks,
     ThreadUp, BindCpu, BindFails, vars, simulatorVars
<1>2. /\ NoEvents(c)' = NoEvents(c) /\ EventsOpen(c)' = EventsOpen(c)
      /\ AllEvents(c)' = AllEvents(c) /\ Failing(c)' = Failing(c)
      /\ Closing(c)' = Closing(c) /\ Released(c)' = Released(c)
  BY <1>1, FdsUntouched
<1>3. /\ LifeOf(c) /\ (pc \in BuildLabels => cpu \in Cpus) /\ LifeTypes
      /\ (c # cpu => status[c] # "building")
  BY Elsewhere, LifeTyped DEF LifeInv
<1> USE <1>2, <1>3 DEF LifeOf, Building, LifeTypes
<1>4. CASE Skip \/ AllCreated \/ Run \/ Destroy \/ FreeTasks
  BY <1>4 DEF Skip, AllCreated, NextCpu, Run, Destroy, FreeTasks, threadVars
<1>5. CASE InitScheduler
  BY <1>5, CpuTypes DEF InitScheduler, Untouched, threadVars
<1>6. CASE Deinit
  BY <1>6 DEF Deinit, NextCpu
<1>7. CASE CreateTimingThread
  BY <1>7 DEF CreateTimingThread
<1>8. CASE CreateSchedulerThread
  BY <1>8 DEF CreateSchedulerThread
<1>9. CASE ThreadFails
  BY <1>9 DEF ThreadFails, threadVars
<1>10. CASE InitComplete
  BY <1>10 DEF InitComplete, NextCpu, threadVars
<1>11. ASSUME NEW d \in Cpus, ThreadUp(d) \/ BindCpu(d) PROVE FdsOf(c)'
  BY <1>11 DEF ThreadUp, BindCpu
<1>12. ASSUME NEW d \in Cpus, BindFails(d) PROVE FdsOf(c)'
  BY <1>12 DEF BindFails
<1>13. CASE UNCHANGED vars
  BY <1>13 DEF vars, threadVars
<1>14. QED
  BY <1>4, <1>5, <1>6, <1>7, <1>8, <1>9, <1>10, <1>11, <1>12, <1>13

\* The history of a wrong close is never forgotten.
LEMMA StrayKept == TypeOK /\ [Next]_vars /\ stray => stray'
BY DEF TypeOK, Next, MainStep, Load, Skip, InitScheduler, AllCreated, CreateEpoll,
   EpollFails, AddEvent, CtlFails, TimerFails, EventFails, EventsCreated, Cleanup,
   FreeEpoll, Deinit, CreateTimingThread, CreateSchedulerThread, ThreadFails,
   InitComplete, Run, Destroy, FreeTasks, ThreadUp, BindCpu, BindFails, Join, Ended,
   vars, simulatorVars, fdVars, threadVars

LEMMA FdStep == TypeOK /\ LifeInv /\ FullInv' /\ FdInv /\ [Next]_vars => FdInv'
<1> SUFFICES ASSUME TypeOK, LifeInv, FullInv', FdInv, [Next]_vars, ~stray', NEW c \in Cpus
             PROVE  FdsOf(c)'
  BY DEF FdInv
<1>1. FdsOf(c) /\ \A d \in Cpus : FdsOf(d)
  BY StrayKept DEF FdInv
<1>2. CASE Cleanup
  <2>1. cpu \in Cpus
    BY <1>2, AtCpu DEF Cleanup, BuildLabels
  <2>2. QED
    BY <1>1, <1>2, <2>1, FdsCleanup
<1>3. CASE Load \/ CreateEpoll \/ EpollFails \/ AddEvent \/ CtlFails \/ TimerFails
           \/ EventFails \/ EventsCreated \/ FreeEpoll
  BY <1>1, <1>3, FdsLoad, FdsCreateEpoll, FdsEpollFails, FdsAddEvent, FdsCtlFails,
     FdsTimerFails, FdsEventFails, FdsEventsCreated, FdsFreeEpoll
<1>4. QED
  BY <1>1, <1>2, <1>3, FdsQuiet DEF Next, MainStep, Join, Ended

-----------------------------------------------------------------------------
(* The theorems                                                            *)

\* The types, the life of the schedulers and their descriptors are kept by every step,
\* only together: what a thread may use depends on how far create_scheduler has come,
\* and the timers that run starts on the events that were written down.
LEMMA Safe == Spec => []SafeInv
<1>1. Init => SafeInv
  BY TypeInit, LifeInit, FullInit, FdInit DEF SafeInv
<1>2. SafeInv /\ [Next]_vars => SafeInv'
  BY TypeStep, LifeStep, FullStep, FdStep DEF SafeInv
<1>3. QED
  BY <1>1, <1>2, PTL DEF Spec

\* The state of main, of the schedulers and of the descriptors stays within its types,
\* for any arrays of tasks, CPUs and limit on descriptors.
THEOREM TypeCorrect == Spec => []TypeOK
<1>1. SafeInv => TypeOK
  BY DEF SafeInv
<1>2. QED
  BY <1>1, Safe, PTL

\* No failure path and no destroy_simulator frees the scheduler or the tasks of a CPU
\* that has a timing thread or a scheduler thread.
THEOREM NothingFreed == Spec => []NothingFreedInUse
<1>1. SafeInv => NothingFreedInUse
  BY DEF SafeInv, TypeOK, LifeInv, LifeOf, Unthreaded, Freed, Threaded, NothingFreedInUse
<1>2. QED
  BY <1>1, Safe, PTL

\* table_scheduler_create_epoll leaves a scheduler that goes on to its threads with
\* exactly one registered, watched descriptor for each of its events, whatever calls
\* failed for the schedulers before it.
THEOREM EventTableIsExact == Spec => []EventTableExact
<1>1. SafeInv => EventTableExact
  <2> SUFFICES ASSUME SafeInv, ~stray, NEW c \in Cpus, Threaded(c)
               PROVE  /\ Len(event_fds[c]) = NumEvents(c) /\ IsInjective(event_fds[c])
                      /\ nodes[c] = {[fd |-> event_fds[c][i], index |-> i] :
                                        i \in 1 .. NumEvents(c)}
                      /\ epoll[c] = Range(event_fds[c])
                      /\ Owned(c) = epoll[c] \cup {epoll_fd[c]}
    BY DEF EventTableExact
  <2>1. FdsOf(c) /\ LifeOf(c) /\ TypeOK
    BY DEF SafeInv, FdInv, LifeInv
  <2>2. AllEvents(c)
    BY <2>1 DEF TypeOK, FdsOf, LifeOf, Unthreaded, Building, ThreadLabels
  <2>3. DOMAIN event_fds[c] = 1 .. NumEvents(c)
    BY <2>2 DEF AllEvents, EventsOpen
  <2>4. QED
    BY <2>2, <2>3 DEF AllEvents, EventsOpen, NodesOf
<1>2. QED
  BY <1>1, Safe, PTL

\* The failure path of create_scheduler closes every descriptor and takes back every
\* node, but for those of the tables before one whose timerfd_create failed.
THEOREM FailureReleases == Spec => []FailureReleasesAll
<1>1. SafeInv => FailureReleasesAll
  BY DEF SafeInv, FdInv, FdsOf, Released, LeftOver, LeftIndices, NodesOf,
     FailureReleasesAll
<1>2. QED
  BY <1>1, Safe, PTL

\* A CPU whose timers were started has a scheduler thread that waits and a timing
\* thread that watches those timers, unless the process ended or bind_cpu failed before
\* scheduler_tid was set.
THEOREM RunTimed == Spec => []RunIsTimed
<1>1. SafeInv => RunIsTimed
  <2> SUFFICES ASSUME SafeInv, NEW c \in Cpus, armed[c] # {}
               PROVE  /\ timing[c] \in {"bind", "loop"} \/ c \in unsetTid
                      /\ thread[c] = "up"
                      /\ stray \/ armed[c] \subseteq epoll[c]
    BY DEF RunIsTimed
  <2>1. LifeOf(c) /\ TypeOK /\ (stray \/ FdsOf(c))
    BY DEF SafeInv, FdInv, LifeInv
  <2>2. /\ status[c] = "created" /\ armed[c] = Timers(c) /\ tasks[c] # <<>>
        /\ thread[c] = "up" /\ timing[c] # "none" /\ (timing[c] = "ended" => c \in unsetTid)
    BY <2>1 DEF LifeOf, Armed, Created, Timed
  <2>3. ASSUME ~stray PROVE Timers(c) \subseteq epoll[c]
    <3>1. AllEvents(c)
      BY <2>1, <2>2, <2>3 DEF FdsOf
    <3>2. NumTables(c) \in Nat \ {0} /\ NumEvents(c) = NumTables(c) + 2
      BY <2>1, <2>2, TablesNumber DEF TypeOK
    <3>3. 1 .. NumTables(c) \subseteq DOMAIN event_fds[c]
      BY <3>1, <3>2 DEF AllEvents, EventsOpen
    <3>4. QED
      BY <3>1, <3>3 DEF AllEvents, EventsOpen, Timers, Range
  <2>4. timing[c] \in {"bind", "loop"} \/ c \in unsetTid
    BY <2>1, <2>2 DEF TypeOK
  <2>5. QED
    BY <2>2, <2>3, <2>4
<1>2. QED
  BY <1>1, Safe, PTL

\* What load_tasks leaves: all tasks on the CPU of the first one, in their order.
LoadedTasks(c) ==
    IF infos # <<>> /\ infos[1].cpu = c THEN [t \in DOMAIN infos |-> t] ELSE <<>>
LoadInv ==
    /\ DOMAIN tasks = Cpus
    /\ pc = "load" => \A c \in Cpus : tasks[c] = <<>>
    /\ pc \notin {"load", "gone"} => \A c \in Cpus : tasks[c] = LoadedTasks(c)

LEMMA LoadStep == LoadInv /\ [Next]_vars => LoadInv'
<1> SUFFICES ASSUME LoadInv, [Next]_vars PROVE LoadInv'
  OBVIOUS
<1>1. CASE Load
  BY <1>1 DEF LoadInv, LoadedTasks, Load, Loaded
<1>2. CASE ~Load
  <2> DEFINE Kept == UNCHANGED <<infos, tasks>> /\ (pc = "load" <=> pc' = "load")
                     /\ (pc = "gone" => pc' = "gone")
  <2>1. ASSUME MainStep PROVE Kept
    BY <1>2, <2>1 DEF MainStep, Skip, InitScheduler, AllCreated, CreateEpoll,
       EpollFails, AddEvent, CtlFails, TimerFails, EventFails, EventsCreated, Creating,
       Cleanup, FreeEpoll, Deinit, NextCpu, CreateTimingThread, CreateSchedulerThread,
       ThreadFails, InitComplete, Run, Destroy, FreeTasks, simulatorVars
  <2>2. ASSUME NEW c \in Cpus, pc # "load", ThreadUp(c) \/ BindCpu(c) \/ BindFails(c)
        PROVE  Kept
    BY <2>2 DEF ThreadUp, BindCpu, BindFails, simulatorVars
  <2>3. ASSUME NEW c \in Cpus, pc = "load", ThreadUp(c) \/ BindCpu(c) \/ BindFails(c)
        PROVE  LoadInv'
    BY <2>3 DEF ThreadUp, BindCpu, BindFails, simulatorVars, LoadInv, LoadedTasks
  <2>4. ASSUME UNCHANGED vars PROVE Kept
    BY <2>4 DEF vars, simulatorVars
  <2>5. ASSUME Kept PROVE LoadInv'
    BY <2>5 DEF LoadInv, LoadedTasks
  <2>6. QED
    BY <2>1, <2>2, <2>3, <2>4, <2>5 DEF Next, Join, Ended
<1>3. QED
  BY <1>1, <1>2

\* If all tasks name one CPU, load_tasks puts each of them there exactly once, and
\* nowhere else.
THEOREM TasksPlaced == Spec => []TasksOnTheirCpu
<1>1. Init => LoadInv
  BY DEF Init, LoadInv
<1>2. LoadInv => TasksOnTheirCpu
  <2> SUFFICES ASSUME LoadInv, pc \notin {"load", "gone"}, OneCpu,
                      NEW t \in DOMAIN infos, NEW c \in Cpus
               PROVE  Cardinality({i \in DOMAIN tasks[c] : tasks[c][i] = t})
                          = IF infos[t].cpu = c THEN 1 ELSE 0
    BY DEF TasksOnTheirCpu
  <2> DEFINE places == {i \in DOMAIN tasks[c] : tasks[c][i] = t}
  <2>1. infos # <<>> /\ infos[t].cpu = infos[1].cpu /\ tasks[c] = LoadedTasks(c)
    BY DEF LoadInv, OneCpu
  <2>2. CASE infos[t].cpu = c
    <3>1. places = {t}
      BY <2>1, <2>2 DEF LoadedTasks
    <3>2. QED
      BY <2>2, <3>1, FS_Singleton
  <2>3. CASE infos[t].cpu # c
    <3>1. places = {}
      BY <2>1, <2>3 DEF LoadedTasks
    <3>2. QED
      BY <2>3, <3>1, FS_EmptySet
  <2>4. QED
    BY <2>2, <2>3
<1>3. QED
  BY <1>1, <1>2, LoadStep, PTL DEF Spec

=============================================================================
