------------------------------ MODULE Simulator ------------------------------
(***************************************************************************)
(* create_simulator, run_simulator and destroy_simulator: the tasks, the   *)
(* descriptors and the threads of the schedulers of all CPUs, with every   *)
(* system call that may fail.                                              *)
(*                                                                         *)
(* main makes the three calls in this order, as the unit test does.  A     *)
(* descriptor is a number, the lowest that is free, and owner says for     *)
(* which CPU it is open.  What the threads do once they run is Scheduler's *)
(* matter; malloc succeeds, as the code assumes.                           *)
(***************************************************************************)
EXTENDS Integers, FiniteSets, Sequences, Functions, FiniteSetsExt

CONSTANTS
    InfoSets,       \* the arrays of task_struct_info: sequences of cpu and table_id
    NumCpus,        \* MAX_NUM_CPU
    MaxFds,         \* limit of the process on open descriptors
    MaxTableId      \* bound: the largest table_id, as an int INT_MAX

NativeEventNum == 2      \* NATIVE_EVENT_TASK and NATIVE_EVENT_ISR

Cpus == 0 .. NumCpus - 1
Fds == 0 .. MaxFds - 1
StdFds == 0 .. 2
Nobody == -1       \* the owner of a closed descriptor
Std == -2          \* the owner of standard input, output and error
NoFd == -1

ASSUME SimulatorAssumption ==
    /\ NumCpus \in Nat \ {0}
    /\ MaxFds \in Nat /\ 3 <= MaxFds
    /\ MaxTableId \in Nat
    /\ InfoSets \subseteq Seq([cpu : Nat, table_id : 0 .. MaxTableId])

VARIABLES
    infos,          \* task_info_arr
    supported,      \* sched_class_arr has a class for the strategy
    tasks,          \* tasks_persched: the tasks of a CPU, by their index in infos
    pc,             \* where main is
    cpu,            \* its loop variable
    status,         \* the scheduler of a CPU: none, building, created, failed
    owner,          \* the CPU each descriptor is open for
    epoll_fd,
    epoll,          \* the descriptors in the epoll set of a CPU
    event_fds,      \* the entries written so far
    nodes,          \* event_hashtable: the nodes that are registered
    armed,          \* the timers started by table_scheduler_start
    timing,         \* the timing thread: none, bind, loop, ended
    thread,         \* the scheduler thread: none, init, up
    freed,          \* CPUs whose task structures were freed
    timerFailed,    \* history: the table whose timerfd_create failed, or 0
    stray,          \* history: a descriptor of another owner was closed
    unsetTid        \* history: CPUs whose kill_scheduler found no scheduler_tid

simulatorVars == <<infos, supported, tasks, freed>>
fdVars == <<owner, epoll_fd, epoll, event_fds, nodes, timerFailed, stray>>
threadVars == <<timing, thread, unsetTid>>
vars == <<simulatorVars, pc, cpu, status, armed, fdVars, threadVars>>

\* num_schedule_table, and num_events.
NumTables(c) == Max({infos[t].table_id : t \in Range(tasks[c])}) + 1
NumEvents(c) == NumTables(c) + NativeEventNum

Init ==
    /\ infos \in InfoSets
    /\ supported \in BOOLEAN
    /\ tasks = [c \in Cpus |-> <<>>]
    /\ pc = "load"
    /\ cpu = 0
    /\ status = [c \in Cpus |-> "none"]
    /\ owner = [fd \in Fds |-> IF fd \in StdFds THEN Std ELSE Nobody]
    /\ epoll_fd = [c \in Cpus |-> NoFd]
    /\ epoll = [c \in Cpus |-> {}]
    /\ event_fds = [c \in Cpus |-> <<>>]
    /\ nodes = [c \in Cpus |-> {}]
    /\ armed = [c \in Cpus |-> {}]
    /\ timing = [c \in Cpus |-> "none"]
    /\ thread = [c \in Cpus |-> "none"]
    /\ freed = {}
    /\ timerFailed = [c \in Cpus |-> 0]
    /\ stray = FALSE
    /\ unsetTid = {}

-----------------------------------------------------------------------------
(* load_tasks: all tasks go to the CPU of the first one.  If that CPU does *)
(* not exist the code indexes out of bounds, which ends the process.       *)

LoadedFromFirst(c) == [tasks EXCEPT ![c] = [t \in DOMAIN infos |-> 1]]     \* mutant
Loaded(c) == [tasks EXCEPT ![c] = [t \in DOMAIN infos |-> t]]

Load ==
    /\ pc = "load"
    /\ \/ infos = <<>> /\ pc' = "next" /\ UNCHANGED tasks
       \/ infos # <<>> /\ infos[1].cpu \in Cpus
          /\ tasks' = Loaded(infos[1].cpu) /\ pc' = "next"
       \/ infos # <<>> /\ infos[1].cpu \notin Cpus
          /\ pc' = "gone" /\ UNCHANGED tasks
    /\ UNCHANGED <<infos, supported, freed, cpu, status, armed, fdVars, threadVars>>

-----------------------------------------------------------------------------
(* create_simulator, the loop over the CPUs                                *)

NextCpu == cpu' = cpu + 1 /\ pc' = "next"

\* A CPU without tasks, or a strategy without a class.
Skip ==
    /\ pc = "next" /\ cpu \in Cpus
    /\ tasks[cpu] = <<>> \/ ~supported
    /\ NextCpu
    /\ UNCHANGED <<simulatorVars, status, armed, fdVars, threadVars>>

\* init_scheduler and table_scheduler_init.
InitScheduler ==
    /\ pc = "next" /\ cpu \in Cpus
    /\ tasks[cpu] # <<>> /\ supported
    /\ status' = [status EXCEPT ![cpu] = "building"]
    /\ pc' = "epoll"
    /\ UNCHANGED <<simulatorVars, cpu, armed, fdVars, threadVars>>

AllCreated ==
    /\ pc = "next" /\ cpu = NumCpus
    /\ pc' = "run" /\ cpu' = 0
    /\ UNCHANGED <<simulatorVars, status, armed, fdVars, threadVars>>

-----------------------------------------------------------------------------
(* table_scheduler_create_epoll                                            *)

FreeFds == {fd \in Fds : owner[fd] = Nobody}
Open(fd) ==
    /\ FreeFds # {} /\ fd = Min(FreeFds)
    /\ owner' = [owner EXCEPT ![fd] = cpu]

CreateEpoll ==
    /\ pc = "epoll"
    /\ \E fd \in FreeFds : Open(fd) /\ epoll_fd' = [epoll_fd EXCEPT ![cpu] = fd]
    /\ pc' = "events"
    /\ UNCHANGED <<simulatorVars, cpu, status, armed, epoll, event_fds, nodes,
                   timerFailed, stray, threadVars>>

EpollFails ==
    /\ pc = "epoll"
    /\ pc' = "deinit"
    /\ UNCHANGED <<simulatorVars, cpu, status, armed, fdVars, threadVars>>

\* The two loops: first the timers of the tables, then the native events.
Index == Len(event_fds[cpu]) + 1
CreatingOneMore == pc = "events" /\ Index <= NumEvents(cpu) + 1     \* mutant
Creating == pc = "events" /\ Index <= NumEvents(cpu)

Register(fd) ==
    /\ event_fds' = [event_fds EXCEPT ![cpu] = Append(@, fd)]
    /\ nodes' = [nodes EXCEPT ![cpu] = @ \cup {[fd |-> fd, index |-> Index]}]

AddEvent ==
    /\ Creating
    /\ \E fd \in FreeFds :
        /\ Open(fd) /\ Register(fd)
        /\ epoll' = [epoll EXCEPT ![cpu] = @ \cup {fd}]
    /\ UNCHANGED <<simulatorVars, pc, cpu, status, armed, epoll_fd, timerFailed, stray,
                   threadVars>>

CtlIgnored ==      \* mutant
    /\ Creating
    /\ \E fd \in FreeFds : Open(fd) /\ Register(fd)
    /\ UNCHANGED <<simulatorVars, pc, cpu, status, armed, epoll_fd, epoll, timerFailed,
                   stray, threadVars>>
\* epoll_ctl fails: the descriptor is open and its node registered.
CtlFails ==
    /\ Creating
    /\ \E fd \in FreeFds : Open(fd) /\ Register(fd)
    /\ pc' = "cleanup"
    /\ UNCHANGED <<simulatorVars, cpu, status, armed, epoll_fd, epoll, timerFailed,
                   stray, threadVars>>

\* timerfd_create fails: the jump is past the loop that closes the earlier ones.
TimerFails ==
    /\ Creating /\ Index <= NumTables(cpu)
    /\ timerFailed' = [timerFailed EXCEPT ![cpu] = Index]
    /\ pc' = "freeEpoll"
    /\ UNCHANGED <<simulatorVars, cpu, status, armed, owner, epoll_fd, epoll, event_fds,
                   nodes, stray, threadVars>>

EventFails ==
    /\ Creating /\ Index > NumTables(cpu)
    /\ event_fds' = [event_fds EXCEPT ![cpu] = Append(@, NoFd)]
    /\ pc' = "cleanup"
    /\ UNCHANGED <<simulatorVars, cpu, status, armed, owner, epoll_fd, epoll, nodes,
                   timerFailed, stray, threadVars>>

EventsCreated ==
    /\ pc = "events" /\ Index > NumEvents(cpu)
    /\ pc' = "createTiming"
    /\ UNCHANGED <<simulatorVars, cpu, status, armed, fdVars, threadVars>>

-----------------------------------------------------------------------------
(* The failure path                                                        *)

\* The kernel takes a closed descriptor out of every epoll set.
Close(fds) ==
    /\ owner' = [fd \in Fds |-> IF fd \in fds THEN Nobody ELSE owner[fd]]
    /\ epoll' = [c \in Cpus |-> IF epoll_fd[c] \in fds THEN {} ELSE epoll[c] \ fds]

OpenFds == {fd \in Fds : owner[fd] # Nobody}
WrittenTimers ==     \* mutant: the loop goes to num_schedule_table
    {event_fds[cpu][i] : i \in DOMAIN event_fds[cpu] \cap 1 .. NumTables(cpu)} \ {NoFd}
Written == Range(event_fds[cpu]) \ {NoFd}

\* unregister_event_table, for each of the descriptors.
Unregister(fds) == nodes' = [nodes EXCEPT ![cpu] = {n \in @ : n.fd \notin fds}]

\* create_eventfd_fail goes over all of event_fds.  The entries not written yet
\* have whatever value the memory had, and may be any open descriptors.
Cleanup ==
    /\ pc = "cleanup"
    /\ \E garbage \in SUBSET (OpenFds \ Written) :
        /\ Cardinality(garbage) <= NumEvents(cpu) - Len(event_fds[cpu])
        /\ Close(Written \cup garbage)
        /\ stray' = (stray \/ \E fd \in garbage : owner[fd] # cpu)
        /\ Unregister(Written \cup garbage)
    /\ pc' = "freeEpoll"
    /\ UNCHANGED <<simulatorVars, cpu, status, armed, epoll_fd, event_fds, timerFailed,
                   threadVars>>

\* create_timer_fail: if garbage had closed epoll_fd already this fails.
FreeEpoll ==
    /\ pc = "freeEpoll"
    /\ Close({epoll_fd[cpu]} \cap {fd \in Fds : owner[fd] = cpu})
    /\ pc' = "deinit"
    /\ UNCHANGED <<simulatorVars, cpu, status, armed, epoll_fd, event_fds, nodes,
                   timerFailed, stray, threadVars>>

\* table_scheduler_deinit, deinit_scheduler and the end of create_scheduler.
Deinit ==
    /\ pc = "deinit"
    /\ status' = [status EXCEPT ![cpu] = "failed"]
    /\ NextCpu
    /\ UNCHANGED <<simulatorVars, armed, fdVars, threadVars>>

-----------------------------------------------------------------------------
(* scheduler_create_threads                                                *)

CreateTimingThread ==
    /\ pc = "createTiming"
    /\ timing' = [timing EXCEPT ![cpu] = "bind"]
    /\ pc' = "createScheduler"
    /\ UNCHANGED <<simulatorVars, cpu, status, armed, fdVars, thread, unsetTid>>

CreateSchedulerThread ==
    /\ pc = "createScheduler"
    /\ thread' = [thread EXCEPT ![cpu] = "init"]
    /\ pc' = "wait"
    /\ UNCHANGED <<simulatorVars, cpu, status, armed, fdVars, timing, unsetTid>>

\* pthread_create fails: exit(-1).
ThreadFails ==
    /\ pc \in {"createTiming", "createScheduler"}
    /\ pc' = "gone"
    /\ UNCHANGED <<simulatorVars, cpu, status, armed, fdVars, threadVars>>

\* wait_scheduler_complete_init.
InitComplete ==
    /\ pc = "wait" /\ thread[cpu] = "up"
    /\ status' = [status EXCEPT ![cpu] = "created"]
    /\ NextCpu
    /\ UNCHANGED <<simulatorVars, armed, fdVars, threadVars>>

ThreadStaysInit(c) ==      \* mutant: the state is not stored
    /\ pc # "gone" /\ thread[c] = "init"
    /\ UNCHANGED vars
\* scheduler_thread, up to its first scheduler_wait_resume, in which it stores the
\* state and signals.
ThreadUp(c) ==
    /\ pc # "gone" /\ thread[c] = "init"
    /\ thread' = [thread EXCEPT ![c] = "up"]
    /\ UNCHANGED <<simulatorVars, pc, cpu, status, armed, fdVars, timing, unsetTid>>

BindCpu(c) ==
    /\ pc # "gone" /\ timing[c] = "bind"
    /\ timing' = [timing EXCEPT ![c] = "loop"]
    /\ UNCHANGED <<simulatorVars, pc, cpu, status, armed, fdVars, thread, unsetTid>>

BindFailsUnheard(c) ==      \* mutant: return NULL
    /\ pc # "gone" /\ timing[c] = "bind"
    /\ timing' = [timing EXCEPT ![c] = "ended"]
    /\ UNCHANGED <<simulatorVars, pc, cpu, status, armed, fdVars, thread, unsetTid>>
\* bind_cpu fails and kill_scheduler sends SIGINT, which ends the process.  Before
\* main has created the scheduler thread scheduler_tid is not set, and the signal
\* may as well reach nobody.
BindFails(c) ==
    /\ pc # "gone" /\ timing[c] = "bind"
    /\ \/ pc' = "gone" /\ UNCHANGED <<timing, unsetTid>>
       \/ /\ thread[c] = "none"
          /\ timing' = [timing EXCEPT ![c] = "ended"]
          /\ unsetTid' = unsetTid \cup {c}
          /\ UNCHANGED pc
    /\ UNCHANGED <<simulatorVars, cpu, status, armed, fdVars, thread>>

-----------------------------------------------------------------------------
(* run_simulator and destroy_simulator                                     *)

Timers(c) == {event_fds[c][i] : i \in 1 .. NumTables(c)}

Run ==
    /\ pc = "run" /\ cpu \in Cpus
    /\ armed' = IF status[cpu] = "created"
                THEN [armed EXCEPT ![cpu] = Timers(cpu)] ELSE armed
    /\ cpu' = cpu + 1
    /\ UNCHANGED <<simulatorVars, pc, status, fdVars, threadVars>>

Destroy ==
    /\ pc = "run" /\ cpu = NumCpus
    /\ pc' = "destroy" /\ cpu' = 0
    /\ UNCHANGED <<simulatorVars, status, armed, fdVars, threadVars>>

FreeTasksUnjoined ==      \* mutant
    /\ pc = "destroy" /\ cpu \in Cpus
    /\ freed' = IF tasks[cpu] = <<>> THEN freed ELSE freed \cup {cpu}
    /\ cpu' = cpu + 1
    /\ UNCHANGED <<infos, supported, tasks, pc, status, armed, fdVars, threadVars>>
\* One iteration for a CPU without scheduler.  destroy_scheduler joins threads that
\* never end: scheduler_stop is never set.
FreeTasks ==
    /\ pc = "destroy" /\ cpu \in Cpus /\ status[cpu] # "created"
    /\ freed' = IF tasks[cpu] = <<>> THEN freed ELSE freed \cup {cpu}
    /\ cpu' = cpu + 1
    /\ UNCHANGED <<infos, supported, tasks, pc, status, armed, fdVars, threadVars>>

-----------------------------------------------------------------------------

MainStep ==
    \/ Load \/ Skip \/ InitScheduler \/ AllCreated
    \/ CreateEpoll \/ EpollFails
    \/ AddEvent \/ CtlFails \/ TimerFails \/ EventFails \/ EventsCreated
    \/ Cleanup \/ FreeEpoll \/ Deinit
    \/ CreateTimingThread \/ CreateSchedulerThread \/ ThreadFails \/ InitComplete
    \/ Run \/ Destroy \/ FreeTasks

\* pthread_join waits for a thread that never ends.
Join ==
    /\ pc = "destroy" /\ cpu \in Cpus /\ status[cpu] = "created"
    /\ UNCHANGED vars

Ended ==
    /\ pc = "gone" \/ (pc = "destroy" /\ cpu = NumCpus)
    /\ UNCHANGED vars

Next ==
    \/ MainStep
    \/ \E c \in Cpus : ThreadUp(c) \/ BindCpu(c) \/ BindFails(c)
    \/ Join
    \/ Ended

Spec == Init /\ [][Next]_vars

\* The kernel runs every thread that is ready.
Fairness ==
    /\ WF_vars(MainStep)
    /\ \A c \in Cpus : WF_vars(ThreadUp(c)) /\ WF_vars(BindCpu(c) \/ BindFails(c))

FairSpec == Spec /\ Fairness

-----------------------------------------------------------------------------

Labels == {"load", "next", "epoll", "events", "cleanup", "freeEpoll", "deinit",
           "createTiming", "createScheduler", "wait", "run", "destroy", "gone"}

TypeOK ==
    /\ infos \in InfoSets /\ supported \in BOOLEAN
    /\ tasks \in [Cpus -> Seq(DOMAIN infos)]
    /\ pc \in Labels /\ cpu \in 0 .. NumCpus
    /\ status \in [Cpus -> {"none", "building", "created", "failed"}]
    /\ owner \in [Fds -> Cpus \cup {Nobody, Std}]
    /\ epoll_fd \in [Cpus -> Fds \cup {NoFd}]
    /\ epoll \in [Cpus -> SUBSET Fds]
    /\ event_fds \in [Cpus -> Seq(Fds \cup {NoFd})]
    /\ \A c \in Cpus : tasks[c] # <<>> => Len(event_fds[c]) <= NumEvents(c)
    /\ nodes \in [Cpus -> SUBSET [fd : Fds, index : Nat]]
    /\ armed \in [Cpus -> SUBSET Fds]
    /\ timing \in [Cpus -> {"none", "bind", "loop", "ended"}]
    /\ thread \in [Cpus -> {"none", "init", "up"}]
    /\ freed \subseteq Cpus /\ unsetTid \subseteq Cpus
    /\ timerFailed \in [Cpus -> Nat] /\ stray \in BOOLEAN

\* When all tasks name one CPU, every task is loaded there once and nowhere else,
\* although load_tasks takes the cpu of the first for all of them.
OneCpu == \A t \in DOMAIN infos : infos[t].cpu = infos[1].cpu
TasksOnTheirCpu ==
    pc \notin {"load", "gone"} /\ OneCpu =>
        \A t \in DOMAIN infos, c \in Cpus :
            Cardinality({i \in DOMAIN tasks[c] : tasks[c][i] = t})
                = IF infos[t].cpu = c THEN 1 ELSE 0

Owned(c) == {fd \in Fds : owner[fd] = c}
Threaded(c) == timing[c] # "none" \/ thread[c] # "none"

\* Of a scheduler that has threads, every descriptor in the epoll set is an event of
\* its own with one node, which knows its index, and the other way round: a call that
\* failed on the way leaves no scheduler that cannot hear one of its events.
EventTableExact ==
    ~stray => \A c \in Cpus : Threaded(c) =>
        /\ Len(event_fds[c]) = NumEvents(c) /\ IsInjective(event_fds[c])
        /\ nodes[c] = {[fd |-> event_fds[c][i], index |-> i] : i \in 1 .. NumEvents(c)}
        /\ epoll[c] = Range(event_fds[c])
        /\ Owned(c) = epoll[c] \cup {epoll_fd[c]}

\* A scheduler that could not be created leaves no descriptor open and no node in its
\* table, except that the failure of the timer of a table leaves those of the tables
\* before it; unless its cleanup closed a descriptor that belongs to something else.
FailureReleasesAll ==
    ~stray => \A c \in Cpus : status[c] = "failed" =>
        LET left == 1 .. timerFailed[c] - 1
        IN  /\ Owned(c) = {event_fds[c][i] : i \in left}
            /\ nodes[c] = {[fd |-> event_fds[c][i], index |-> i] : i \in left}

\* Nothing that a thread uses is freed, in create's failure path or by destroy.
NothingFreedInUse ==
    \A c \in Cpus : Threaded(c) =>
        status[c] \in {"building", "created"} /\ c \notin freed

\* A CPU that was run has a thread that waits for its timers, or the process has
\* ended, unless bind_cpu failed before scheduler_tid was set: then its ticks are
\* handled by nobody, and nothing says so.
RunIsTimed ==
    pc # "gone" => \A c \in Cpus : armed[c] # {} =>
        /\ timing[c] \in {"bind", "loop"} \/ c \in unsetTid
        /\ thread[c] = "up"
        /\ stray \/ armed[c] \subseteq epoll[c]

\* create_simulator and run_simulator return, whichever call fails, and
\* leave every scheduler that was created with started timers and a timing thread
\* in its loop; or the process ends.
SimulatorSettles ==
    <>[](\/ pc = "gone"
         \/ /\ pc = "destroy"
            /\ \A c \in Cpus : status[c] = "created" =>
                /\ armed[c] = Timers(c)
                /\ timing[c] = "loop" \/ c \in unsetTid)

=============================================================================
