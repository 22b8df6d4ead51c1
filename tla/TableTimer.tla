------------------------------ MODULE TableTimer ------------------------------
(***************************************************************************)
(* The clock of every schedule table: the time its timerfd is set to, from *)
(* table_scheduler_start on, and the expiry point it stands for.           *)
(*                                                                         *)
(* Time is in nanoseconds of CLOCK_MONOTONIC, on a scale given by the      *)
(* constants; absolute times have seconds and nanoseconds, as in struct    *)
(* itimerspec.  The main thread starts the timers one by one while the     *)
(* timing thread handles the first of them; a handler may come at any      *)
(* time after the expiry.  Which thread runs when is Scheduler's matter.   *)
(***************************************************************************)
EXTENDS ScheduleTable

CONSTANTS
    TaskSets,       \* the task sets the simulator is started with
    MsPerSecond,    \* 1000
    NsPerMs,        \* 1000000
    IntHalf,        \* 2^31: an int is in -IntHalf .. IntHalf - 1
    Horizon         \* bound: the time at which the model ends

NsPerSecond == MsPerSecond * NsPerMs

\* Bound: releases of a task; reached only by tables that fire without delay.
MaxReleases == Horizon \div NsPerMs + 2

ASSUME ScaleAssumption ==
    /\ {MsPerSecond, NsPerMs, IntHalf} \subseteq Nat \ {0}
    /\ Horizon \in Nat /\ NsPerSecond <= Horizon
    /\ NsPerSecond < IntHalf
ASSUME TaskSetsAssumption ==
    \A tasks \in TaskSets :
        /\ tasks \in Seq(TaskStruct) /\ tasks # <<>>
        /\ \A t \in DOMAIN tasks : 0 .. tasks[t].table_id \subseteq TableIdsOf(tasks)
        /\ \A tbl \in TableIdsOf(tasks) : ProductsFit(tasks, tbl)

VARIABLES
    tasks,          \* the task set
    tables,         \* struct schedule_table, by id, but for the next three
    next_ep_index,
    new_timer,      \* it_value, the absolute time the timer was last set to
    timer,          \* the timerfd: off, armed
    started,        \* tables started by table_scheduler_start
    now,
    base,           \* history: when a table was started
    released        \* history: how often a task was on a point that expired

vars == <<tasks, tables, next_ep_index, new_timer, timer, started, now, base, released>>

TableIds == DOMAIN tables

-----------------------------------------------------------------------------
(* timerfd and the C types.                                                *)

\* timerfd_settime accepts only normalised times, and returns EINVAL otherwise.
Valid(time) == time.sec >= 0 /\ time.nsec \in 0 .. NsPerSecond - 1

Ns(time) == time.sec * NsPerSecond + time.nsec

\* A failed call is ignored, and leaves alone a timer that does not run.
Settime(tbl, time) ==
    /\ new_timer' = [new_timer EXCEPT ![tbl] = time]
    /\ timer' = [timer EXCEPT ![tbl] = IF Valid(time) THEN "armed" ELSE "off"]

WrappedInt(n) == ((n + IntHalf) % (2 * IntHalf)) - IntHalf

\* MS_TO_NS multiplies ints and the product becomes a long long: beyond an int
\* that is undefined, and the build may wrap it or multiply in 64 bits.
MsToNs(ms) == {ms * NsPerMs, WrappedInt(ms * NsPerMs)}

-----------------------------------------------------------------------------

Init ==
    /\ tasks \in TaskSets
    /\ tables = TablesOf(tasks)
    /\ next_ep_index = [tbl \in TableIds |-> 0]
    /\ new_timer = [tbl \in TableIds |-> [sec |-> 0, nsec |-> 0]]
    /\ timer = [tbl \in TableIds |-> "off"]
    /\ started = 0
    /\ now = 0      \* the tables may be started at any phase of a second
    /\ base = [tbl \in TableIds |-> 0]
    /\ released = [t \in DOMAIN tasks |-> 0]

\* One iteration of table_scheduler_start: start_timer, which adds to the
\* nanoseconds of the present time and does not carry.
StartTimer ==
    /\ started \in TableIds
    /\ \E ns \in MsToNs(tables[started].initial_offset) :
        Settime(started, [sec |-> now \div NsPerSecond,
                          nsec |-> (now % NsPerSecond) + (IF ns = 0 THEN 1 ELSE ns)])
    /\ base' = [base EXCEPT ![started] = now]
    /\ started' = started + 1
    /\ UNCHANGED <<tasks, tables, next_ep_index, now, released>>

\* set_timer without its carry, a mutant, and set_timer, which carries once.
AddedUncarried(time, ns) == [time EXCEPT !.nsec = @ + ns]
Added(time, ns) ==
    LET nsec == time.nsec + ns
    IN  IF nsec >= NsPerSecond
        THEN [sec |-> time.sec + 1, nsec |-> nsec - NsPerSecond]
        ELSE [sec |-> time.sec, nsec |-> nsec]

\* table_scheuler_update_timer: from the point that expired to the next one,
\* in a periodic table over the end of the round.
RoundWithoutDelay(table) == table.initial_offset    \* mutant
Round(table) == table.final_delay + table.initial_offset

Gap(table, current, next) ==
    IF next > current THEN table.eps[next + 1].offset - table.eps[current + 1].offset
    ELSE IF table.table_type = "PERIODIC" THEN Round(table)
    ELSE 0

Expired(tbl) == timer[tbl] = "armed" /\ Ns(new_timer[tbl]) <= now

Bounded == \A t \in DOMAIN tasks : released[t] < MaxReleases

\* process_tick: the timer is read and set for the next expiry point.
Tick(tbl) ==
    LET table == tables[tbl]
        current == next_ep_index[tbl]
        next == (current + 1) % Len(table.eps)
    IN  /\ Expired(tbl) /\ Bounded
        /\ next_ep_index' = [next_ep_index EXCEPT ![tbl] = next]
        /\ \E ns \in MsToNs(Gap(table, current, next)) :
            Settime(tbl, Added(new_timer[tbl], ns))
        /\ released' = [t \in DOMAIN tasks |->
                          IF t \in Range(table.eps[current + 1].tasks)
                          THEN released[t] + 1 ELSE released[t]]
        /\ UNCHANGED <<tasks, tables, started, now, base>>

\* The clock goes on, whatever the threads do.
Pass ==
    /\ now < Horizon
    /\ now' = now + 1
    /\ UNCHANGED <<tasks, tables, next_ep_index, new_timer, timer, started, base,
                   released>>

\* The model ends at its bounds.
End ==
    /\ now = Horizon
    /\ UNCHANGED vars

Next == StartTimer \/ (\E tbl \in TableIds : Tick(tbl)) \/ Pass \/ End

Spec == Init /\ [][Next]_vars

-----------------------------------------------------------------------------

\* The offsets of a table begin with 0 and increase, and its round ends after the last.
WellBuilt(table) ==
    LET points == DOMAIN table.eps
    IN  /\ Len(table.eps) \in Nat \ {0} /\ points = 1 .. Len(table.eps)
        /\ \A p \in points : table.eps[p].offset \in Nat
        /\ \A p, q \in points : p < q => table.eps[p].offset < table.eps[q].offset
        /\ table.initial_offset = 0
        /\ table.duration \in Nat /\ table.final_delay \in 1 .. table.duration

TypeOK ==
    /\ tasks \in TaskSets
    /\ TableIds = TableIdsOf(tasks)
    /\ \A tbl \in TableIds :
        /\ WellBuilt(tables[tbl])
        /\ next_ep_index[tbl] \in 0 .. Len(tables[tbl].eps) - 1
    /\ next_ep_index \in [TableIds -> Nat]
    /\ new_timer \in [TableIds -> [sec : Nat, nsec : Int]]
    /\ timer \in [TableIds -> {"off", "armed"}]
    /\ started \in Nat /\ now \in Nat
    /\ base \in [TableIds -> Nat]
    /\ released \in [DOMAIN tasks -> 0 .. MaxReleases]

\* The duration of a table is the least common multiple of its periods, although
\* GCD divides only eight times: enough for periods below 55, by Lame's theorem, and
\* for periods that divide one another, as those of the unit test do.
CommonMultiple(tbl, n) == \A t \in TableTasks(tasks, tbl) : n % tasks[t].period = 0
DurationIsLcm ==
    \A tbl \in TableIds :
        \/ \A t \in TableTasks(tasks, tbl) : tasks[t].period < 55
        \/ \A t, u \in TableTasks(tasks, tbl) :
             tasks[t].period % tasks[u].period = 0 \/ tasks[u].period % tasks[t].period = 0
        => /\ CommonMultiple(tbl, tables[tbl].duration)
           /\ \A n \in 1 .. tables[tbl].duration - 1 : ~CommonMultiple(tbl, n)

BasicTasks(tbl) == {t \in TableTasks(tasks, tbl) : tasks[t].task_type \in BasicTypes}

\* A gap between two points that fits into an int as nanoseconds, and into a
\* second, at the scale of the constants.
Gaps(tbl) ==
    LET n == Len(tables[tbl].eps)
    IN  {Gap(tables[tbl], i, (i + 1) % n) : i \in 0 .. n - 1}
FitsInt(tbl) == \A gap \in Gaps(tbl) : gap * NsPerMs < IntHalf
FitsSecond(tbl) == \A gap \in Gaps(tbl) : gap <= MsPerSecond

Running(tbl) == timer[tbl] = "armed" /\ tables[tbl].table_type = "PERIODIC"

\* Milliseconds from the first expiry point to the one the timer is set to.
Elapsed(tbl) == (Ns(new_timer[tbl]) - base[tbl] - 1) \div NsPerMs

\* The round of a table is a multiple of every period in it: by DurationIsLcm, where
\* the periods are below 55 or divide one another.
RoundFits(tbl) == CommonMultiple(tbl, tables[tbl].duration)

\* Over all rounds of a periodic table, however late its ticks are handled, the
\* timer does not drift, and each basic task was released exactly at the multiples of
\* its period before the time the timer is set to: no point is skipped,
\* repeated, or at another time than its tasks are due, and no task is lost between
\* the two lists of a point.
ReleasesAreExact ==
    \A tbl \in TableIds : Running(tbl) /\ FitsInt(tbl) =>
        /\ Ns(new_timer[tbl]) = base[tbl] + 1 + Elapsed(tbl) * NsPerMs
        /\ RoundFits(tbl) => \A t \in BasicTasks(tbl) :
            /\ (released[t] - 1) * tasks[t].period < Elapsed(tbl)
            /\ Elapsed(tbl) <= released[t] * tasks[t].period

\* An extended task is never on the list of a point that the scheduler thread
\* enqueues, for it has no context to run on; unless the task whose index is the
\* number of the table is extended too, the one table_scheduler_init looks at.
ExtendedNotReleased ==
    \A tbl \in TableIds, t \in DOMAIN tasks :
        /\ tasks[t].table_id = tbl /\ tasks[t].task_type \in ExtendedTypes
        /\ released[t] > 0
        => tasks[tbl + 1].task_type \in ExtendedTypes

\* No task of a periodic table is released before its time.
NeverEarly ==
    \A tbl \in TableIds :
        tables[tbl].table_type = "PERIODIC" /\ FitsInt(tbl) /\ RoundFits(tbl) =>
            \A t \in TableTasks(tasks, tbl) :
                released[t] > 0 =>
                    base[tbl] + (released[t] - 1) * tasks[t].period * NsPerMs < now

\* A table that was started keeps a timer that will expire, unless its points
\* are more than a second apart (set_timer carries one second) or it was started
\* in the last nanosecond of a second (start_timer does not carry).
TimerKept ==
    \A tbl \in TableIds : tbl < started =>
        \/ timer[tbl] = "armed"
        \/ ~FitsSecond(tbl)
        \/ base[tbl] % NsPerSecond = NsPerSecond - 1

-----------------------------------------------------------------------------
(* What a comment says and the code does not do.                           *)

\* The comment in table_scheuler_update_timer: the clock of a table that is not
\* periodic is stopped after one round.
SingleShotTableStops ==
    \A tbl \in TableIds : tables[tbl].table_type = "SINGLE_SHOT" =>
        \A t \in TableTasks(tasks, tbl) :
            released[t] * tasks[t].period <= tables[tbl].duration

=============================================================================
