---------------------------- MODULE ScheduleTable ----------------------------
(***************************************************************************)
(* table_scheduler_init: the schedule tables of a task set.                *)
(*                                                                         *)
(* A task set is a sequence of records with a period (in ms), a table_id   *)
(* and a task_type; a task is known by its index.  Table ids are           *)
(* contiguous, as the comment in unit_test asks.                           *)
(***************************************************************************)
EXTENDS Integers, SequencesExt

BasicTypes == {"BASIC_PERIODIC", "BASIC_SINGLE_SHOT"}
ExtendedTypes == {"EXTENDED_PERIODIC", "EXTENDED_SINGLE_SHOT"}

\* The fields of struct task_struct that the tables depend on.
TaskStruct == [period : Nat \ {0}, table_id : Nat,
               task_type : BasicTypes \cup ExtendedTypes]

\* One level of the macro GCD; a pair with remainder 0 stays as it is.
EuclidStep(pair) ==
    IF pair[2] = 0 THEN pair ELSE <<pair[2], pair[1] % pair[2]>>
FourLevels(pair) == EuclidStep(EuclidStep(EuclidStep(EuclidStep(pair))))

\* GCD_1 to GCD_8 divide, GCD_last takes whatever it is given.
Ordered(a, b) == IF a >= b THEN <<a, b>> ELSE <<b, a>>
GCDShallow(a, b) == FourLevels(Ordered(a, b))[1]    \* mutant
GCD(a, b) == FourLevels(FourLevels(Ordered(a, b)))[1]

LCM(a, b) == (a * b) \div GCD(a, b)

TableIdsOf(tasks) == {tasks[t].table_id : t \in DOMAIN tasks}

\* The elements of a sequence that are in S, in their order: a loop over an array
\* that copies what passes a test.
Filter(seq, S) ==
    LET copied[i \in 0 .. Len(seq)] ==
            IF i = 0 THEN <<>>
            ELSE IF seq[i] \in S THEN Append(copied[i - 1], seq[i])
            ELSE copied[i - 1]
    IN  copied[Len(seq)]

\* table_task_array, the tasks of a table in the order of the array.
TableArray(tasks, tbl) ==
    Filter([t \in DOMAIN tasks |-> t], {t \in DOMAIN tasks : tasks[t].table_id = tbl})
TableTasks(tasks, tbl) == Range(TableArray(tasks, tbl))

Durations(tasks, tbl) ==
    LET array == TableArray(tasks, tbl)
        duration[i \in 0 .. Len(array)] ==
            IF i = 0 THEN 1 ELSE LCM(duration[i - 1], tasks[array[i]].period)
    IN  duration
Duration(tasks, tbl) == Durations(tasks, tbl)[Len(TableArray(tasks, tbl))]

\* LCM multiplies before it divides: the task sets for which no product is over INT_MAX,
\* beyond which the duration is undefined.
INT_MAX == 2147483647
ProductsFit(tasks, tbl) ==
    LET array == TableArray(tasks, tbl)
    IN  \A i \in DOMAIN array :
            Durations(tasks, tbl)[i - 1] <= INT_MAX \div tasks[array[i]].period

\* Basic and extended tasks have a list each, but the test for extended ones looks
\* at the task whose index in the array is the number of the table.  hlist_add_head
\* of a node that is in tasks_hlist already makes that list go on as
\* event_tasks_hlist does.
InsertUnsorted(tasks, tbl, point, t) ==       \* mutant: no test for basic tasks
    [point EXCEPT !.tasks = <<t>> \o @]
Insert(tasks, tbl, point, t) ==
    LET basic == tasks[t].task_type \in BasicTypes
        extended == tasks[tbl + 1].task_type \in ExtendedTypes
        events == IF extended THEN <<t>> \o point.events ELSE point.events
    IN  [offset |-> point.offset,
         events |-> events,
         tasks |-> IF ~basic THEN point.tasks
                   ELSE IF extended THEN events ELSE <<t>> \o point.tasks]

Due(tasks, tbl, time) ==
    Filter(TableArray(tasks, tbl), {t \in DOMAIN tasks : time % tasks[t].period = 0})

Point(tasks, tbl, time) ==
    LET due == Due(tasks, tbl, time)
        point[i \in 0 .. Len(due)] ==
            IF i = 0 THEN [offset |-> time, tasks |-> <<>>, events |-> <<>>]
            ELSE Insert(tasks, tbl, point[i - 1], due[i])
    IN  point[Len(due)]

\* The expiry points, the times of a round at which some task is due.
UsedTimes(tasks, tbl) ==
    LET duration == Duration(tasks, tbl)
    IN  Filter([i \in 1 .. duration |-> i - 1],
               {time \in 0 .. duration - 1 : Due(tasks, tbl, time) # <<>>})
ExpiryPointsOf(tasks, tbl) ==
    LET times == UsedTimes(tasks, tbl)
    IN  [i \in DOMAIN times |-> Point(tasks, tbl, times[i])]

\* The first task of the array decides for its whole table.
TableType(tasks, tbl) ==
    IF tasks[Head(TableArray(tasks, tbl))].task_type
        \in {"BASIC_PERIODIC", "EXTENDED_PERIODIC"}
    THEN "PERIODIC" ELSE "SINGLE_SHOT"

FinalDelayFromFirst(duration, eps) == duration - eps[1].offset        \* mutant
FinalDelayToLastMs(duration, eps) == duration - 1 - eps[Len(eps)].offset  \* mutant
FinalDelay(duration, eps) == duration - eps[Len(eps)].offset

Table(tasks, tbl) ==
    LET duration == Duration(tasks, tbl)
        eps == ExpiryPointsOf(tasks, tbl)
    IN  [duration |-> duration,
         eps |-> eps,
         initial_offset |-> eps[1].offset,
         final_delay |-> FinalDelay(duration, eps),
         table_type |-> TableType(tasks, tbl)]

TablesOf(tasks) == [tbl \in TableIdsOf(tasks) |-> Table(tasks, tbl)]

=============================================================================
