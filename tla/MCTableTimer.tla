----------------------------- MODULE MCTableTimer -----------------------------
(***************************************************************************)
(* Instances of TableTimer for TLC: a second has 4 ms and a millisecond 2  *)
(* ns, so that carries, gaps of a second and of more, and the overflow of  *)
(* an int (at 2.1 s) all lie within the horizon.                           *)
(***************************************************************************)
EXTENDS TableTimer

Task(period, table_id, task_type) ==
    [period |-> period, table_id |-> table_id, task_type |-> task_type]
Periodic(period, table_id) == Task(period, table_id, "BASIC_PERIODIC")
Single(period, table_id) == Task(period, table_id, "BASIC_SINGLE_SHOT")

Extended(period, table_id) == Task(period, table_id, "EXTENDED_PERIODIC")

MCTaskSets == {
    <<Periodic(1, 0), Periodic(4, 0)>>,                  \* a period of a second
    <<Periodic(2, 0), Periodic(3, 0), Periodic(2, 0)>>,  \* gaps of 1 and 2
    <<Periodic(4, 0), Periodic(6, 0)>>,                  \* duration below the product
    <<Periodic(3, 1), Periodic(2, 0)>>,                  \* two tables
    <<Periodic(4, 0), Single(2, 0)>>,                    \* mixed types
    <<Periodic(6, 0)>>,                                  \* a gap over a second
    <<Periodic(9, 0), Periodic(10, 0)>>,                 \* gaps beyond an int
    <<Periodic(18, 0)>>,                                 \* ... that wrap around
    <<Single(2, 0), Single(3, 0)>>,                      \* a single-shot table
    <<Periodic(2, 0), Extended(3, 0), Periodic(4, 0)>>,  \* an extended task that is lost
    <<Extended(3, 0), Periodic(2, 0), Extended(6, 0)>>,  \* ... that is released
    <<Periodic(2, 1), Extended(2, 0), Periodic(3, 1)>>,  \* ... a task of another table
    <<Periodic(13, 0), Periodic(8, 0)>>,                 \* a deep GCD
    <<Periodic(60, 0), Periodic(120, 0)>> }              \* a period that divides the other

SingleShotSets == {<<Single(2, 0), Single(3, 0)>>}

=============================================================================
