----------------------------- MODULE MCSimulator -----------------------------
(***************************************************************************)
(* Instances of Simulator for TLC.  load_tasks gives all tasks to one CPU, *)
(* so no array of infos leads to a second scheduler.                       *)
(***************************************************************************)
EXTENDS Simulator

Info(on, table_id) == [cpu |-> on, table_id |-> table_id]

MCInfoSets == {
    <<>>,
    <<Info(0, 0), Info(0, 0)>>,                  \* as in the unit test
    <<Info(1, 1), Info(1, 0), Info(1, 2)>>,      \* three tables
    <<Info(0, 3), Info(0, 1), Info(0, 2), Info(0, 0)>>,    \* too many descriptors
    <<Info(0, 0), Info(1, 1)>>,                  \* two CPUs: both go to the first
    <<Info(2, 0)>> }                             \* a CPU that does not exist

=============================================================================
