---------------------------- MODULE MCAutosarDemo ----------------------------
(***************************************************************************)
(* Instances of AutosarDemo for TLC: a pool of three tasks, slices of 0 to *)
(* 4 ticks and two ticks at most while main runs.                          *)
(***************************************************************************)
EXTENDS AutosarDemo

Request(priority, timeSlice) == [priority |-> priority, timeSlice |-> timeSlice]

Requests == [priority : {1, 2, LowestPriority}, timeSlice : {0, 1, 3}]

MCRequestSets ==
    UNION {[1 .. n -> Requests] : n \in 0 .. 2} \cup {
    <<Request(1, 3), Request(2, 4)>>,                    \* as in main
    <<Request(2, 3), Request(1, 3), Request(1, 0)>>,     \* equal priorities, no slice
    <<Request(1, 3), Request(1, 3), Request(0, 3), Request(0, 3)>>,  \* a full pool
    <<Request(2, 1), Request(1, 3), Request(1, 2)>>,     \* the first slice ends in main
    <<Request(2, 1), Request(1, 1), Request(0, 3), Request(2, 3)>> }

\* The slice of the first task ends in main when a more urgent one is there.
Overtaken == {<<Request(2, 1), Request(1, 3)>>}

=============================================================================
