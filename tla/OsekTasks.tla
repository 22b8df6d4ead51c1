------------------------------ MODULE OsekTasks ------------------------------
(***************************************************************************)
(* What the scheduler of one CPU core promises of its basic tasks, as      *)
(* docs/designed.md states it (part three, "task state transitions"): a    *)
(* task is SUSPENDED until its expiry point makes it READY, the scheduler  *)
(* always selects a READY task of the most urgent priority and makes it    *)
(* RUNNING, a preempted task is READY again and is never forgotten, and at *)
(* any time one task at most is RUNNING.                                   *)
(***************************************************************************)
EXTENDS Integers

CONSTANTS Tasks, Priority

VARIABLE st

Init == st = [t \in Tasks |-> "SUSPENDED"]

\* An expiry point of t is processed: SUSPENDED -> READY.
Activate(t) ==
    /\ st[t] = "SUSPENDED"
    /\ st' = [st EXCEPT ![t] = "READY"]

\* The scheduler selects t: READY -> RUNNING.  The core must be free and no
\* READY task may have a more urgent priority.
Dispatch(t) ==
    /\ st[t] = "READY"
    /\ \A u \in Tasks : st[u] # "RUNNING"
    /\ \A u \in Tasks : st[u] = "READY" => Priority[t] <= Priority[u]
    /\ st' = [st EXCEPT ![t] = "RUNNING"]

\* t loses the core before its job is complete: RUNNING -> READY.
Preempt(t) ==
    /\ st[t] = "RUNNING"
    /\ st' = [st EXCEPT ![t] = "READY"]

\* The job of t is complete: RUNNING -> SUSPENDED.
Terminate(t) ==
    /\ st[t] = "RUNNING"
    /\ st' = [st EXCEPT ![t] = "SUSPENDED"]

Next == \E t \in Tasks : Activate(t) \/ Dispatch(t) \/ Preempt(t) \/ Terminate(t)

Spec == Init /\ [][Next]_st

=============================================================================
