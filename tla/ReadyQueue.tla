----------------------------- MODULE ReadyQueue -----------------------------
(***************************************************************************)
(* The ready queue of one scheduler (table_scheduler.c, on the intrusive   *)
(* list of list.h): a sequence of tasks that task_enqueue_check keeps      *)
(* ordered and task_dequeue pops at the head.  A smaller number is a more  *)
(* urgent priority; among equal priorities the shorter period goes first;  *)
(* among equals of both the queue is first in, first out.                  *)
(***************************************************************************)
EXTENDS Integers, Sequences

CONSTANTS
    Tasks,      \* the tasks of this scheduler
    Priority,   \* task->priority: smaller is more urgent
    Period      \* task->period, in milliseconds

ASSUME PriorityAssumption == Priority \in [Tasks -> Int]
ASSUME PeriodAssumption == Period \in [Tasks -> Nat \ {0}]

-----------------------------------------------------------------------------

\* The test of the enqueue loop: t is linked in front of u.
BeforeReversed(t, u) == Priority[t] > Priority[u]    \* mutant: greater is more urgent
Before(t, u) ==
    \/ Priority[t] < Priority[u]
    \/ Priority[t] = Priority[u] /\ Period[t] < Period[u]

\* Where the loop stops: the first element t goes before, or the list head.
IsSlot(queue, t, p) ==
    /\ p \in 1 .. Len(queue) + 1
    /\ \A i \in 1 .. p - 1 : ~Before(t, queue[i])
    /\ p <= Len(queue) => Before(t, queue[p])

SlotAtTail(queue, t) == Len(queue) + 1    \* mutant: the order is ignored
Slot(queue, t) == CHOOSE p \in 1 .. Len(queue) + 1 : IsSlot(queue, t, p)

\* list_add_tail(&new->list, &pos->list): new is linked just before pos.
InsertBefore(queue, t, p) ==
    [i \in 1 .. Len(queue) + 1 |->
        IF i < p THEN queue[i] ELSE IF i = p THEN t ELSE queue[i - 1]]

\* task_enqueue_check, its deadline check left to the caller.
Enqueued(queue, t) == InsertBefore(queue, t, Slot(queue, t))

Members(queue) == {queue[i] : i \in 1 .. Len(queue)}

-----------------------------------------------------------------------------

\* No element should have been linked in front of an earlier one.
Sorted(queue) ==
    \A i, j \in 1 .. Len(queue) : i < j => ~Before(queue[j], queue[i])

\* An intrusive node can be linked once only: list_add_tail of a linked node
\* would corrupt the list.
LinkedOnce(queue) ==
    \A i, j \in 1 .. Len(queue) : queue[i] = queue[j] => i = j

=============================================================================
