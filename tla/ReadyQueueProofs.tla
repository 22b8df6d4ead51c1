-------------------------- MODULE ReadyQueueProofs --------------------------
(***************************************************************************)
(* What task_enqueue_check and task_dequeue do to the ready queue, for     *)
(* every set of tasks, priorities and periods.                             *)
(***************************************************************************)
EXTENDS ReadyQueue, WellFoundedInduction, TLAPS

\* The enqueue loop stops somewhere: at the head of the list at the latest.
LEMMA SlotExists ==
    ASSUME NEW queue \in Seq(Tasks), NEW t \in Tasks
    PROVE  \E p \in 1 .. Len(queue) + 1 : IsSlot(queue, t, p)
<1> DEFINE N == Len(queue)
           Stops == {p \in 1 .. N + 1 : p <= N => Before(t, queue[p])}
<1>1. N \in Nat
  OBVIOUS
<1>2. Stops \subseteq Nat /\ N + 1 \in Stops
  BY <1>1
<1> HIDE DEF Stops
<1>3. PICK p \in Stops : \A i \in Stops : <<i, p>> \notin OpToRel(<, Nat)
  BY <1>2, NatLessThanWellFounded, WFMin
<1>4. \A i \in Stops : ~(i < p)
  BY <1>2, <1>3 DEF OpToRel
<1>5. IsSlot(queue, t, p) /\ p \in 1 .. N + 1
  BY <1>1, <1>4 DEF Stops, IsSlot
<1>6. QED
  BY <1>5

LEMMA SlotIsSlot ==
    ASSUME NEW queue \in Seq(Tasks), NEW t \in Tasks
    PROVE  /\ Slot(queue, t) \in 1 .. Len(queue) + 1
           /\ IsSlot(queue, t, Slot(queue, t))
BY SlotExists DEF Slot

\* The order of the queue: Before is a strict weak order.
LEMMA BeforeIsWeakOrder ==
    ASSUME NEW t \in Tasks, NEW u \in Tasks, NEW v \in Tasks
    PROVE  /\ ~Before(t, t)
           /\ Before(t, u) /\ Before(u, v) => Before(t, v)
           /\ ~Before(t, u) /\ ~Before(u, v) => ~Before(t, v)
           /\ Before(t, u) => ~Before(u, t)
BY PriorityAssumption, PeriodAssumption DEF Before

LEMMA InsertType ==
    ASSUME NEW queue \in Seq(Tasks), NEW t \in Tasks, NEW p \in 1 .. Len(queue) + 1
    PROVE  /\ InsertBefore(queue, t, p) \in Seq(Tasks)
           /\ Len(InsertBefore(queue, t, p)) = Len(queue) + 1
           /\ \A i \in 1 .. Len(queue) + 1 :
                InsertBefore(queue, t, p)[i] =
                    IF i < p THEN queue[i] ELSE IF i = p THEN t ELSE queue[i - 1]
<1> DEFINE q == InsertBefore(queue, t, p)
<1>1. Len(queue) + 1 \in Nat
  OBVIOUS
<1>2. q \in [1 .. Len(queue) + 1 -> Tasks]
  BY <1>1 DEF InsertBefore
<1>3. q \in Seq(Tasks) /\ Len(q) = Len(queue) + 1
  BY <1>1, <1>2
<1>4. QED
  BY <1>3 DEF InsertBefore

\* The queue gains the task and loses none.
LEMMA EnqueuedMembers ==
    ASSUME NEW queue \in Seq(Tasks), NEW t \in Tasks
    PROVE  /\ Enqueued(queue, t) \in Seq(Tasks)
           /\ Len(Enqueued(queue, t)) = Len(queue) + 1
           /\ Members(Enqueued(queue, t)) = Members(queue) \cup {t}
<1> DEFINE p == Slot(queue, t)
           q == Enqueued(queue, t)
<1>1. p \in 1 .. Len(queue) + 1
  BY SlotIsSlot
<1>2. /\ q \in Seq(Tasks) /\ Len(q) = Len(queue) + 1
      /\ \A i \in 1 .. Len(queue) + 1 :
            q[i] = IF i < p THEN queue[i] ELSE IF i = p THEN t ELSE queue[i - 1]
  BY <1>1, InsertType DEF Enqueued
<1> HIDE DEF p, q
<1>3. ASSUME NEW i \in 1 .. Len(q)  PROVE q[i] \in Members(queue) \cup {t}
  <2>1. CASE i < p
    <3>1. i \in 1 .. Len(queue) /\ q[i] = queue[i]
      BY <2>1, <1>1, <1>2
    <3>2. QED
      BY <3>1 DEF Members
  <2>2. CASE i = p
    BY <2>2, <1>1, <1>2
  <2>3. CASE i > p
    <3>1. i - 1 \in 1 .. Len(queue) /\ q[i] = queue[i - 1]
      BY <2>3, <1>1, <1>2
    <3>2. QED
      BY <3>1 DEF Members
  <2>4. QED
    BY <2>1, <2>2, <2>3, <1>1, <1>2
<1>4. ASSUME NEW i \in 1 .. Len(queue)  PROVE queue[i] \in Members(q)
  <2>1. CASE i < p
    BY <2>1, <1>1, <1>2 DEF Members
  <2>2. CASE i >= p
    <3>1. i + 1 \in 1 .. Len(q) /\ q[i + 1] = queue[i]
      BY <2>2, <1>1, <1>2
    <3>2. QED
      BY <3>1 DEF Members
  <2>3. QED
    BY <2>1, <2>2, <1>1
<1>5. t \in Members(q)
  BY <1>1, <1>2 DEF Members
<1>6. Members(q) = Members(queue) \cup {t}
  BY <1>3, <1>4, <1>5 DEF Members
<1>7. QED
  BY <1>2, <1>6 DEF q

\* The insertion keeps the order: tasks in front of the slot do not yield to t,
\* and those behind it, being no more urgent than the one at the slot, do.
LEMMA EnqueuedSorted ==
    ASSUME NEW queue \in Seq(Tasks), NEW t \in Tasks, Sorted(queue)
    PROVE  Sorted(Enqueued(queue, t))
<1> DEFINE p == Slot(queue, t)
           q == Enqueued(queue, t)
<1>1. p \in 1 .. Len(queue) + 1 /\ IsSlot(queue, t, p)
  BY SlotIsSlot
<1>2. /\ q \in Seq(Tasks) /\ Len(q) = Len(queue) + 1
      /\ \A i \in 1 .. Len(queue) + 1 :
            q[i] = IF i < p THEN queue[i] ELSE IF i = p THEN t ELSE queue[i - 1]
  BY <1>1, InsertType DEF Enqueued
<1> HIDE DEF p, q
<1>3. ASSUME NEW i \in 1 .. Len(queue), i >= p  PROVE ~Before(queue[i], t)
  <2>1. p \in 1 .. Len(queue) /\ Before(t, queue[p])
    BY <1>1, <1>3 DEF IsSlot
  <2>2. queue[i] \in Tasks /\ queue[p] \in Tasks
    BY <2>1
  <2>3. ~Before(queue[i], queue[p])
    <3>1. CASE i = p
      BY <3>1, <2>2, BeforeIsWeakOrder
    <3>2. CASE i > p
      BY <3>2, <2>1 DEF Sorted
    <3>3. QED
      BY <3>1, <3>2, <1>3, <2>1
  <2>4. QED
    BY <2>1, <2>2, <2>3, BeforeIsWeakOrder
<1>4. ASSUME NEW i \in 1 .. Len(q), NEW j \in 1 .. Len(q), i < j
      PROVE  ~Before(q[j], q[i])
  <2>1. CASE j < p
    <3>1. q[i] = queue[i] /\ q[j] = queue[j]
      BY <2>1, <1>1, <1>2, <1>4
    <3>2. i \in 1 .. Len(queue) /\ j \in 1 .. Len(queue)
      BY <2>1, <1>1, <1>2, <1>4
    <3>3. QED
      BY <3>1, <3>2, <1>4 DEF Sorted
  <2>2. CASE j = p
    BY <2>2, <1>1, <1>2, <1>4 DEF IsSlot
  <2>3. CASE i < p /\ j > p
    <3>1. q[i] = queue[i] /\ q[j] = queue[j - 1] /\ i < j - 1
      BY <2>3, <1>1, <1>2
    <3>2. i \in 1 .. Len(queue) /\ j - 1 \in 1 .. Len(queue)
      BY <2>3, <1>1, <1>2
    <3>3. QED
      BY <3>1, <3>2 DEF Sorted
  <2>4. CASE i = p
    <3>1. q[i] = t /\ q[j] = queue[j - 1]
      BY <2>4, <1>1, <1>2, <1>4
    <3>2. j - 1 \in 1 .. Len(queue) /\ j - 1 >= p
      BY <2>4, <1>1, <1>2, <1>4
    <3>3. QED
      BY <3>1, <3>2, <1>3
  <2>5. CASE i > p
    <3>1. q[i] = queue[i - 1] /\ q[j] = queue[j - 1]
      BY <2>5, <1>1, <1>2, <1>4
    <3>2. i - 1 \in 1 .. Len(queue) /\ j - 1 \in 1 .. Len(queue) /\ i - 1 < j - 1
      BY <2>5, <1>1, <1>2, <1>4
    <3>3. QED
      BY <3>1, <3>2 DEF Sorted
  <2>6. QED
    BY <2>1, <2>2, <2>3, <2>4, <2>5, <1>1, <1>2, <1>4
<1>5. QED
  BY <1>4 DEF Sorted, q

\* A task that is not linked yet is linked once.
LEMMA EnqueuedLinkedOnce ==
    ASSUME NEW queue \in Seq(Tasks), NEW t \in Tasks,
           LinkedOnce(queue), t \notin Members(queue)
    PROVE  LinkedOnce(Enqueued(queue, t))
<1> DEFINE p == Slot(queue, t)
           q == Enqueued(queue, t)
<1>1. p \in 1 .. Len(queue) + 1
  BY SlotIsSlot
<1>2. /\ q \in Seq(Tasks) /\ Len(q) = Len(queue) + 1
      /\ \A i \in 1 .. Len(queue) + 1 :
            q[i] = IF i < p THEN queue[i] ELSE IF i = p THEN t ELSE queue[i - 1]
  BY <1>1, InsertType DEF Enqueued
<1> HIDE DEF p, q
<1>3. \A i \in 1 .. Len(queue) : queue[i] # t
  BY DEF Members
<1>4. ASSUME NEW i \in 1 .. Len(q), NEW j \in 1 .. Len(q), i < j
      PROVE  q[i] # q[j]
  <2>1. CASE j = p \/ i = p
    BY <2>1, <1>1, <1>2, <1>3, <1>4
  <2>2. CASE j < p
    BY <2>2, <1>1, <1>2, <1>4 DEF LinkedOnce
  <2>3. CASE i < p /\ j > p
    BY <2>3, <1>1, <1>2, <1>4 DEF LinkedOnce
  <2>4. CASE i > p
    <3>1. q[i] = queue[i - 1] /\ q[j] = queue[j - 1]
      BY <2>4, <1>1, <1>2, <1>4
    <3>2. i - 1 \in 1 .. Len(queue) /\ j - 1 \in 1 .. Len(queue) /\ i - 1 # j - 1
      BY <2>4, <1>1, <1>2, <1>4
    <3>3. QED
      BY <3>1, <3>2 DEF LinkedOnce
  <2>5. QED
    BY <2>1, <2>2, <2>3, <2>4, <1>1, <1>2, <1>4
<1>5. ASSUME NEW i \in 1 .. Len(q), NEW j \in 1 .. Len(q), q[i] = q[j]
      PROVE  i = j
  BY <1>4, <1>5, <1>2
<1>6. QED
  BY <1>5 DEF LinkedOnce, q

\* task_dequeue: the head leaves, the rest stays as it was.
LEMMA DequeuedQueue ==
    ASSUME NEW queue \in Seq(Tasks), queue # <<>>, Sorted(queue), LinkedOnce(queue)
    PROVE  /\ Head(queue) \in Tasks /\ Tail(queue) \in Seq(Tasks)
           /\ Sorted(Tail(queue))
           /\ LinkedOnce(Tail(queue))
           /\ Members(Tail(queue)) = Members(queue) \ {Head(queue)}
           /\ \A i \in 1 .. Len(Tail(queue)) : ~Before(Tail(queue)[i], Head(queue))
<1> DEFINE q == Tail(queue)
<1>1. Len(queue) \in Nat \ {0} /\ Head(queue) = queue[1] /\ Head(queue) \in Tasks
  OBVIOUS
<1>2. /\ q \in Seq(Tasks) /\ Len(q) = Len(queue) - 1
      /\ \A i \in 1 .. Len(q) : q[i] = queue[i + 1]
  BY <1>1
<1> HIDE DEF q
<1>3. Sorted(q)
  BY <1>1, <1>2 DEF Sorted
<1>4. LinkedOnce(q)
  BY <1>1, <1>2 DEF LinkedOnce
<1>5. Members(q) = Members(queue) \ {Head(queue)}
  <2>1. ASSUME NEW u \in Members(q)  PROVE u \in Members(queue) \ {Head(queue)}
    BY <1>1, <1>2 DEF Members, LinkedOnce
  <2>2. ASSUME NEW u \in Members(queue), u # Head(queue)  PROVE u \in Members(q)
    <3>1. PICK i \in 1 .. Len(queue) : u = queue[i]
      BY DEF Members
    <3>2. i - 1 \in 1 .. Len(q) /\ q[i - 1] = u
      BY <3>1, <2>2, <1>1, <1>2
    <3>3. QED
      BY <3>2 DEF Members
  <2>3. QED
    BY <2>1, <2>2
<1>6. \A i \in 1 .. Len(q) : ~Before(q[i], Head(queue))
  BY <1>1, <1>2 DEF Sorted
<1>7. QED
  BY <1>1, <1>2, <1>3, <1>4, <1>5, <1>6 DEF q

=============================================================================
