--------------------------- MODULE TableTimerProofs ---------------------------
(***************************************************************************)
(* What TableTimer guarantees for every task set, scale and horizon: that  *)
(* the clocks keep running, do not drift, and release each task at the     *)
(* multiples of its period.  What the tables hold is taken from            *)
(* ScheduleTableProofs.                                                    *)
(***************************************************************************)
EXTENDS TableTimer, ScheduleTableProofs

\* A table that the conditions of TimerKept do not exclude has a timer set to a
\* normalised time.
Normalised(tbl) ==
    tbl < started /\ FitsSecond(tbl) /\ base[tbl] % NsPerSecond # NsPerSecond - 1 =>
        timer[tbl] = "armed" /\ Valid(new_timer[tbl])

TimerInv ==
    /\ TypeOK /\ tables = TablesOf(tasks)
    /\ \A tbl \in TableIds : Normalised(tbl)

-----------------------------------------------------------------------------

\* The constants as numbers.
LEMMA Scale ==
    /\ MsPerSecond \in Nat \ {0} /\ NsPerMs \in Nat \ {0} /\ IntHalf \in Nat \ {0}
    /\ NsPerSecond \in Nat \ {0} /\ NsPerSecond < IntHalf
    /\ NsPerSecond = MsPerSecond * NsPerMs
<1>1. MsPerSecond \in Nat \ {0} /\ NsPerMs \in Nat \ {0} /\ IntHalf \in Nat \ {0}
      /\ NsPerSecond < IntHalf
  BY ScaleAssumption
<1>2. MsPerSecond * NsPerMs \in Nat \ {0}
  BY <1>1
<1>3. QED
  BY <1>1, <1>2 DEF NsPerSecond

\* The bound on releases is a number of milliseconds and two.
LEMMA ReleasesBound == MaxReleases \in Nat \ {0}
<1>1. Horizon \in Nat /\ NsPerMs \in Nat \ {0}
  BY ScaleAssumption
<1>2. Horizon \div NsPerMs \in Nat
  BY <1>1
<1>3. QED
  BY <1>2 DEF MaxReleases

\* A number that fits into an int is not wrapped.
LEMMA NotWrapped ==
    ASSUME NEW n \in Nat, n < IntHalf
    PROVE  WrappedInt(n) = n
<1>1. IntHalf \in Nat \ {0}
  BY Scale
<1>2. (n + IntHalf) % (2 * IntHalf) = n + IntHalf
  BY <1>1
<1>3. QED
  BY <1>1, <1>2 DEF WrappedInt

\* Wrapped or not, the nanoseconds are a number.
LEMMA NsTypes ==
    ASSUME NEW ms \in Nat, NEW ns \in MsToNs(ms)
    PROVE  ns \in Int
<1>1. IntHalf \in Nat \ {0} /\ ms * NsPerMs \in Nat
  BY Scale
<1>2. \A n \in Nat : WrappedInt(n) \in Int
  BY <1>1 DEF WrappedInt
<1>3. QED
  BY <1>1, <1>2 DEF MsToNs

\* The nanoseconds of a gap of a second at most.
LEMMA NsWithinSecond ==
    ASSUME NEW ms \in Nat, ms <= MsPerSecond, NEW ns \in MsToNs(ms)
    PROVE  ns = ms * NsPerMs /\ ns \in 0 .. NsPerSecond
<1>1. ms * NsPerMs \in 0 .. NsPerSecond
  <2>1. MsPerSecond \in Nat /\ NsPerMs \in Nat /\ NsPerSecond = MsPerSecond * NsPerMs
    BY Scale
  <2>2. ms * NsPerMs \in Nat /\ (MsPerSecond - ms) * NsPerMs \in Nat
    BY <2>1
  <2>3. MsPerSecond * NsPerMs = ms * NsPerMs + (MsPerSecond - ms) * NsPerMs
    BY <2>1
  <2>4. QED
    BY <2>1, <2>2, <2>3
<1>2. WrappedInt(ms * NsPerMs) = ms * NsPerMs
  BY <1>1, Scale, NotWrapped
<1>3. QED
  BY <1>1, <1>2 DEF MsToNs

\* A time in seconds and nanoseconds is normalised.
LEMMA PresentTime ==
    ASSUME NEW time \in Nat
    PROVE  /\ time \div NsPerSecond \in Nat
           /\ time % NsPerSecond \in 0 .. NsPerSecond - 1
<1>1. NsPerSecond \in Nat \ {0}
  BY Scale
<1>2. QED
  BY <1>1

\* An index that goes round stays in its range.
LEMMA GoesRound ==
    ASSUME NEW n \in Nat \ {0}, NEW index \in Nat
    PROVE  index % n \in 0 .. n - 1
OBVIOUS

\* A step of the clock of a well built table.
LEMMA GapTypes ==
    ASSUME NEW table, WellBuilt(table), NEW current \in 0 .. Len(table.eps) - 1
    PROVE  /\ (current + 1) % Len(table.eps) \in 0 .. Len(table.eps) - 1
           /\ Gap(table, current, (current + 1) % Len(table.eps)) \in Nat
<1> DEFINE n == Len(table.eps)
           next == (current + 1) % n
<1>1. n \in Nat \ {0} /\ current \in Nat /\ current < n
  BY DEF WellBuilt
<1>2. next \in 0 .. n - 1
  <2>1. current + 1 \in Nat
    BY <1>1
  <2> HIDE DEF n
  <2>2. (current + 1) % n \in 0 .. n - 1
    BY <1>1, <2>1, GoesRound
  <2>3. QED
    BY <2>2 DEF next
<1>3. CASE next > current
  <2>1. next + 1 \in DOMAIN table.eps /\ current + 1 \in DOMAIN table.eps
        /\ current + 1 < next + 1
    <3>1. DOMAIN table.eps = 1 .. n
      BY DEF WellBuilt
    <3> HIDE DEF n, next
    <3>2. QED
      BY <1>1, <1>2, <1>3, <3>1
  <2>2. table.eps[next + 1].offset - table.eps[current + 1].offset \in Nat
    <3>1. \A p \in DOMAIN table.eps : table.eps[p].offset \in Nat
      BY DEF WellBuilt
    <3>2. \A p, q \in DOMAIN table.eps : p < q => table.eps[p].offset < table.eps[q].offset
      BY DEF WellBuilt
    <3> DEFINE o(p) == table.eps[p].offset
               first == current + 1
               last == next + 1
    <3> HIDE DEF next
    <3>3. first \in DOMAIN table.eps /\ last \in DOMAIN table.eps /\ first < last
      BY <2>1
    <3> HIDE DEF first, last
    <3>4. o(first) \in Nat /\ o(last) \in Nat /\ o(first) < o(last)
      BY <3>1, <3>2, <3>3
    <3> HIDE DEF o
    <3>5. o(last) - o(first) \in Nat
      BY <3>4
    <3>6. QED
      BY <3>5 DEF o, first, last
  <2>3. QED
    BY <1>2, <1>3, <2>2 DEF Gap
<1>4. CASE ~(next > current)
  <2>1. Round(table) \in Nat
    BY DEF WellBuilt, Round
  <2>2. QED
    BY <1>2, <1>4, <2>1 DEF Gap
<1>5. QED
  BY <1>3, <1>4

\* set_timer carries once, which is enough within a second.
LEMMA AddedTypes ==
    ASSUME NEW time \in [sec : Nat, nsec : Int], NEW ns \in Int
    PROVE  Added(time, ns) \in [sec : Nat, nsec : Int]
BY Scale DEF Added

\* A normalised time stays so when a second at most is added.
LEMMA AddedValid ==
    ASSUME NEW time \in [sec : Nat, nsec : Int], Valid(time), NEW ns \in 0 .. NsPerSecond
    PROVE  Valid(Added(time, ns))
BY Scale DEF Added, Valid

-----------------------------------------------------------------------------

\* The task sets are what ScheduleTableProofs is about.
LEMMA SetTypes ==
    ASSUME NEW set \in TaskSets
    PROVE  set \in TaskSequences
BY TaskSetsAssumption DEF TaskSequences

\* Table ids are numbers.
LEMMA IdTypes ==
    ASSUME NEW set \in TaskSets
    PROVE  TableIdsOf(set) \subseteq Nat
<1>1. set \in Seq(TaskStruct)
  BY TaskSetsAssumption
<1>2. \A m \in TaskStruct : m.table_id \in Nat
  BY DEF TaskStruct
<1>3. \A t \in DOMAIN set : set[t] \in TaskStruct
  BY <1>1
<1>4. QED
  BY <1>2, <1>3 DEF TableIdsOf

\* Points in order, as ScheduleTableProofs has them, make a table that is well built.
LEMMA InOrderWellBuilt ==
    ASSUME NEW table, PointsInOrder(table)
    PROVE  WellBuilt(table)
<1> DEFINE n == Len(table.eps)
           offset(p) == table.eps[p].offset
<1>1. /\ table.duration \in Nat \ {0} /\ n \in Nat \ {0} /\ DOMAIN table.eps = 1 .. n
      /\ \A p \in 1 .. n : offset(p) \in 0 .. table.duration - 1
      /\ \A p, q \in 1 .. n : p < q => offset(p) < offset(q)
      /\ table.initial_offset = 0 /\ table.final_delay = table.duration - offset(n)
  BY DEF PointsInOrder
<1> HIDE DEF n, offset
<1>2. n \in 1 .. n
  BY <1>1
<1>3. \A p \in 1 .. n : offset(p) \in Nat /\ offset(p) < table.duration
  BY <1>1
<1>4. table.final_delay \in 1 .. table.duration
  BY <1>1, <1>2, <1>3
<1>5. QED
  BY <1>1, <1>3, <1>4 DEF WellBuilt, n, offset

\* The tables of every task set are well built.
LEMMA TablesWellBuilt ==
    ASSUME NEW set \in TaskSets, NEW tbl \in TableIdsOf(set)
    PROVE  WellBuilt(TablesOf(set)[tbl])
BY SetTypes, TaskSetsAssumption, TablesBuilt, InOrderWellBuilt

\* Nothing is started at first.
LEMMA TimerInit == Init => TimerInv
<1> SUFFICES ASSUME Init PROVE TimerInv
  OBVIOUS
<1>1. TableIds = TableIdsOf(tasks) /\ tables = TablesOf(tasks) /\ tasks \in TaskSets
  BY DEF Init, TableIds, TablesOf
<1>2. TableIds \subseteq Nat
  BY <1>1, IdTypes
<1>3. \A tbl \in TableIds : WellBuilt(tables[tbl])
  BY <1>1, TablesWellBuilt
<1>4. ASSUME NEW tbl \in TableIds PROVE 0 \in 0 .. Len(tables[tbl].eps) - 1
  BY <1>3 DEF WellBuilt
<1>5. TypeOK
  BY <1>1, <1>3, <1>4, ReleasesBound DEF Init, TypeOK
<1>6. \A tbl \in TableIds : ~(tbl < started)
  BY <1>2 DEF Init
<1>7. QED
  BY <1>1, <1>5, <1>6 DEF TimerInv, Normalised

\* What timerfd_settime does to one timer.
LEMMA SettimeTypes ==
    ASSUME TypeOK, NEW tbl \in TableIds, NEW time \in [sec : Nat, nsec : Int],
           Settime(tbl, time)
    PROVE  /\ new_timer' \in [TableIds -> [sec : Nat, nsec : Int]]
           /\ timer' \in [TableIds -> {"off", "armed"}]
           /\ new_timer'[tbl] = time /\ timer'[tbl] = IF Valid(time) THEN "armed" ELSE "off"
           /\ \A other \in TableIds \ {tbl} :
                new_timer'[other] = new_timer[other] /\ timer'[other] = timer[other]
<1> DEFINE Time == [sec : Nat, nsec : Int]
<1>1. /\ new_timer \in [TableIds -> Time] /\ timer \in [TableIds -> {"off", "armed"}]
      /\ time \in Time
  BY DEF TypeOK
<1> HIDE DEF Time
<1>2. /\ new_timer' \in [TableIds -> Time]
      /\ timer' \in [TableIds -> {"off", "armed"}]
      /\ new_timer'[tbl] = time /\ timer'[tbl] = IF Valid(time) THEN "armed" ELSE "off"
      /\ \A other \in TableIds \ {tbl} :
           new_timer'[other] = new_timer[other] /\ timer'[other] = timer[other]
  BY <1>1 DEF Settime
<1>3. QED
  BY <1>2 DEF Time

\* FitsSecond is about the tables only.
LEMMA FitsKept ==
    ASSUME UNCHANGED tables, NEW tbl \in TableIds
    PROVE  FitsSecond(tbl)' = FitsSecond(tbl)
BY DEF FitsSecond, Gaps

\* A start sets the one timer to a time that is normalised, but in the last nanosecond.
LEMMA TimerStart == TimerInv /\ StartTimer => TimerInv'
<1> SUFFICES ASSUME TimerInv, StartTimer PROVE TimerInv'
  OBVIOUS
<1>1. /\ TypeOK /\ started \in TableIds /\ TableIds \subseteq Nat /\ started' = started + 1
      /\ UNCHANGED <<tasks, tables, next_ep_index, now, released>> /\ now \in Nat
      /\ base' = [base EXCEPT ![started] = now] /\ base \in [TableIds -> Nat]
      /\ started \in Nat
  BY IdTypes DEF TimerInv, StartTimer, TypeOK, TableIds, TablesOf
<1>2. PICK s \in TableIds : s = started
  BY <1>1
<1>3. tables[s].initial_offset = 0
  BY <1>1 DEF TypeOK, WellBuilt
<1>4. MsToNs(0) = {0}
  BY Scale, NsWithinSecond DEF MsToNs
<1> DEFINE time == [sec |-> now \div NsPerSecond, nsec |-> (now % NsPerSecond) + 1]
<1>5. Settime(s, time)
  BY <1>2, <1>3, <1>4 DEF StartTimer
<1>6. time \in [sec : Nat, nsec : Int]
  BY <1>1, PresentTime
<1>7. now % NsPerSecond # NsPerSecond - 1 => Valid(time)
  BY <1>1, PresentTime, Scale DEF Valid
<1> HIDE DEF time
<1>8. /\ new_timer' \in [TableIds -> [sec : Nat, nsec : Int]]
      /\ timer' \in [TableIds -> {"off", "armed"}]
      /\ new_timer'[s] = time /\ timer'[s] = IF Valid(time) THEN "armed" ELSE "off"
      /\ \A other \in TableIds \ {s} :
           new_timer'[other] = new_timer[other] /\ timer'[other] = timer[other]
  BY <1>1, <1>5, <1>6, SettimeTypes
<1>9. base'[s] = now /\ base' \in [TableIds -> Nat]
      /\ \A other \in TableIds \ {s} : base'[other] = base[other]
  BY <1>1, <1>2
<1>10. TypeOK' /\ TableIds' = TableIds /\ tables' = TablesOf(tasks)'
  BY <1>1, <1>8, <1>9 DEF TypeOK, TableIds, TimerInv
<1>11. ASSUME NEW tbl \in TableIds PROVE Normalised(tbl)'
  <2>1. CASE tbl = s
    BY <1>7, <1>8, <1>9, <2>1 DEF Normalised, Valid
  <2>2. CASE tbl # s
    <3>1. tbl < started' => tbl < started
      BY <1>1, <1>2, <2>2
    <3>2. FitsSecond(tbl)' = FitsSecond(tbl)
      BY <1>1, FitsKept
    <3>3. QED
      BY <1>8, <1>9, <2>2, <3>1, <3>2 DEF Normalised, TimerInv, Valid
  <2>3. QED
    BY <2>1, <2>2
<1>12. QED
  BY <1>10, <1>11 DEF TimerInv

\* A tick sets the one timer to the time of the next point.
LEMMA TimerTick == TimerInv /\ (\E tbl \in TableIds : Tick(tbl)) => TimerInv'
<1> SUFFICES ASSUME TimerInv, NEW tbl \in TableIds, Tick(tbl) PROVE TimerInv'
  OBVIOUS
<1> DEFINE table == tables[tbl]
           current == next_ep_index[tbl]
           next == (current + 1) % Len(table.eps)
           gap == Gap(table, current, next)
<1>1. /\ TypeOK /\ UNCHANGED <<tasks, tables, started, now, base>> /\ Bounded
      /\ next_ep_index' = [next_ep_index EXCEPT ![tbl] = next]
      /\ next_ep_index \in [TableIds -> Nat]
      /\ new_timer[tbl] \in [sec : Nat, nsec : Int]
  BY DEF TimerInv, Tick, TypeOK
<1>2. WellBuilt(table) /\ current \in 0 .. Len(table.eps) - 1
  BY <1>1 DEF TypeOK
<1>3. next \in 0 .. Len(table.eps) - 1 /\ gap \in Nat
  BY <1>2, GapTypes
<1>4. PICK ns \in MsToNs(gap) : Settime(tbl, Added(new_timer[tbl], ns))
  BY DEF Tick
<1>5. ns \in Int /\ Added(new_timer[tbl], ns) \in [sec : Nat, nsec : Int]
  BY <1>1, <1>3, NsTypes, AddedTypes
<1> DEFINE time == Added(new_timer[tbl], ns)
<1>6. FitsSecond(tbl) /\ Valid(new_timer[tbl]) => Valid(time)
  <2> SUFFICES ASSUME FitsSecond(tbl), Valid(new_timer[tbl]) PROVE Valid(time)
    OBVIOUS
  <2>1. gap <= MsPerSecond
    BY <1>2 DEF FitsSecond, Gaps
  <2>2. ns \in 0 .. NsPerSecond
    BY <1>3, <2>1, NsWithinSecond
  <2>3. QED
    BY <1>1, <2>2, AddedValid
<1>7. released' \in [DOMAIN tasks -> 0 .. MaxReleases]
  <2>1. \A t \in DOMAIN tasks : released[t] \in 0 .. MaxReleases /\ released[t] < MaxReleases
    BY <1>1 DEF TypeOK, Bounded
  <2>2. \A t \in DOMAIN tasks : released[t] + 1 \in 0 .. MaxReleases
    BY <2>1, ReleasesBound
  <2>3. QED
    BY <2>1, <2>2 DEF Tick
<1> HIDE DEF time, gap
<1>8. /\ new_timer' \in [TableIds -> [sec : Nat, nsec : Int]]
      /\ timer' \in [TableIds -> {"off", "armed"}]
      /\ new_timer'[tbl] = time /\ timer'[tbl] = IF Valid(time) THEN "armed" ELSE "off"
      /\ \A other \in TableIds \ {tbl} :
           new_timer'[other] = new_timer[other] /\ timer'[other] = timer[other]
  <2>1. time \in [sec : Nat, nsec : Int] /\ Settime(tbl, time)
    BY <1>4, <1>5 DEF time
  <2>2. QED
    BY <1>1, <2>1, SettimeTypes
<1>9. next_ep_index' \in [TableIds -> Nat] /\ next_ep_index'[tbl] = next
      /\ \A other \in TableIds \ {tbl} : next_ep_index'[other] = next_ep_index[other]
  BY <1>1, <1>3
<1> HIDE DEF next
<1>10. TypeOK' /\ TableIds' = TableIds /\ tables' = TablesOf(tasks)'
  BY <1>1, <1>3, <1>7, <1>8, <1>9 DEF TypeOK, TableIds, TimerInv
<1>11. ASSUME NEW other \in TableIds PROVE Normalised(other)'
  <2>1. FitsSecond(other)' = FitsSecond(other) /\ Normalised(other)
    BY <1>1, FitsKept DEF TimerInv
  <2>2. CASE other = tbl
    BY <1>1, <1>6, <1>8, <2>1, <2>2 DEF Normalised, Valid
  <2>3. CASE other # tbl
    BY <1>1, <1>8, <2>1, <2>3 DEF Normalised, Valid
  <2>4. QED
    BY <2>2, <2>3
<1>12. QED
  BY <1>10, <1>11 DEF TimerInv

\* The invariant of the types and of normalised times is inductive.
LEMMA TimerStep == TimerInv /\ [Next]_vars => TimerInv'
<1> SUFFICES ASSUME TimerInv, [Next]_vars PROVE TimerInv'
  OBVIOUS
<1>1. CASE Pass \/ End \/ UNCHANGED vars
  <2>1. /\ UNCHANGED <<tasks, tables, next_ep_index, new_timer, timer, started, base,
                       released>>
        /\ (now' = now \/ now' = now + 1)
    BY <1>1 DEF Pass, End, vars
  <2>2. TypeOK' /\ TableIds' = TableIds /\ tables' = TablesOf(tasks)'
    BY <2>1 DEF TimerInv, TypeOK, TableIds
  <2>3. ASSUME NEW tbl \in TableIds PROVE Normalised(tbl)'
    BY <2>1, FitsKept DEF TimerInv, Normalised, Valid
  <2>4. QED
    BY <2>2, <2>3 DEF TimerInv
<1>2. QED
  BY <1>1, TimerStart, TimerTick DEF Next

\* Whatever task set the simulator is started with, its tables are well built, and
\* their clocks stay within their types: no timer is set to a negative second and no
\* index leaves its table.
THEOREM TableTypes == Spec => []TypeOK
<1>1. TimerInv => TypeOK
  BY DEF TimerInv
<1>2. QED
  BY <1>1, TimerInit, TimerStep, PTL DEF Spec

\* A table that was started keeps a timer that will expire, but for gaps of more than a
\* second, which set_timer does not carry, and for a start in the last nanosecond of a
\* second, which start_timer does not carry.
THEOREM TimersAreKept == Spec => []TimerKept
<1>1. TimerInv => TimerKept
  BY DEF TimerInv, Normalised, TimerKept
<1>2. QED
  BY <1>1, TimerInit, TimerStep, PTL DEF Spec

-----------------------------------------------------------------------------
(* The tables do not change, so what ScheduleTableProofs says of them when *)
(* they are built holds ever after.                                        *)

\* The tables as ScheduleTableProofs describes them.
LEMMA TablesKnown ==
    ASSUME TimerInv, NEW tbl \in TableIds
    PROVE  /\ tasks \in TaskSequences /\ tbl \in TableIdsOf(tasks)
           /\ PointsInOrder(tables[tbl])
           /\ PointsCover(tables[tbl], tasks, tbl)
           /\ PointsRelease(tables[tbl], tasks, tbl)
           /\ tables[tbl].duration = Duration(tasks, tbl)
<1>1. /\ tasks \in TaskSequences /\ tbl \in TableIdsOf(tasks) /\ tables = TablesOf(tasks)
      /\ ProductsFit(tasks, tbl)
  BY SetTypes, TaskSetsAssumption DEF TimerInv, TypeOK
<1>2. QED
  BY <1>1, TablesBuilt

\* The duration of every table is the one that DurationLeast is about.
LEMMA LcmKept == TimerInv => DurationIsLcm
<1> SUFFICES ASSUME TimerInv, NEW tbl \in TableIds,
                    \/ \A t \in TableTasks(tasks, tbl) : tasks[t].period < 55
                    \/ \A t, u \in TableTasks(tasks, tbl) :
                         \/ tasks[t].period % tasks[u].period = 0
                         \/ tasks[u].period % tasks[t].period = 0
             PROVE  /\ CommonMultiple(tbl, tables[tbl].duration)
                    /\ \A n \in 1 .. tables[tbl].duration - 1 : ~CommonMultiple(tbl, n)
  BY DEF DurationIsLcm
<1> DEFINE duration == Duration(tasks, tbl)
<1>1. tasks \in TaskSequences /\ tables[tbl].duration = duration
  BY TablesKnown
<1>2. /\ duration \in Nat \ {0}
      /\ \A t \in TableTasks(tasks, tbl) : duration % tasks[t].period = 0
      /\ \A n \in Nat : (\A t \in TableTasks(tasks, tbl) : n % tasks[t].period = 0)
                        => n % duration = 0
  BY <1>1, DurationPositive, DurationLeast
<1> HIDE DEF duration
<1>3. \A n \in 1 .. duration - 1 : n \in Nat /\ n % duration # 0
  BY <1>2
<1>4. QED
  BY <1>1, <1>2, <1>3 DEF CommonMultiple

\* Whatever task set the simulator is started with, the duration of a table whose
\* periods are below 55 or divide one another is their least common multiple.
THEOREM DurationsAreLcm == Spec => []DurationIsLcm
BY LcmKept, TimerInit, TimerStep, PTL DEF Spec

-----------------------------------------------------------------------------
(* From one expiry point to the next.                                      *)

\* The index that follows on a round of n.
LEMMA NextIndex ==
    ASSUME NEW n \in Nat \ {0}, NEW current \in 0 .. n - 1
    PROVE  /\ current + 1 < n => (current + 1) % n = current + 1
           /\ current + 1 = n => (current + 1) % n = 0
OBVIOUS

\* Time goes on within a round of d, or to its end.
LEMMA MovesOn ==
    ASSUME NEW d \in Nat \ {0}, NEW elapsed \in Nat, NEW gap \in Nat
    PROVE  /\ (elapsed % d) + gap < d => (elapsed + gap) % d = (elapsed % d) + gap
           /\ (elapsed % d) + gap = d => (elapsed + gap) % d = 0
<1> DEFINE k == elapsed \div d
           here == elapsed % d
<1>1. k \in Nat /\ here \in 0 .. d - 1 /\ elapsed = d * k + here
  OBVIOUS
<1> HIDE DEF k, here
<1>2. CASE here + gap < d
  <2>1. elapsed + gap = d * k + (here + gap) /\ here + gap \in 0 .. d - 1
    BY <1>1, <1>2
  <2>2. (d * k + (here + gap)) % d = here + gap
    BY <1>1, <2>1
  <2>3. QED
    BY <1>2, <2>1, <2>2 DEF here
<1>3. CASE here + gap = d
  <2>1. elapsed + gap = d * (k + 1)
    BY <1>1, <1>3
  <2>2. (d * (k + 1)) % d = 0
    BY <1>1
  <2>3. QED
    BY <1>3, <2>1, <2>2 DEF here
<1>4. QED
  BY <1>2, <1>3 DEF here

\* From a point to the next, or over the end of the round to the first.
LEMMA NextPoint ==
    ASSUME NEW table, PointsInOrder(table), table.table_type = "PERIODIC",
           NEW current \in 0 .. Len(table.eps) - 1
    PROVE  LET next == (current + 1) % Len(table.eps)
               gap == Gap(table, current, next)
               here == table.eps[current + 1].offset
               there == table.eps[next + 1].offset
           IN  /\ gap \in Nat \ {0}
               /\ \/ /\ next = current + 1 /\ there \in 0 .. table.duration - 1
                     /\ here + gap = there
                  \/ /\ current + 1 = Len(table.eps) /\ there = 0
                     /\ here + gap = table.duration
<1> DEFINE n == Len(table.eps)
           d == table.duration
           offset(p) == table.eps[p].offset
           next == (current + 1) % n
           gap == Gap(table, current, next)
           here == offset(current + 1)
           there == offset(next + 1)
<1>1. /\ d \in Nat \ {0} /\ n \in Nat \ {0}
      /\ \A p \in 1 .. n : offset(p) \in 0 .. d - 1
      /\ \A p, q \in 1 .. n : p < q => offset(p) < offset(q)
      /\ offset(1) = 0 /\ table.initial_offset = 0 /\ table.final_delay = d - offset(n)
  BY DEF PointsInOrder
<1>2. /\ next > current => gap = there - here
      /\ ~(next > current) => gap = table.final_delay + table.initial_offset
  BY DEF Gap, Round
<1>3. /\ current + 1 < n => next = current + 1
      /\ current + 1 = n => next = 0
  <2>1. n \in Nat \ {0}
    BY <1>1
  <2>2. current \in 0 .. n - 1
    OBVIOUS
  <2> HIDE DEF n
  <2>3. QED
    BY <2>1, <2>2, NextIndex
<1>4. current \in 0 .. n - 1
  OBVIOUS
<1> HIDE DEF gap, d, n, next, offset
<1>5. current \in Nat /\ current + 1 \in 1 .. n
  BY <1>1, <1>4
<1>6. here \in 0 .. d - 1
  BY <1>1, <1>5
<1>7. CASE current + 1 < n
  <2>1. next = current + 1
    BY <1>3, <1>7
  <2>2. next + 1 \in 1 .. n /\ current + 1 < next + 1 /\ next > current
    BY <1>1, <1>5, <1>7, <2>1
  <2>3. there \in 0 .. d - 1 /\ here < there
    BY <1>1, <1>5, <2>2
  <2>4. gap = there - here
    BY <1>2, <2>2
  <2> HIDE DEF here, there
  <2>5. gap \in Nat \ {0} /\ here + gap = there
    BY <1>1, <1>6, <2>3, <2>4
  <2>6. QED
    BY <2>1, <2>3, <2>5 DEF gap, d, n, next, offset, here, there
<1>8. CASE current + 1 = n
  <2>1. next = 0 /\ ~(next > current)
    BY <1>3, <1>5, <1>8
  <2>2. there = 0
    BY <1>1, <2>1
  <2>3. gap = (d - here) + 0
    BY <1>1, <1>2, <1>8, <2>1
  <2> HIDE DEF here, there
  <2>4. gap \in Nat \ {0} /\ here + gap = d
    BY <1>1, <1>6, <2>3
  <2>5. QED
    BY <1>8, <2>2, <2>4 DEF gap, d, n, next, offset, here, there
<1>9. current + 1 < n \/ current + 1 = n
  BY <1>1, <1>5
<1>10. QED
  BY <1>7, <1>8, <1>9

\* No task of a table is due between a point and the next.
LEMMA NoneBetween ==
    ASSUME NEW set, NEW tbl, NEW table, PointsInOrder(table), table.table_type = "PERIODIC",
           PointsCover(table, set, tbl),
           NEW current \in 0 .. Len(table.eps) - 1,
           NEW t \in TableTasks(set, tbl), NEW period \in Nat \ {0}, set[t].period = period,
           table.duration % period = 0,
           NEW elapsed \in Nat, elapsed % table.duration = table.eps[current + 1].offset,
           NEW multiple \in Nat, multiple % period = 0, elapsed < multiple
    PROVE  elapsed + Gap(table, current, (current + 1) % Len(table.eps)) <= multiple
<1> DEFINE n == Len(table.eps)
           d == table.duration
           offset(p) == table.eps[p].offset
           next == (current + 1) % n
           gap == Gap(table, current, next)
           here == offset(current + 1)
           there == offset(next + 1)
<1>1. /\ d \in Nat \ {0} /\ n \in Nat \ {0} /\ DOMAIN table.eps = 1 .. n
      /\ \A p \in 1 .. n : offset(p) \in 0 .. d - 1
      /\ \A p, q \in 1 .. n : p < q => offset(p) < offset(q)
  BY DEF PointsInOrder
<1>2. /\ gap \in Nat
      /\ \/ next = current + 1 /\ there \in 0 .. d - 1 /\ here + gap = there
         \/ current + 1 = n /\ here + gap = d
  BY NextPoint
<1>3. \A time \in 0 .. d - 1 : time % period = 0 => \E p \in 1 .. n : offset(p) = time
  <2>1. \A time \in 0 .. d - 1 : time % period = 0 => DueTasks(set, tbl, time) # {}
    BY DEF DueTasks
  <2>2. QED
    BY <1>1, <2>1 DEF PointsCover
<1>4. current \in 0 .. n - 1 /\ elapsed % d = here
  OBVIOUS
<1> HIDE DEF gap, d, n, next, offset
<1>5. current \in Nat /\ current + 1 \in 1 .. n
  BY <1>1, <1>4
<1>6. here \in 0 .. d - 1
  BY <1>1, <1>5
<1> SUFFICES ASSUME ~(elapsed + gap <= multiple) PROVE FALSE
  BY DEF gap, next, n
<1> DEFINE round == elapsed \div d
           time == multiple - d * round
<1>7. round \in Nat /\ elapsed = d * round + here
  BY <1>1, <1>4
<1> HIDE DEF round
<1>8. d * round \in Nat
  BY <1>1, <1>7
<1>9. here + gap <= d
  BY <1>1, <1>2
<1>10. time \in 0 .. d - 1 /\ here < time /\ time < here + gap
  <2> DEFINE before == d * round
  <2>1. /\ before \in Nat /\ elapsed = before + here /\ time = multiple - before
        /\ ~(elapsed + gap <= multiple)
    BY <1>7, <1>8
  <2> HIDE DEF before, here, time
  <2>2. QED
    BY <1>1, <1>2, <1>6, <1>9, <2>1
<1>11. time % period = 0
  <2>1. d % period = 0
    BY DEF d
  <2>2. PICK back \in Int : back = -round
    BY <1>7
  <2>3. d \in Int /\ multiple \in Int
    BY <1>1
  <2>4. (d * back + multiple) % period = 0
    BY <2>1, <2>3, DividesSum
  <2>5. d * back + multiple = time
    BY <1>1, <1>7, <2>2
  <2>6. QED
    BY <2>4, <2>5
<1> HIDE DEF time
<1>12. PICK p \in 1 .. n : offset(p) = time
  BY <1>3, <1>10, <1>11
<1> HIDE DEF here
<1>13. p > current + 1
  <2> SUFFICES ASSUME p <= current + 1 PROVE FALSE
    BY <1>1, <1>5
  <2>1. offset(p) <= here
    BY <1>1, <1>5, <1>6 DEF here
  <2>2. QED
    BY <1>6, <1>10, <1>12, <2>1
<1>14. CASE next = current + 1 /\ there \in 0 .. d - 1 /\ here + gap = there
  <2>1. next + 1 \in 1 .. n /\ p >= next + 1
    BY <1>1, <1>5, <1>13, <1>14
  <2>2. there <= offset(p)
    <3>1. CASE p = next + 1
      BY <1>14, <3>1
    <3>2. CASE next + 1 < p
      BY <1>1, <1>14, <2>1, <3>2
    <3>3. QED
      BY <1>1, <2>1, <3>1, <3>2
  <2>3. QED
    BY <1>10, <1>12, <1>14, <2>2
<1>15. CASE current + 1 = n
  BY <1>1, <1>13, <1>15
<1>16. QED
  BY <1>2, <1>14, <1>15

\* A period that divides the round divides a time if it divides the point of the round.
LEMMA SameInRound ==
    ASSUME NEW d \in Nat \ {0}, NEW period \in Nat \ {0}, d % period = 0,
           NEW elapsed \in Nat
    PROVE  elapsed % period = 0 <=> (elapsed % d) % period = 0
<1> DEFINE here == elapsed % d
           k == elapsed \div d
           back == -k
<1>1. k \in Int /\ here \in Int /\ elapsed = d * k + here
  OBVIOUS
<1> HIDE DEF here, k
<1>2. back \in Int /\ here = d * back + elapsed
  BY <1>1
<1> HIDE DEF back
<1>3. d \in Int /\ elapsed \in Int /\ d % period = 0
  OBVIOUS
<1>4. ASSUME elapsed % period = 0 PROVE here % period = 0
  <2>1. (d * back + elapsed) % period = 0
    BY <1>2, <1>3, <1>4, DividesSum
  <2>2. QED
    BY <1>2, <2>1
<1>5. ASSUME here % period = 0 PROVE elapsed % period = 0
  <2>1. (d * k + here) % period = 0
    BY <1>1, <1>3, <1>5, DividesSum
  <2>2. QED
    BY <1>1, <2>1
<1>6. QED
  BY <1>4, <1>5 DEF here

\* A multiple of the period that is later than the last release has room for another.
LEMMA ReleasedBefore ==
    ASSUME NEW period \in Nat \ {0}, NEW count \in Nat, NEW elapsed \in Nat,
           elapsed % period = 0, (count - 1) * period < elapsed
    PROVE  count * period <= elapsed
<1>1. PICK k \in Int : elapsed = period * k
  BY Quotient
<1>2. count <= k
  <2> SUFFICES ASSUME k <= count - 1 PROVE FALSE
    BY <1>1
  <2>1. (count - 1 - k) * period >= 0
    BY <1>1
  <2>2. (count - 1) * period = period * k + (count - 1 - k) * period
    BY <1>1
  <2>3. QED
    BY <1>1, <2>1, <2>2
<1>3. (k - count) * period >= 0
  BY <1>1, <1>2
<1>4. elapsed = count * period + (k - count) * period
  BY <1>1
<1>5. QED
  BY <1>3, <1>4

\* The carry keeps the time.
LEMMA AddedNs ==
    ASSUME NEW time \in [sec : Nat, nsec : Int], NEW ns \in Int
    PROVE  Ns(Added(time, ns)) = Ns(time) + ns
<1>1. time.sec \in Nat /\ time.nsec \in Int /\ NsPerSecond \in Nat
  BY Scale
<1>2. (time.sec + 1) * NsPerSecond = time.sec * NsPerSecond + NsPerSecond
  BY <1>1
<1>3. QED
  BY <1>1, <1>2 DEF Added, Ns

-----------------------------------------------------------------------------
(* The clock of a periodic table, over all its rounds.                     *)

\* Nothing happens to a table before it is started.
NotStarted(tbl) ==
    tbl >= started =>
        /\ timer[tbl] = "off" /\ next_ep_index[tbl] = 0
        /\ \A t \in TableTasks(tasks, tbl) : released[t] = 0

\* count releases are those of the time before elapsed, in ms; for a basic task all.
InStep(set, t, count, elapsed) ==
    /\ (count - 1) * set[t].period < elapsed
    /\ IsBasic(set, t) => elapsed <= count * set[t].period

\* The timer is set to the given time since the start of the table, next_ep_index is the
\* point of that time in its round, and the tasks are in step with it.
ClockAt(tbl, elapsed) ==
    /\ Ns(new_timer[tbl]) = base[tbl] + 1 + elapsed * NsPerMs
    /\ elapsed % tables[tbl].duration = tables[tbl].eps[next_ep_index[tbl] + 1].offset
    /\ RoundFits(tbl) =>
         \A t \in TableTasks(tasks, tbl) : InStep(tasks, t, released[t], elapsed)

Clocked(tbl) ==
    tbl < started /\ tables[tbl].table_type = "PERIODIC" /\ FitsInt(tbl) =>
        \E elapsed \in Nat : ClockAt(tbl, elapsed)

ClockInv == \A tbl \in TableIds : NotStarted(tbl) /\ Clocked(tbl)

\* FitsInt and RoundFits are about what does not change.
LEMMA ScaleKept ==
    ASSUME UNCHANGED <<tasks, tables>>, NEW tbl \in TableIds
    PROVE  FitsInt(tbl)' = FitsInt(tbl) /\ RoundFits(tbl)' = RoundFits(tbl)
BY DEF FitsInt, Gaps, RoundFits, CommonMultiple

\* The multiples of a period, one after the other.
LEMMA Multiples ==
    ASSUME NEW period \in Nat \ {0}, NEW count \in Nat
    PROVE  /\ count * period \in Nat /\ (count - 1) * period \in Int
           /\ (count + 1) * period = count * period + period
           /\ (count * period) % period = 0
           /\ (count + 1) - 1 = count
<1>1. count * period = period * count
  OBVIOUS
<1>2. (period * count) % period = 0
  BY Multiple
<1>3. QED
  BY <1>1, <1>2

\* The tasks of a point stay in step over the gap to the next one.
LEMMA StepsOn ==
    ASSUME TimerInv, NEW tbl \in TableIds, tables[tbl].table_type = "PERIODIC",
           RoundFits(tbl), NEW t \in TableTasks(tasks, tbl),
           NEW current \in 0 .. Len(tables[tbl].eps) - 1,
           NEW elapsed \in Nat,
           elapsed % tables[tbl].duration = tables[tbl].eps[current + 1].offset,
           NEW period \in Nat \ {0}, tasks[t].period = period,
           NEW count \in Nat, InStep(tasks, t, count, elapsed)
    PROVE  LET point == tables[tbl].eps[current + 1]
               gap == Gap(tables[tbl], current, (current + 1) % Len(tables[tbl].eps))
           IN  /\ t \in Range(point.tasks) =>
                    /\ count * period <= elapsed
                    /\ InStep(tasks, t, count + 1, elapsed + gap)
               /\ t \notin Range(point.tasks) => InStep(tasks, t, count, elapsed + gap)
<1> DEFINE table == tables[tbl]
           d == table.duration
           point == table.eps[current + 1]
           gap == Gap(table, current, (current + 1) % Len(table.eps))
<1>1. /\ tasks \in TaskSequences /\ PointsInOrder(table) /\ PointsCover(table, tasks, tbl)
      /\ PointsRelease(table, tasks, tbl)
  BY TablesKnown
<1>2. current + 1 \in DOMAIN table.eps /\ d \in Nat \ {0}
  BY <1>1 DEF PointsInOrder
<1>3. d % period = 0
  BY DEF RoundFits, CommonMultiple
<1>4. elapsed % period = 0 <=> point.offset % period = 0
  <2>1. elapsed % d = point.offset /\ elapsed \in Nat /\ period \in Nat \ {0}
    OBVIOUS
  <2> HIDE DEF d, point
  <2>2. \A e \in Nat : e % period = 0 <=> (e % d) % period = 0
    BY <1>2, <1>3, <2>1, SameInRound
  <2>3. QED
    BY <2>1, <2>2
<1>5. /\ t \in Range(point.tasks) => elapsed % period = 0
      /\ IsBasic(tasks, t) /\ elapsed % period = 0 => t \in Range(point.tasks)
  <2>1. t \in DueTasks(tasks, tbl, point.offset) <=> elapsed % period = 0
    BY <1>4 DEF DueTasks
  <2>2. /\ Range(point.tasks) \subseteq DueTasks(tasks, tbl, point.offset)
        /\ {u \in DueTasks(tasks, tbl, point.offset) : IsBasic(tasks, u)}
             \subseteq Range(point.tasks)
    BY <1>1, <1>2 DEF PointsRelease
  <2>3. QED
    BY <2>1, <2>2
<1>6. ASSUME NEW multiple \in Nat, multiple % period = 0, elapsed < multiple
      PROVE  elapsed + gap <= multiple
  BY <1>1, <1>3, <1>6, NoneBetween
<1>7. /\ (count - 1) * period < elapsed
      /\ IsBasic(tasks, t) => elapsed <= count * period
  BY DEF InStep
<1> DEFINE before == (count - 1) * period
           so_far == count * period
           after == (count + 1) * period
<1>8. /\ before \in Int /\ so_far \in Nat /\ so_far % period = 0
      /\ after = so_far + period /\ ((count + 1) - 1) * period = so_far
  BY Multiples
<1>9. after \in Nat /\ after % period = 0
  <2> DEFINE more == count + 1
  <2>1. more \in Nat
    OBVIOUS
  <2> HIDE DEF more
  <2>2. more * period \in Nat /\ (more * period) % period = 0
    BY <2>1, Multiples
  <2>3. QED
    BY <2>2 DEF more
<1>10. ASSUME t \in Range(point.tasks) PROVE so_far <= elapsed
  BY <1>5, <1>7, <1>10, ReleasedBefore
<1>11. before < elapsed /\ (IsBasic(tasks, t) => elapsed <= so_far)
  BY <1>7
<1>12. elapsed \in Nat /\ gap \in Nat \ {0}
  BY <1>1, NextPoint
<1>13. /\ InStep(tasks, t, count, elapsed + gap) <=>
             before < elapsed + gap /\ (IsBasic(tasks, t) => elapsed + gap <= so_far)
       /\ InStep(tasks, t, count + 1, elapsed + gap) <=>
             so_far < elapsed + gap /\ (IsBasic(tasks, t) => elapsed + gap <= after)
  BY <1>8 DEF InStep
<1> HIDE DEF table, d, gap, before, so_far, after
<1>14. ASSUME t \in Range(point.tasks) PROVE InStep(tasks, t, count + 1, elapsed + gap)
  <2>1. so_far <= elapsed /\ so_far < elapsed + gap
    BY <1>8, <1>10, <1>12, <1>14
  <2>2. ASSUME IsBasic(tasks, t) PROVE elapsed + gap <= after
    <3>1. elapsed < after
      BY <1>8, <1>11, <1>12, <2>2
    <3>2. QED
      BY <1>6, <1>9, <3>1
  <2>3. QED
    BY <1>13, <2>1, <2>2
<1>15. ASSUME t \notin Range(point.tasks) PROVE InStep(tasks, t, count, elapsed + gap)
  <2>1. before < elapsed + gap
    BY <1>8, <1>11, <1>12
  <2>2. ASSUME IsBasic(tasks, t) PROVE elapsed + gap <= so_far
    <3>1. elapsed # so_far
      BY <1>5, <1>8, <1>15, <2>2
    <3>2. elapsed < so_far
      BY <1>8, <1>11, <1>12, <2>2, <3>1
    <3>3. QED
      BY <1>6, <1>8, <3>2
  <2>3. QED
    BY <1>13, <2>1, <2>2
<1>16. QED
  BY <1>10, <1>14, <1>15 DEF table, gap, so_far

\* What a tick of a table does to it and leaves alone of the others.
LEMMA TickChanges ==
    ASSUME TimerInv, NEW tbl \in TableIds, Tick(tbl)
    PROVE  LET table == tables[tbl]
               current == next_ep_index[tbl]
               next == (current + 1) % Len(table.eps)
           IN  /\ UNCHANGED <<tasks, tables, started, now, base>>
               /\ timer[tbl] = "armed" /\ Ns(new_timer[tbl]) <= now
               /\ current \in 0 .. Len(table.eps) - 1 /\ next_ep_index'[tbl] = next
               /\ \E ns \in MsToNs(Gap(table, current, next)) :
                    Ns(new_timer'[tbl]) = Ns(new_timer[tbl]) + ns
               /\ \A t \in DOMAIN tasks :
                    released'[t] = IF t \in Range(table.eps[current + 1].tasks)
                                   THEN released[t] + 1 ELSE released[t]
               /\ Range(table.eps[current + 1].tasks) \subseteq TableTasks(tasks, tbl)
               /\ \A other \in TableIds \ {tbl} :
                    /\ next_ep_index'[other] = next_ep_index[other]
                    /\ new_timer'[other] = new_timer[other] /\ timer'[other] = timer[other]
<1> DEFINE table == tables[tbl]
           current == next_ep_index[tbl]
           next == (current + 1) % Len(table.eps)
           gap == Gap(table, current, next)
           Time == [sec : Nat, nsec : Int]
<1>1. /\ TypeOK /\ next_ep_index \in [TableIds -> Nat]
      /\ new_timer[tbl] \in Time /\ WellBuilt(table) /\ current \in 0 .. Len(table.eps) - 1
  BY DEF TimerInv, TypeOK
<1>2. /\ UNCHANGED <<tasks, tables, started, now, base>>
      /\ timer[tbl] = "armed" /\ Ns(new_timer[tbl]) <= now
      /\ next_ep_index' = [next_ep_index EXCEPT ![tbl] = next]
      /\ \A t \in DOMAIN tasks :
           released'[t] = IF t \in Range(table.eps[current + 1].tasks)
                          THEN released[t] + 1 ELSE released[t]
  BY DEF Tick, Expired
<1>3. PICK ns \in MsToNs(gap) : Settime(tbl, Added(new_timer[tbl], ns))
  BY DEF Tick
<1>4. ns \in Int
  BY <1>1, <1>3, GapTypes, NsTypes
<1> HIDE DEF next, gap
<1>5. /\ Added(new_timer[tbl], ns) \in Time
      /\ Ns(Added(new_timer[tbl], ns)) = Ns(new_timer[tbl]) + ns
  BY <1>1, <1>4, AddedTypes, AddedNs
<1>6. /\ new_timer'[tbl] = Added(new_timer[tbl], ns)
      /\ \A other \in TableIds \ {tbl} :
           new_timer'[other] = new_timer[other] /\ timer'[other] = timer[other]
  BY <1>1, <1>3, <1>5, SettimeTypes
<1>7. Ns(new_timer'[tbl]) = Ns(new_timer[tbl]) + ns
  BY <1>5, <1>6
<1>8. /\ next_ep_index'[tbl] = next
      /\ \A other \in TableIds \ {tbl} : next_ep_index'[other] = next_ep_index[other]
  BY <1>1, <1>2
<1>9. Range(table.eps[current + 1].tasks) \subseteq TableTasks(tasks, tbl)
  <2>1. PointsRelease(table, tasks, tbl) /\ current + 1 \in DOMAIN table.eps
    BY <1>1, TablesKnown DEF PointsInOrder
  <2>2. QED
    BY <2>1 DEF PointsRelease, DueTasks
<1>10. QED
  BY <1>1, <1>2, <1>3, <1>6, <1>7, <1>8, <1>9 DEF table, next, gap

\* A task has one table.
LEMMA OneTable ==
    ASSUME TimerInv, NEW tbl \in TableIds, NEW other \in TableIds, tbl # other
    PROVE  \A t \in TableTasks(tasks, other) :
               t \in DOMAIN tasks /\ t \notin TableTasks(tasks, tbl)
<1>1. tasks \in TaskSequences
  BY TablesKnown
<1>2. /\ TableTasks(tasks, tbl) = {t \in DOMAIN tasks : tasks[t].table_id = tbl}
      /\ TableTasks(tasks, other) = {t \in DOMAIN tasks : tasks[t].table_id = other}
  BY <1>1, TableTaskSet
<1>3. QED
  BY <1>2

\* A tick takes the clock of its table from one point to the next.
LEMMA ClockOn ==
    ASSUME TimerInv, NEW tbl \in TableIds, Tick(tbl),
           tables[tbl].table_type = "PERIODIC", FitsInt(tbl),
           NEW elapsed \in Nat, ClockAt(tbl, elapsed)
    PROVE  \E later \in Nat : ClockAt(tbl, later)'
<1> DEFINE table == tables[tbl]
           d == table.duration
           current == next_ep_index[tbl]
           next == (current + 1) % Len(table.eps)
           gap == Gap(table, current, next)
           here == table.eps[current + 1].offset
           there == table.eps[next + 1].offset
           Members == Range(table.eps[current + 1].tasks)
<1>1. /\ UNCHANGED <<tasks, tables, started, now, base>>
      /\ current \in 0 .. Len(table.eps) - 1 /\ next_ep_index'[tbl] = next
      /\ \E ns \in MsToNs(gap) : Ns(new_timer'[tbl]) = Ns(new_timer[tbl]) + ns
      /\ \A t \in DOMAIN tasks :
           released'[t] = IF t \in Members THEN released[t] + 1 ELSE released[t]
  BY TickChanges
<1>2. /\ PointsInOrder(table) /\ d \in Nat \ {0} /\ tasks \in TaskSequences
      /\ base[tbl] \in Nat /\ released \in [DOMAIN tasks -> 0 .. MaxReleases]
  BY TablesKnown DEF PointsInOrder, TimerInv, TypeOK
<1>3. /\ gap \in Nat \ {0}
      /\ \/ there \in 0 .. d - 1 /\ here + gap = there
         \/ there = 0 /\ here + gap = d
  BY <1>1, <1>2, NextPoint
<1>4. /\ Ns(new_timer[tbl]) = base[tbl] + 1 + elapsed * NsPerMs
      /\ elapsed % d = here
      /\ RoundFits(tbl) =>
           \A t \in TableTasks(tasks, tbl) : InStep(tasks, t, released[t], elapsed)
  BY DEF ClockAt
<1>5. MsToNs(gap) = {gap * NsPerMs}
  <2>1. gap \in Gaps(tbl)
    BY <1>1 DEF Gaps
  <2>2. gap * NsPerMs < IntHalf
    BY <2>1 DEF FitsInt
  <2> HIDE DEF gap
  <2>3. gap * NsPerMs \in Nat
    BY <1>3, Scale
  <2>4. QED
    BY <2>2, <2>3, NotWrapped DEF MsToNs
<1>6. ASSUME RoundFits(tbl), NEW t \in TableTasks(tasks, tbl)
      PROVE  InStep(tasks, t, released'[t], elapsed + gap)
  <2>1. t \in DOMAIN tasks
    BY <1>2, TableTaskSet
  <2>2. PICK period \in Nat \ {0} : tasks[t].period = period
    BY <1>2, <2>1, PeriodPositive
  <2>3. released[t] \in Nat /\ InStep(tasks, t, released[t], elapsed)
    BY <1>2, <1>4, <1>6, <2>1, ReleasesBound
  <2>4. /\ t \in Members => InStep(tasks, t, released[t] + 1, elapsed + gap)
        /\ t \notin Members => InStep(tasks, t, released[t], elapsed + gap)
    BY <1>1, <1>4, <1>6, <2>2, <2>3, StepsOn
  <2>5. QED
    BY <1>1, <2>1, <2>4
<1> HIDE DEF table, d, next, gap, here, there, Members
<1>7. (elapsed + gap) % d = there
  <2>1. /\ (elapsed % d) + gap < d => (elapsed + gap) % d = (elapsed % d) + gap
        /\ (elapsed % d) + gap = d => (elapsed + gap) % d = 0
    BY <1>2, <1>3, MovesOn
  <2>2. QED
    BY <1>2, <1>3, <1>4, <2>1
<1>8. Ns(new_timer'[tbl]) = base[tbl] + 1 + (elapsed + gap) * NsPerMs
  <2>1. Ns(new_timer'[tbl]) = base[tbl] + 1 + elapsed * NsPerMs + gap * NsPerMs
    BY <1>1, <1>4, <1>5
  <2>2. (elapsed + gap) * NsPerMs = elapsed * NsPerMs + gap * NsPerMs
        /\ elapsed * NsPerMs \in Nat /\ gap * NsPerMs \in Nat
    BY <1>3, Scale
  <2>3. QED
    BY <1>2, <2>1, <2>2
<1>9. PICK later \in Nat : later = elapsed + gap
  BY <1>3
<1>10. ClockAt(tbl, later)'
  <2>1. Ns(new_timer[tbl])' = base'[tbl] + 1 + later * NsPerMs
    BY <1>1, <1>8, <1>9 DEF Ns
  <2>2. later % tables'[tbl].duration = tables'[tbl].eps[next_ep_index'[tbl] + 1].offset
    BY <1>1, <1>7, <1>9 DEF d, there, table
  <2>3. RoundFits(tbl)' =>
            \A t \in TableTasks(tasks', tbl) : InStep(tasks', t, released'[t], later)
    BY <1>1, <1>6, <1>9, ScaleKept
  <2>4. QED
    BY <2>1, <2>2, <2>3 DEF ClockAt
<1>11. QED
  BY <1>10

\* What a start of a table does to it and leaves alone of the others.
LEMMA StartChanges ==
    ASSUME TimerInv, StartTimer
    PROVE  /\ UNCHANGED <<tasks, tables, next_ep_index, now, released>>
           /\ started \in TableIds /\ started' = started + 1
           /\ base'[started] = now /\ Ns(new_timer'[started]) = now + 1
           /\ \A other \in TableIds \ {started} :
                /\ base'[other] = base[other]
                /\ new_timer'[other] = new_timer[other] /\ timer'[other] = timer[other]
<1>1. /\ TypeOK /\ started \in TableIds /\ started' = started + 1 /\ now \in Nat
      /\ UNCHANGED <<tasks, tables, next_ep_index, now, released>>
      /\ base' = [base EXCEPT ![started] = now] /\ base \in [TableIds -> Nat]
  BY DEF TimerInv, StartTimer, TypeOK
<1>2. tables[started].initial_offset = 0
  BY <1>1 DEF TypeOK, WellBuilt
<1>3. MsToNs(0) = {0}
  BY Scale, NsWithinSecond DEF MsToNs
<1> DEFINE time == [sec |-> now \div NsPerSecond, nsec |-> (now % NsPerSecond) + 1]
<1>4. Settime(started, time)
  BY <1>2, <1>3 DEF StartTimer
<1>5. time \in [sec : Nat, nsec : Int]
  BY <1>1, PresentTime
<1>6. Ns(time) = now + 1
  <2>1. NsPerSecond \in Nat \ {0}
    BY Scale
  <2> DEFINE sec == now \div NsPerSecond
             nsec == now % NsPerSecond
  <2>2. now = NsPerSecond * sec + nsec /\ sec \in Nat /\ nsec \in Nat
    BY <1>1, <2>1
  <2>3. Ns(time) = sec * NsPerSecond + (nsec + 1)
    BY DEF Ns
  <2> HIDE DEF sec, nsec, time
  <2>4. QED
    BY <2>1, <2>2, <2>3
<1> HIDE DEF time
<1>7. /\ new_timer'[started] = time
      /\ \A other \in TableIds \ {started} :
           new_timer'[other] = new_timer[other] /\ timer'[other] = timer[other]
  <2>1. PICK s \in TableIds : s = started
    BY <1>1
  <2>2. Settime(s, time)
    BY <1>4, <2>1
  <2>3. QED
    BY <1>1, <1>5, <2>1, <2>2, SettimeTypes
<1>8. /\ base'[started] = now
      /\ \A other \in TableIds \ {started} : base'[other] = base[other]
  BY <1>1
<1>9. QED
  BY <1>1, <1>6, <1>7, <1>8

\* A table that nothing happens to stays as it is.
LEMMA ClockKept ==
    ASSUME TimerInv, NEW tbl \in TableIds, NotStarted(tbl), Clocked(tbl),
           UNCHANGED <<tasks, tables>>,
           next_ep_index'[tbl] = next_ep_index[tbl], new_timer'[tbl] = new_timer[tbl],
           timer'[tbl] = timer[tbl], base'[tbl] = base[tbl],
           \A t \in TableTasks(tasks, tbl) : released'[t] = released[t],
           tbl < started' => tbl < started, tbl >= started' => tbl >= started
    PROVE  NotStarted(tbl)' /\ Clocked(tbl)'
<1>1. NotStarted(tbl)'
  BY DEF NotStarted
<1>2. FitsInt(tbl)' = FitsInt(tbl) /\ RoundFits(tbl)' = RoundFits(tbl)
  BY ScaleKept
<1>3. ASSUME NEW elapsed \in Nat, ClockAt(tbl, elapsed) PROVE ClockAt(tbl, elapsed)'
  BY <1>2, <1>3 DEF ClockAt, Ns
<1>4. Clocked(tbl)'
  BY <1>2, <1>3 DEF Clocked
<1>5. QED
  BY <1>1, <1>4

\* Ids of tables and the number of started ones can be compared.
LEMMA IdsAndStarted ==
    ASSUME TimerInv
    PROVE  TableIds \subseteq Nat /\ started \in Nat
BY IdTypes DEF TimerInv, TypeOK

\* No table is started at first.
LEMMA ClockInit == Init => ClockInv
<1> SUFFICES ASSUME Init PROVE ClockInv
  OBVIOUS
<1>1. TimerInv /\ TableIds \subseteq Nat
  BY TimerInit, IdsAndStarted
<1>2. \A tbl \in TableIds : \A t \in TableTasks(tasks, tbl) : t \in DOMAIN tasks
  BY <1>1, TablesKnown, TableTaskSet
<1>3. \A tbl \in TableIds : NotStarted(tbl)
  BY <1>2 DEF Init, NotStarted
<1>4. \A tbl \in TableIds : ~(tbl < started)
  BY <1>1 DEF Init
<1>5. \A tbl \in TableIds : Clocked(tbl)
  BY <1>4 DEF Clocked
<1>6. QED
  BY <1>3, <1>5 DEF ClockInv

\* The table that is started is at time 0, which is its first point.
LEMMA ClockStart == TimerInv /\ ClockInv /\ StartTimer => ClockInv'
<1> SUFFICES ASSUME TimerInv, ClockInv, StartTimer PROVE ClockInv'
  OBVIOUS
<1>1. /\ UNCHANGED <<tasks, tables, next_ep_index, now, released>>
      /\ started \in TableIds /\ started' = started + 1
      /\ base'[started] = now /\ Ns(new_timer'[started]) = now + 1
      /\ \A other \in TableIds \ {started} :
           /\ base'[other] = base[other]
           /\ new_timer'[other] = new_timer[other] /\ timer'[other] = timer[other]
  BY StartChanges
<1>2. TableIds \subseteq Nat /\ started \in Nat /\ now \in Nat
  BY IdsAndStarted DEF TimerInv, TypeOK
<1>3. ASSUME NEW tbl \in TableIds, tbl # started PROVE NotStarted(tbl)' /\ Clocked(tbl)'
  <2>1. NotStarted(tbl) /\ Clocked(tbl)
    BY DEF ClockInv
  <2>2. (tbl < started' => tbl < started) /\ (tbl >= started' => tbl >= started)
    BY <1>1, <1>2, <1>3
  <2>3. QED
    BY <1>1, <1>3, <2>1, <2>2, ClockKept
<1>4. ASSUME NEW tbl \in TableIds, tbl = started PROVE NotStarted(tbl)' /\ Clocked(tbl)'
  <2>1. /\ next_ep_index[tbl] = 0
        /\ \A t \in TableTasks(tasks, tbl) : released[t] = 0
    BY <1>2, <1>4 DEF ClockInv, NotStarted
  <2>2. NotStarted(tbl)'
    BY <1>1, <1>2, <1>4 DEF NotStarted
  <2>3. /\ tasks \in TaskSequences /\ tables[tbl].duration \in Nat \ {0}
        /\ tables[tbl].eps[1].offset = 0
    BY TablesKnown DEF PointsInOrder
  <2>4. Ns(new_timer'[tbl]) = base'[tbl] + 1 + 0 * NsPerMs
    BY <1>1, <1>2, <1>4, Scale
  <2>5. 0 % tables[tbl].duration = tables[tbl].eps[next_ep_index[tbl] + 1].offset
    BY <2>1, <2>3
  <2>6. ASSUME NEW t \in TableTasks(tasks, tbl) PROVE InStep(tasks, t, released[t], 0)
    <3>1. tasks[t].period \in Nat \ {0}
      BY <2>3, TableTaskSet, PeriodPositive
    <3>2. QED
      BY <2>1, <3>1 DEF InStep
  <2>7. ClockAt(tbl, 0)'
    BY <1>1, <2>4, <2>5, <2>6 DEF ClockAt, Ns
  <2>8. QED
    BY <2>2, <2>7 DEF Clocked
<1>5. TableIds' = TableIds
  BY <1>1 DEF TableIds
<1>6. QED
  BY <1>3, <1>4, <1>5 DEF ClockInv

\* A tick moves one clock.
LEMMA ClockTick == TimerInv /\ ClockInv /\ (\E tbl \in TableIds : Tick(tbl)) => ClockInv'
<1> SUFFICES ASSUME TimerInv, ClockInv, NEW tbl \in TableIds, Tick(tbl) PROVE ClockInv'
  OBVIOUS
<1> DEFINE point == tables[tbl].eps[next_ep_index[tbl] + 1]
<1>1. /\ UNCHANGED <<tasks, tables, started, now, base>> /\ timer[tbl] = "armed"
      /\ \A t \in DOMAIN tasks :
           released'[t] = IF t \in Range(point.tasks) THEN released[t] + 1 ELSE released[t]
      /\ Range(point.tasks) \subseteq TableTasks(tasks, tbl)
      /\ \A other \in TableIds \ {tbl} :
           /\ next_ep_index'[other] = next_ep_index[other]
           /\ new_timer'[other] = new_timer[other] /\ timer'[other] = timer[other]
  BY TickChanges
<1> HIDE DEF point
<1>2. TableIds \subseteq Nat /\ started \in Nat
  BY IdsAndStarted
<1>3. ASSUME NEW other \in TableIds, other # tbl PROVE NotStarted(other)' /\ Clocked(other)'
  <2>1. NotStarted(other) /\ Clocked(other)
    BY DEF ClockInv
  <2>2. \A t \in TableTasks(tasks, other) : released'[t] = released[t]
    BY <1>1, <1>3, OneTable
  <2>3. base'[other] = base[other]
    BY <1>1
  <2>4. (other < started' => other < started) /\ (other >= started' => other >= started)
    BY <1>1
  <2>5. QED
    BY <1>1, <1>3, <2>1, <2>2, <2>3, <2>4, ClockKept
<1>4. NotStarted(tbl)' /\ Clocked(tbl)'
  <2>1. NotStarted(tbl) /\ Clocked(tbl)
    BY DEF ClockInv
  <2>2. tbl < started /\ ~(tbl >= started)
    BY <1>1, <1>2, <2>1 DEF NotStarted
  <2>3. NotStarted(tbl)'
    BY <1>1, <2>2 DEF NotStarted
  <2>4. tables[tbl].table_type = "PERIODIC" /\ FitsInt(tbl)
           => \E later \in Nat : ClockAt(tbl, later)'
    BY <2>1, <2>2, ClockOn DEF Clocked
  <2>5. FitsInt(tbl)' = FitsInt(tbl)
    BY <1>1, ScaleKept
  <2>6. QED
    BY <1>1, <2>3, <2>4, <2>5 DEF Clocked
<1>5. TableIds' = TableIds
  BY <1>1 DEF TableIds
<1>6. QED
  BY <1>3, <1>4, <1>5 DEF ClockInv

\* The invariant of the clocks is inductive, on top of TimerInv.
LEMMA ClockStep == TimerInv /\ ClockInv /\ [Next]_vars => ClockInv'
<1> SUFFICES ASSUME TimerInv, ClockInv, [Next]_vars PROVE ClockInv'
  OBVIOUS
<1>1. CASE Pass \/ End \/ UNCHANGED vars
  <2>1. UNCHANGED <<tasks, tables, next_ep_index, new_timer, timer, started, base, released>>
    BY <1>1 DEF Pass, End, vars
  <2>2. TableIds' = TableIds
    BY <2>1 DEF TableIds
  <2>3. ASSUME NEW tbl \in TableIds PROVE NotStarted(tbl)' /\ Clocked(tbl)'
    BY <2>1, ClockKept DEF ClockInv
  <2>4. QED
    BY <2>2, <2>3 DEF ClockInv
<1>2. QED
  BY <1>1, ClockStart, ClockTick DEF Next

-----------------------------------------------------------------------------

\* The time that ClockAt speaks of is Elapsed.
LEMMA ClockExact == TimerInv /\ ClockInv => ReleasesAreExact
<1> SUFFICES ASSUME TimerInv, ClockInv, NEW tbl \in TableIds, Running(tbl), FitsInt(tbl)
             PROVE  /\ Ns(new_timer[tbl]) = base[tbl] + 1 + Elapsed(tbl) * NsPerMs
                    /\ RoundFits(tbl) => \A t \in BasicTasks(tbl) :
                        /\ (released[t] - 1) * tasks[t].period < Elapsed(tbl)
                        /\ Elapsed(tbl) <= released[t] * tasks[t].period
  BY DEF ReleasesAreExact
<1>1. TableIds \subseteq Nat /\ started \in Nat /\ base[tbl] \in Nat
  BY IdsAndStarted DEF TimerInv, TypeOK
<1>2. tbl < started
  BY <1>1 DEF ClockInv, NotStarted, Running
<1>3. PICK elapsed \in Nat : ClockAt(tbl, elapsed)
  BY <1>2 DEF ClockInv, Clocked, Running
<1>4. Elapsed(tbl) = elapsed
  <2>1. Ns(new_timer[tbl]) - base[tbl] - 1 = NsPerMs * elapsed
    <3>1. Ns(new_timer[tbl]) = base[tbl] + 1 + elapsed * NsPerMs
      BY <1>3 DEF ClockAt
    <3>2. elapsed * NsPerMs \in Nat /\ elapsed * NsPerMs = NsPerMs * elapsed
      BY Scale
    <3>3. QED
      BY <1>1, <3>1, <3>2
  <2>2. (NsPerMs * elapsed) \div NsPerMs = elapsed
    BY Scale, Multiple
  <2>3. QED
    BY <2>1, <2>2 DEF Elapsed
<1>5. \A t \in BasicTasks(tbl) : t \in TableTasks(tasks, tbl) /\ IsBasic(tasks, t)
  BY DEF BasicTasks, IsBasic
<1>6. QED
  BY <1>3, <1>4, <1>5 DEF ClockAt, InStep

\* For every task set, scale and horizon, and however late the ticks are handled: the
\* clock of a periodic table does not drift, and each of its basic tasks was released once
\* for every multiple of its period before the time the timer is set to.
THEOREM ReleasesExact == Spec => []ReleasesAreExact
BY ClockExact, TimerInit, TimerStep, ClockInit, ClockStep, PTL DEF Spec

-----------------------------------------------------------------------------

\* No task of the table has its last release in the future.
InPast(tbl) ==
    \A t \in TableTasks(tasks, tbl) :
        released[t] > 0 =>
            base[tbl] + (released[t] - 1) * tasks[t].period * NsPerMs < now

\* Nothing is released at first.
LEMMA EarlyInit == Init => NeverEarly
<1> SUFFICES ASSUME Init PROVE NeverEarly
  OBVIOUS
<1>1. TimerInv
  BY TimerInit
<1>2. \A tbl \in TableIds : \A t \in TableTasks(tasks, tbl) : t \in DOMAIN tasks
  BY <1>1, TablesKnown, TableTaskSet
<1>3. \A t \in DOMAIN tasks : ~(released[t] > 0)
  BY DEF Init
<1>4. QED
  BY <1>2, <1>3 DEF NeverEarly

\* A point that expired has its time behind it, and its tasks have one release for it.
LEMMA TickInPast ==
    ASSUME TimerInv, ClockInv, NEW tbl \in TableIds, Tick(tbl),
           tables[tbl].table_type = "PERIODIC", FitsInt(tbl), RoundFits(tbl), InPast(tbl)
    PROVE  InPast(tbl)'
<1> DEFINE table == tables[tbl]
           current == next_ep_index[tbl]
           Members == Range(table.eps[current + 1].tasks)
<1>1. /\ UNCHANGED <<tasks, tables, started, now, base>> /\ timer[tbl] = "armed"
      /\ current \in 0 .. Len(table.eps) - 1 /\ Ns(new_timer[tbl]) <= now
      /\ \A t \in DOMAIN tasks :
           released'[t] = IF t \in Members THEN released[t] + 1 ELSE released[t]
  BY TickChanges
<1>2. /\ TableIds \subseteq Nat /\ started \in Nat /\ base[tbl] \in Nat /\ now \in Nat
      /\ released \in [DOMAIN tasks -> 0 .. MaxReleases] /\ tasks \in TaskSequences
  BY IdsAndStarted, TablesKnown DEF TimerInv, TypeOK
<1>3. tbl < started
  BY <1>1, <1>2 DEF ClockInv, NotStarted
<1>4. PICK elapsed \in Nat : ClockAt(tbl, elapsed)
  BY <1>3 DEF ClockInv, Clocked
<1>5. /\ Ns(new_timer[tbl]) = base[tbl] + 1 + elapsed * NsPerMs
      /\ elapsed % table.duration = table.eps[current + 1].offset
      /\ \A t \in TableTasks(tasks, tbl) : InStep(tasks, t, released[t], elapsed)
  BY <1>4 DEF ClockAt
<1>6. base[tbl] + elapsed * NsPerMs < now
  <2>1. elapsed * NsPerMs \in Nat
    BY Scale
  <2>2. base[tbl] + 1 + elapsed * NsPerMs <= now
    BY <1>1, <1>5
  <2>3. QED
    BY <1>2, <2>1, <2>2
<1>7. ASSUME NEW t \in TableTasks(tasks, tbl), released'[t] > 0
      PROVE  base[tbl] + (released'[t] - 1) * tasks[t].period * NsPerMs < now
  <2>1. t \in DOMAIN tasks /\ released[t] \in Nat
    BY <1>2, TableTaskSet, ReleasesBound
  <2>2. PICK period \in Nat \ {0}, count \in Nat :
            tasks[t].period = period /\ released[t] = count
    BY <1>2, <2>1, PeriodPositive
  <2>3. CASE t \in Members
    <3>1. count * period <= elapsed
      BY <1>1, <1>5, <2>2, <2>3, StepsOn
    <3>2. count * period * NsPerMs <= elapsed * NsPerMs
      <4>1. PICK ms \in Nat, rest \in Nat : ms = count * period /\ elapsed = ms + rest
        <5>1. count * period \in Nat /\ elapsed - count * period \in Nat
          BY <3>1
        <5>2. elapsed = count * period + (elapsed - count * period)
          BY <5>1
        <5>3. QED
          BY <5>1, <5>2
      <4>2. elapsed * NsPerMs = ms * NsPerMs + rest * NsPerMs /\ rest * NsPerMs \in Nat
            /\ ms * NsPerMs \in Nat
        BY <4>1, Scale
      <4>3. QED
        BY <4>1, <4>2
    <3>3. released'[t] - 1 = count
      BY <1>1, <2>1, <2>2, <2>3
    <3>4. count * period * NsPerMs \in Nat /\ elapsed * NsPerMs \in Nat
      BY Scale
    <3>5. base[tbl] + count * period * NsPerMs < now
      BY <1>2, <1>6, <3>2, <3>4
    <3>6. QED
      BY <2>2, <3>3, <3>5
  <2>4. CASE t \notin Members
    BY <1>1, <1>7, <2>1, <2>4 DEF InPast
  <2>5. QED
    BY <2>3, <2>4
<1>8. QED
  BY <1>1, <1>7 DEF InPast

\* No step changes the tables.
LEMMA TablesFixed == [Next]_vars => UNCHANGED <<tasks, tables>>
<1>1. ASSUME NEW tbl \in TableIds, Tick(tbl) PROVE UNCHANGED <<tasks, tables>>
  BY <1>1 DEF Tick
<1>2. CASE StartTimer \/ Pass \/ End \/ UNCHANGED vars
  BY <1>2 DEF StartTimer, Pass, End, vars
<1>3. QED
  BY <1>1, <1>2 DEF Next

\* Only a tick of the table releases its tasks.
LEMMA EarlyStep == TimerInv /\ ClockInv /\ NeverEarly /\ [Next]_vars => NeverEarly'
<1> SUFFICES ASSUME TimerInv, ClockInv, NeverEarly, [Next]_vars PROVE NeverEarly'
  OBVIOUS
<1> SUFFICES ASSUME NEW tbl \in TableIds,
                    tables[tbl].table_type = "PERIODIC", FitsInt(tbl), RoundFits(tbl)
             PROVE  InPast(tbl)'
  <2>1. UNCHANGED <<tasks, tables>>
    BY TablesFixed
  <2>2. TableIds' = TableIds
    BY <2>1 DEF TableIds
  <2>3. \A tbl \in TableIds : FitsInt(tbl)' = FitsInt(tbl) /\ RoundFits(tbl)' = RoundFits(tbl)
    BY <2>1, ScaleKept
  <2>4. QED
    BY <2>1, <2>2, <2>3 DEF NeverEarly, InPast
<1>1. InPast(tbl)
  BY DEF NeverEarly, InPast
<1>2. /\ base[tbl] \in Nat /\ now \in Nat /\ tasks \in TaskSequences
      /\ released \in [DOMAIN tasks -> 0 .. MaxReleases]
      /\ \A t \in TableTasks(tasks, tbl) : t \in DOMAIN tasks /\ tasks[t].period \in Nat \ {0}
  BY TablesKnown, TableTaskSet, PeriodPositive DEF TimerInv, TypeOK
<1>3. CASE StartTimer
  <2>1. /\ UNCHANGED <<tasks, now, released>> /\ started \in TableIds
        /\ \A other \in TableIds \ {started} : base'[other] = base[other]
    BY <1>3, StartChanges
  <2>2. CASE tbl = started
    <3>1. TableIds \subseteq Nat /\ started \in Nat
      BY IdsAndStarted
    <3>2. \A t \in TableTasks(tasks, tbl) : released[t] = 0
      BY <2>2, <3>1 DEF ClockInv, NotStarted
    <3>3. QED
      BY <2>1, <3>2 DEF InPast
  <2>3. CASE tbl # started
    BY <1>1, <2>1, <2>3 DEF InPast
  <2>4. QED
    BY <2>2, <2>3
<1>4. ASSUME NEW other \in TableIds, Tick(other) PROVE InPast(tbl)'
  <2>1. CASE other = tbl
    BY <1>1, <1>4, <2>1, TickInPast
  <2>2. CASE other # tbl
    <3> DEFINE Members == Range(tables[other].eps[next_ep_index[other] + 1].tasks)
    <3>1. /\ UNCHANGED <<tasks, now, base>> /\ Members \subseteq TableTasks(tasks, other)
          /\ \A t \in DOMAIN tasks :
               released'[t] = IF t \in Members THEN released[t] + 1 ELSE released[t]
      BY <1>4, TickChanges
    <3> HIDE DEF Members
    <3>2. \A t \in TableTasks(tasks, tbl) :
              t \in DOMAIN tasks /\ t \notin TableTasks(tasks, other)
      BY <2>2, OneTable
    <3>3. \A t \in TableTasks(tasks, tbl) : released'[t] = released[t]
      BY <3>1, <3>2
    <3>4. QED
      BY <1>1, <3>1, <3>3 DEF InPast
  <2>3. QED
    BY <2>1, <2>2
<1>5. CASE Pass \/ End \/ UNCHANGED vars
  <2>1. UNCHANGED <<tasks, base, released>> /\ (now' = now \/ now' = now + 1)
    BY <1>5 DEF Pass, End, vars
  <2>2. ASSUME NEW t \in TableTasks(tasks, tbl), released[t] > 0
        PROVE  base[tbl] + (released[t] - 1) * tasks[t].period * NsPerMs < now'
    <3> DEFINE last == (released[t] - 1) * tasks[t].period * NsPerMs
    <3>1. last \in Int
      <4>1. t \in DOMAIN tasks
        BY <1>2
      <4>2. PICK count \in Int, period \in Int :
                count = released[t] - 1 /\ period = tasks[t].period
        BY <1>2, <4>1, ReleasesBound
      <4>3. count * period * NsPerMs \in Int
        BY Scale
      <4>4. QED
        BY <4>2, <4>3
    <3>2. base[tbl] + last < now
      BY <1>1, <2>2 DEF InPast
    <3> HIDE DEF last
    <3>3. base[tbl] + last < now'
      BY <1>2, <2>1, <3>1, <3>2
    <3>4. QED
      BY <3>3 DEF last
  <2>3. QED
    BY <2>1, <2>2 DEF InPast
<1>6. QED
  BY <1>3, <1>4, <1>5 DEF Next

\* For every task set, scale and horizon: no task of a periodic table is released before
\* its time, whenever its table was started and however its ticks are handled.
THEOREM NeverReleasedEarly == Spec => []NeverEarly
BY EarlyInit, EarlyStep, TimerInit, TimerStep, ClockInit, ClockStep, PTL DEF Spec

-----------------------------------------------------------------------------

\* Nothing is released at first.
LEMMA ExtendedInit == Init => ExtendedNotReleased
<1>1. Init => \A t \in DOMAIN tasks : ~(released[t] > 0)
  BY DEF Init
<1>2. QED
  BY <1>1 DEF ExtendedNotReleased

\* A tick releases the tasks of one point of its own table.
LEMMA ExtendedStep ==
    TimerInv /\ ExtendedNotReleased /\ [Next]_vars => ExtendedNotReleased'
<1> SUFFICES ASSUME TimerInv, ExtendedNotReleased, [Next]_vars
             PROVE  ExtendedNotReleased'
  OBVIOUS
<1>1. CASE StartTimer \/ Pass \/ End \/ UNCHANGED vars
  BY <1>1 DEF StartTimer, Pass, End, vars, ExtendedNotReleased, TableIds
<1>2. ASSUME NEW ticking \in TableIds, Tick(ticking) PROVE ExtendedNotReleased'
  <2> DEFINE point == tables[ticking].eps[next_ep_index[ticking] + 1]
  <2>1. /\ UNCHANGED <<tasks, tables>>
        /\ next_ep_index[ticking] \in 0 .. Len(tables[ticking].eps) - 1
        /\ \A t \in DOMAIN tasks :
             released'[t] = IF t \in Range(point.tasks) THEN released[t] + 1 ELSE released[t]
        /\ Range(point.tasks) \subseteq TableTasks(tasks, ticking)
    BY <1>2, TickChanges
  <2>2. ~TestsExtended(tasks, ticking) => \A t \in Range(point.tasks) : IsBasic(tasks, t)
    <3>1. PointsInOrder(tables[ticking]) /\ PointsRelease(tables[ticking], tasks, ticking)
      BY TablesKnown
    <3>2. next_ep_index[ticking] + 1 \in DOMAIN tables[ticking].eps
      BY <2>1, <3>1 DEF PointsInOrder
    <3>3. QED
      BY <3>1, <3>2 DEF PointsRelease
  <2> HIDE DEF point
  <2>3. \A t \in TableTasks(tasks, ticking) : tasks[t].table_id = ticking
    BY TablesKnown, TableTaskSet
  <2>4. \A t : tasks[t].task_type \in ExtendedTypes => ~IsBasic(tasks, t)
    BY DEF IsBasic, BasicTypes, ExtendedTypes
  <2>5. ASSUME NEW tbl \in TableIds, NEW t \in DOMAIN tasks, tasks[t].table_id = tbl,
               tasks[t].task_type \in ExtendedTypes, released'[t] > 0
        PROVE  tasks[tbl + 1].task_type \in ExtendedTypes
    <3>1. CASE t \in Range(point.tasks)
      <4>1. tbl = ticking /\ ~IsBasic(tasks, t)
        BY <2>1, <2>3, <2>4, <2>5, <3>1
      <4>2. QED
        BY <2>2, <3>1, <4>1 DEF TestsExtended
    <3>2. CASE t \notin Range(point.tasks)
      BY <2>1, <2>5, <3>2 DEF ExtendedNotReleased
    <3>3. QED
      BY <3>1, <3>2
  <2>6. QED
    BY <2>1, <2>5 DEF ExtendedNotReleased, TableIds
<1>3. QED
  BY <1>1, <1>2 DEF Next

\* For every task set: an extended task is never on the list of a point that the
\* scheduler thread enqueues, unless the task whose index is the number of the table is
\* extended too.
THEOREM ExtendedKeptApart == Spec => []ExtendedNotReleased
BY ExtendedInit, ExtendedStep, TimerInit, TimerStep, PTL DEF Spec

=============================================================================
