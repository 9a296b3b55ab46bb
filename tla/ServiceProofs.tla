--------------------------- MODULE ServiceProofs ---------------------------
(***************************************************************************)
(* Proofs about the services around the control step: the task scheduler,  *)
(* for any tasks, any size of the table, any costs and any gaps between    *)
(* ticks; the configuration loader, for any keys and any text; the replay  *)
(* of any recordings; and all the parts around the core side by side.      *)
(***************************************************************************)
EXTENDS MCPlatform, PlatformProofs, EcuLemmas, SequenceTheorems

-----------------------------------------------------------------------------
(* The task table: the names in use are the numbers of the registrations   *)
(* so far.                                                                 *)
SchedInv ==
  /\ SchedTypeOK /\ PriorityOrder
  /\ \A i \in DOMAIN tasks : tasks[i].name <= Len(tasks)

LEMMA SchedConstants ==
  /\ TaskKinds \subseteq [priority : 0 .. 3, interval_ms : Nat \ {0}]
  /\ MaxTasks \in Nat /\ RunCap \in Nat \ {0} /\ AfterRunCap \in 0 .. RunCap
  /\ Costs \subseteq Nat /\ Gaps \subseteq Nat
BY SchedulerAssumption

LEMMA KindFields ==
  ASSUME NEW kind \in TaskKinds
  PROVE  kind.priority \in 0 .. 3 /\ kind.interval_ms \in Nat \ {0}
BY SchedConstants

LEMMA TaskFields ==
  ASSUME NEW t \in Task
  PROVE  /\ t.name \in 1 .. MaxTasks /\ t.name \in Nat /\ t.priority \in 0 .. 3
         /\ t.run_count \in 0 .. RunCap /\ t.worst_case_us \in Nat
         /\ t.interval_ms \in Nat /\ t.last_run_ms \in Time
BY SchedConstants DEF Task

LEMMA NewTaskTyped ==
  ASSUME NEW kind \in TaskKinds, NEW n \in Nat, n < MaxTasks
  PROVE  /\ NewTask(kind, n + 1) \in Task /\ NewTask(kind, n + 1).name = n + 1
         /\ NewTask(kind, n + 1).priority = kind.priority
<1>1. n + 1 \in 1 .. MaxTasks /\ 0 \in 0 .. RunCap /\ 0 \in Time
  BY SchedConstants, ClockFacts
<1> QED BY <1>1, KindFields DEF NewTask, Task

LEMMA AccountTyped ==
  ASSUME NEW t \in Task, tick_ms \in Time
  PROVE  /\ Account(t) \in Task /\ Account(t).name = t.name
         /\ Account(t).priority = t.priority
<1>1. DurationUs \in Nat
  <2>1. Elapsed(tick_ms, tick_ms) \in Nat
    BY ClockFacts
  <2> QED BY <2>1 DEF DurationUs
<1>2. (IF t.run_count = RunCap THEN AfterRunCap ELSE t.run_count + 1) \in 0 .. RunCap
  BY TaskFields, SchedConstants
<1>3. (IF DurationUs > t.worst_case_us THEN DurationUs ELSE t.worst_case_us) \in Nat
  BY <1>1, TaskFields
<1>4. (t.overrun \/ DurationUs > t.interval_ms * 1000) \in BOOLEAN
  OBVIOUS
<1> QED BY <1>2, <1>3, <1>4, ZenonT(40) DEF Account, Task

(* A task enters where the sort moves it; those behind it move up.         *)
LEMMA AddOK ==
  ASSUME SchedInv, NEW kind \in TaskKinds, Add(kind) PROVE SchedInv'
<1> USE DEF SchedInv, SchedTypeOK
<1> DEFINE n == Len(tasks)
           task == NewTask(kind, n + 1)
<1>1. CASE UNCHANGED tasks
  BY <1>1 DEF Add, PriorityOrder
<1>2. ASSUME n < MaxTasks, NEW p \in 1 .. n + 1, Position(p, kind),
             InsertTask(p, task), UNCHANGED <<tick_ms, next, clock>>
      PROVE  SchedInv'
  <2>1. task \in Task /\ task.name = n + 1 /\ task.priority = kind.priority
    BY <1>2, NewTaskTyped
  <2> HIDE DEF task
  <2>2. \A i \in 1 .. n : tasks[i] \in Task /\ tasks[i].name <= n
    OBVIOUS
  <2>3. /\ tasks' = [i \in 1 .. n + 1 |->
                       IF i < p THEN tasks[i] ELSE IF i = p THEN task ELSE tasks[i - 1]]
        /\ \A i \in 1 .. n + 1 :
             /\ i < p => tasks'[i] = tasks[i] /\ i \in 1 .. n
             /\ i = p => tasks'[i] = task
             /\ i > p => tasks'[i] = tasks[i - 1] /\ i - 1 \in 1 .. n
    BY <1>2 DEF InsertTask
  <2>4. \A i \in 1 .. n + 1 : tasks'[i] \in Task /\ tasks'[i].name <= n + 1
    <3> SUFFICES ASSUME NEW i \in 1 .. n + 1
                 PROVE  tasks'[i] \in Task /\ tasks'[i].name <= n + 1
      OBVIOUS
    <3>1. CASE i = p
      BY <2>1, <2>3, <3>1
    <3>2. CASE i < p
      BY <2>2, <2>3, <3>2, TaskFields
    <3>3. CASE i > p
      <4>1. tasks'[i] \in Task /\ tasks'[i].name <= n /\ tasks'[i].name \in Nat
        BY <2>2, <2>3, <3>3, TaskFields
      <4> QED BY <4>1
    <3> QED BY <3>1, <3>2, <3>3
  <2>5. tasks' \in Seq(Task) /\ Len(tasks') = n + 1
    BY <2>3, <2>4
  <2>6. SchedTypeOK'
    BY <1>2, <2>5, SchedConstants
  <2>7. PriorityOrder'
    <3> SUFFICES ASSUME NEW i \in 1 .. n + 1, NEW j \in 1 .. n + 1, i < j
                 PROVE  \/ tasks'[i].priority < tasks'[j].priority
                        \/ /\ tasks'[i].priority = tasks'[j].priority
                           /\ tasks'[i].name < tasks'[j].name
      BY <2>5 DEF PriorityOrder
    <3>1. \A k, l \in 1 .. n : k < l =>
            \/ tasks[k].priority < tasks[l].priority
            \/ tasks[k].priority = tasks[l].priority /\ tasks[k].name < tasks[l].name
      BY DEF PriorityOrder
    <3>2. /\ \A k \in 1 .. p - 1 : tasks[k].priority <= kind.priority
          /\ \A k \in p .. n : tasks[k].priority > kind.priority
      BY <1>2 DEF Position
    <3>3. kind.priority \in 0 .. 3 /\ \A k \in 1 .. n : tasks[k].priority \in 0 .. 3
                                                      /\ tasks[k].name \in Nat
      BY <2>2, KindFields, TaskFields
    <3>4. CASE j = p
      <4>1. i \in 1 .. p - 1 /\ tasks'[i] = tasks[i] /\ i \in 1 .. n /\ tasks'[j] = task
        BY <2>3, <3>4
      <4>2. tasks[i].priority <= kind.priority /\ tasks[i].name <= n
        BY <2>2, <3>2, <4>1
      <4>3. tasks[i].name < n + 1
        BY <3>3, <4>1, <4>2
      <4>4. /\ tasks'[i].priority = tasks[i].priority /\ tasks'[i].name = tasks[i].name
            /\ tasks'[j].priority = kind.priority /\ tasks'[j].name = n + 1
        BY <2>1, <4>1
      <4>5. tasks[i].priority \in 0 .. 3 /\ kind.priority \in 0 .. 3
        BY <3>3, <4>1
      <4>6. \/ tasks[i].priority < kind.priority
            \/ tasks[i].priority = kind.priority /\ tasks[i].name < n + 1
        BY <4>2, <4>3, <4>5
      <4> QED BY <4>4, <4>6
    <3>5. CASE i = p
      <4>1. j - 1 \in p .. n /\ tasks'[j] = tasks[j - 1] /\ tasks'[i] = task
        BY <2>3, <3>5
      <4> QED BY <2>1, <3>2, <3>3, <4>1
    <3>6. CASE i # p /\ j # p
      <4>0. i \in Int /\ j \in Int /\ p \in Int
        BY <1>2
      <4>1. CASE j < p
        BY <2>3, <3>1, <4>1
      <4>2. CASE i < p /\ j > p
        BY <2>3, <3>1, <4>2
      <4>3. CASE i > p
        <5>1. /\ tasks'[i] = tasks[i - 1] /\ i - 1 \in 1 .. n
              /\ tasks'[j] = tasks[j - 1] /\ j - 1 \in 1 .. n /\ i - 1 < j - 1
          BY <2>3, <4>3
        <5>2. PICK a \in 1 .. n, b \in 1 .. n :
                a < b /\ tasks'[i] = tasks[a] /\ tasks'[j] = tasks[b]
          BY <5>1
        <5>3. \/ tasks[a].priority < tasks[b].priority
              \/ tasks[a].priority = tasks[b].priority /\ tasks[a].name < tasks[b].name
          BY <3>1, <5>2
        <5> QED BY <5>2, <5>3
      <4>4. j < p \/ (i < p /\ j > p) \/ i > p
        BY <3>6, <4>0
      <4> QED BY <4>1, <4>2, <4>3, <4>4
    <3>7. i = p \/ j = p \/ (i # p /\ j # p)
      OBVIOUS
    <3> QED BY <3>4, <3>5, <3>6, <3>7
  <2> QED BY <2>4, <2>5, <2>6, <2>7
<1> QED BY <1>1, <1>2 DEF Add

LEMMA RunTaskOK ==
  ASSUME SchedInv, NEW cost \in Costs, RunTask(cost) PROVE SchedInv'
<1> USE DEF SchedInv, SchedTypeOK
<1>1. /\ next \in 1 .. Len(tasks) /\ tasks' = [tasks EXCEPT ![next] = Account(@)]
      /\ clock' = After(clock, cost) /\ tick_ms' = tick_ms
      /\ next' = IF next = Len(tasks) THEN 0 ELSE next + 1
  BY DEF RunTask, Advance
<1>2. tasks[next] \in Task
  BY <1>1
<1>3. /\ Account(tasks[next]) \in Task
      /\ Account(tasks[next]).name = tasks[next].name
      /\ Account(tasks[next]).priority = tasks[next].priority
  BY <1>2, AccountTyped
<1>4. tasks' \in Seq(Task) /\ Len(tasks') = Len(tasks) /\ DOMAIN tasks' = DOMAIN tasks
  BY <1>1, <1>3
<1>5. \A i \in DOMAIN tasks : /\ tasks'[i].name = tasks[i].name
                              /\ tasks'[i].priority = tasks[i].priority
  BY <1>1, <1>3
<1>6. SchedTypeOK'
  <2>1. clock' \in Time
    BY <1>1, ClockFacts, SchedConstants
  <2>2. next' \in 0 .. Len(tasks)
    BY <1>1
  <2> QED BY <1>1, <1>4, <2>1, <2>2
<1> QED BY <1>4, <1>5, <1>6 DEF PriorityOrder

LEMMA SchedInvariant == SchedSpec => []SchedInv
<1>1. SchedInit => SchedInv
  BY ClockFacts, SchedConstants DEF SchedInit, SchedInv, SchedTypeOK, PriorityOrder
<1>2. SchedInv /\ [SchedNext]_schedVars => SchedInv'
  <2> SUFFICES ASSUME SchedInv, [SchedNext]_schedVars PROVE SchedInv'
    OBVIOUS
  <2> USE DEF SchedInv, SchedTypeOK
  <2>1. CASE UNCHANGED schedVars
    BY <2>1 DEF schedVars, PriorityOrder
  <2>2. ASSUME NEW gap \in Gaps, Tick(gap) PROVE SchedInv'
    <3>1. clock' \in Time /\ tick_ms' \in Time /\ tasks' = tasks
      BY <2>2, ClockFacts, SchedConstants DEF Tick
    <3>2. next' \in 0 .. Len(tasks)
      <4>1. Len(tasks) \in Nat /\ (tasks # <<>> => Len(tasks) \in Nat \ {0})
        BY EmptySeq, LenProperties
      <4>2. next' = IF tasks = <<>> THEN 0 ELSE 1
        BY <2>2 DEF Tick
      <4> QED BY <4>1, <4>2
    <3> QED BY <3>1, <3>2 DEF PriorityOrder
  <2>3. CASE SkipTask
    BY <2>3 DEF SkipTask, Advance, PriorityOrder
  <2> QED BY <2>1, <2>2, <2>3, AddOK, RunTaskOK DEF SchedNext
<1> QED BY <1>1, <1>2, PTL DEF SchedSpec

(* Type correctness of the task table, for any tasks and any sizes         *)
(* (core/ecu_scheduler.c).                                                 *)
THEOREM SchedTypeCorrect == SchedSpec => []SchedTypeOK
<1>1. SchedInv => SchedTypeOK
  BY DEF SchedInv
<1> QED BY <1>1, SchedInvariant, PTL

(* The order in which a tick meets the tasks, for any order of their       *)
(* registration (core/ecu_scheduler.c:9-18, 20-40).                        *)
THEOREM SchedPriorityOrder == SchedSpec => []PriorityOrder
<1>1. SchedInv => PriorityOrder
  BY DEF SchedInv
<1> QED BY <1>1, SchedInvariant, PTL

-----------------------------------------------------------------------------
(* When tasks really run.  The watched scheduler is the scheduler.         *)

(* The time from the last run of a task to the beginning of the tick.      *)
Lag(name) == age[name] - spent

(* Whether the present tick, or the last one, has passed entry i, and how  *)
(* many entries it may have run.                                           *)
Passed(i) == next = 0 \/ i < next
PassedCount == IF next = 0 THEN MaxTasks ELSE next - 1

HistoryTypes ==
  /\ age \in [1 .. MaxTasks -> Nat \cup {Never}] /\ spent \in Nat

(* Every task has a name of its own, and the interval of some kind.        *)
TasksDistinct ==
  /\ \A i, j \in DOMAIN tasks : tasks[i].name = tasks[j].name => i = j
  /\ \A name \in 1 .. MaxTasks : name > Len(tasks) => age[name] = Never
  /\ \A i \in DOMAIN tasks :
       \E kind \in TaskKinds : tasks[i].interval_ms = kind.interval_ms

(* A tick takes no longer than the tasks it runs.                          *)
TickBound ==
  /\ Elapsed(clock, tick_ms) = spent
  /\ spent = 0 \/ \E cost \in Costs : spent <= PassedCount * cost
  /\ next # 0 => Gaps # {}

(* The difference of timestamps is the time that has really passed, and is *)
(* short of the interval for the tasks the tick has dealt with.            *)
TaskExact(i) ==
  LET task == tasks[i]
  IN IF age[task.name] = Never
     THEN task.run_count = 0 /\ (next # 0 => i >= next)
     ELSE /\ Costs # {} /\ Gaps # {}
          /\ Lag(task.name) \in Nat
          /\ Elapsed(tick_ms, task.last_run_ms) = Lag(task.name)
          /\ Passed(i) => Lag(task.name) < task.interval_ms

AgesExact == \A i \in DOMAIN tasks : TaskExact(i)

HistoryInv == SchedInv /\ HistoryTypes /\ TasksDistinct /\ TickBound /\ AgesExact

(* As long as run_count has not wrapped to 0, a count of 0 means that the  *)
(* task has never run.                                                     *)
CountsRuns ==
  \A i \in DOMAIN tasks : tasks[i].run_count = 0 => age[tasks[i].name] = Never

ServedInTime ==
  \/ served.lapse = Never
  \/ \E i \in DOMAIN tasks :
       tasks[i].name = served.name /\ served.lapse >= tasks[i].interval_ms

LEMMA WatchedStep ==
  ASSUME SchedHistoryNext PROVE SchedNext
BY DEF SchedHistoryNext, AddSeen, TickSeen, RunTaskSeen, SkipTaskSeen, SchedNext

LEMMA WatchedInv ==
  ASSUME SchedInv, SchedHistoryNext PROVE SchedInv'
<1> USE DEF SchedInv, SchedTypeOK
<1>1. ASSUME NEW gap \in Gaps, Tick(gap) PROVE SchedInv'
  <2>1. clock' \in Time /\ tick_ms' \in Time /\ next' \in 0 .. Len(tasks)
    BY <1>1, ClockFacts, SchedConstants DEF Tick
  <2> QED BY <1>1, <2>1 DEF Tick, PriorityOrder
<1>2. CASE SkipTask
  BY <1>2 DEF SkipTask, Advance, PriorityOrder
<1> QED BY <1>1, <1>2, WatchedStep, AddOK, RunTaskOK DEF SchedNext

(* One more run takes no longer than one more of the dearest.              *)
LEMMA CostsAdd ==
  ASSUME NEW c \in Costs, NEW d \in Costs, NEW k \in Nat, NEW s \in Nat, s <= k * c
  PROVE  \E m \in Costs : s + d <= (k + 1) * m
<1>1. c \in Nat /\ d \in Nat
  BY SchedConstants
<1>2. CASE d <= c
  <2>1. (k + 1) * c = k * c + c /\ k * c \in Nat
    BY <1>1
  <2> QED BY <1>1, <1>2, <2>1
<1>3. CASE c <= d
  <2>1. k * c <= k * d /\ (k + 1) * d = k * d + d /\ k * d \in Nat /\ k * c \in Nat
    BY <1>1, <1>3
  <2> QED BY <1>1, <2>1
<1> QED BY <1>1, <1>2, <1>3

(* What a tick may take leaves room for an interval and a gap.             *)
LEMMA RoomInPeriod ==
  ASSUME NEW kind \in TaskKinds, NEW gap \in Gaps, NEW cost \in Costs,
         NEW k \in 0 .. MaxTasks, NEW s \in Nat, s = 0 \/ s <= k * cost
  PROVE  kind.interval_ms + gap + s < TimeMod
<1>1. /\ cost \in Nat /\ gap \in Nat /\ MaxTasks \in Nat /\ TimeMod \in Nat
      /\ kind.interval_ms \in Nat
  BY SchedConstants, KindFields, ClockFacts
<1>2. k * cost <= MaxTasks * cost /\ k * cost \in Nat /\ MaxTasks * cost \in Nat
  BY <1>1
<1>3. kind.interval_ms + gap + MaxTasks * cost < TimeMod
  BY PeriodAssumption
<1> QED BY <1>1, <1>2, <1>3

LEMMA AddHistory ==
  ASSUME HistoryInv, NEW kind \in TaskKinds, AddSeen(kind)
  PROVE  (HistoryTypes /\ TasksDistinct /\ TickBound /\ AgesExact)'
<1> DEFINE n == Len(tasks)
           task == NewTask(kind, n + 1)
<1>1. /\ next = 0 /\ UNCHANGED <<tick_ms, next, clock, age, spent, served>>
      /\ tasks \in Seq(Task) /\ n \in Nat
  BY DEF AddSeen, Add, schedHistory, HistoryInv, SchedInv, SchedTypeOK
<1>2. HistoryTypes' /\ TickBound'
  BY <1>1 DEF HistoryInv, HistoryTypes, TickBound, PassedCount
<1>3. CASE UNCHANGED tasks
  BY <1>1, <1>2, <1>3
     DEF HistoryInv, TasksDistinct, AgesExact, TaskExact, Passed, Lag
<1>4. ASSUME n < MaxTasks, NEW p \in 1 .. n + 1, InsertTask(p, task)
      PROVE  (TasksDistinct /\ AgesExact)'
  <2> DEFINE From(i) == IF i < p THEN i ELSE i - 1
  <2>1. /\ task.name = n + 1 /\ task.run_count = 0
        /\ task.interval_ms = kind.interval_ms
    BY <1>1 DEF NewTask
  <2> HIDE DEF task
  <2>2. /\ DOMAIN tasks = 1 .. n /\ DOMAIN tasks' = 1 .. n + 1 /\ Len(tasks') = n + 1
        /\ \A i \in 1 .. n + 1 : i # p => From(i) \in 1 .. n /\ tasks'[i] = tasks[From(i)]
        /\ tasks'[p] = task
    BY <1>1, <1>4 DEF InsertTask
  <2>3. \A i, j \in 1 .. n + 1 : i # p /\ j # p /\ From(i) = From(j) => i = j
    BY <1>1, <1>4
  <2> HIDE DEF From
  <2>4. \A i \in 1 .. n : tasks[i] \in Task /\ tasks[i].name <= n /\ tasks[i].name \in Nat
    BY <1>1, TaskFields DEF HistoryInv, SchedInv
  <2>5. \A i \in 1 .. n : tasks[i].name # task.name
    BY <1>1, <2>1, <2>4
  <2>6. age[n + 1] = Never
    BY <1>1, <1>4, SchedConstants DEF HistoryInv, TasksDistinct
  <2>7. TasksDistinct'
    <3>1. ASSUME NEW i \in 1 .. n + 1, NEW j \in 1 .. n + 1,
                 tasks'[i].name = tasks'[j].name
          PROVE  i = j
      <4>1. CASE i = p \/ j = p
        BY <2>2, <2>5, <3>1, <4>1
      <4>2. CASE i # p /\ j # p
        <5>1. tasks[From(i)].name = tasks[From(j)].name
          BY <2>2, <3>1, <4>2
        <5>2. From(i) = From(j)
          BY <2>2, <4>2, <5>1 DEF HistoryInv, TasksDistinct
        <5> QED BY <2>3, <4>2, <5>2
      <4> QED BY <4>1, <4>2
    <3>2. ASSUME NEW name \in 1 .. MaxTasks, name > n + 1 PROVE age[name] = Never
      BY <1>1, <3>2 DEF HistoryInv, TasksDistinct
    <3>3. ASSUME NEW i \in 1 .. n + 1
          PROVE  \E k \in TaskKinds : tasks'[i].interval_ms = k.interval_ms
      <4>1. CASE i = p
        BY <2>1, <2>2, <4>1
      <4>2. CASE i # p
        BY <2>2, <4>2 DEF HistoryInv, TasksDistinct
      <4> QED BY <4>1, <4>2
    <3> QED BY <1>1, <2>2, <3>1, <3>2, <3>3 DEF TasksDistinct
  <2>8. AgesExact'
    <3> SUFFICES ASSUME NEW i \in 1 .. n + 1 PROVE TaskExact(i)'
      BY <2>2 DEF AgesExact
    <3>1. CASE i = p
      BY <1>1, <2>1, <2>2, <2>6, <3>1 DEF TaskExact
    <3>2. CASE i # p
      <4>1. TaskExact(From(i)) /\ tasks'[i] = tasks[From(i)]
        BY <2>2, <3>2 DEF HistoryInv, AgesExact
      <4> QED BY <1>1, <4>1 DEF TaskExact, Passed, Lag
    <3> QED BY <3>1, <3>2
  <2> QED BY <2>7, <2>8
<1> QED BY <1>2, <1>3, <1>4 DEF AddSeen, Add

(* The gap is added to every age and to every difference of timestamps.    *)
LEMMA TickHistory ==
  ASSUME HistoryInv, NEW gap \in Gaps, TickSeen(gap)
  PROVE  (HistoryTypes /\ TasksDistinct /\ TickBound /\ AgesExact)'
<1>1. /\ next = 0 /\ clock' = After(clock, gap) /\ tick_ms' = clock'
      /\ next' = (IF tasks = <<>> THEN 0 ELSE 1) /\ tasks' = tasks
      /\ age' = Older(gap) /\ spent' = 0
  BY DEF TickSeen, Tick
<1>2. /\ gap \in Nat /\ clock \in Time /\ clock' \in Time /\ tick_ms \in Time
      /\ tasks \in Seq(Task) /\ spent \in Nat /\ MaxTasks \in Nat
      /\ age \in [1 .. MaxTasks -> Nat \cup {Never}] /\ Never \notin Nat
  <2>1. gap \in Nat /\ MaxTasks \in Nat
    BY SchedConstants
  <2>2. clock \in Time /\ tick_ms \in Time /\ tasks \in Seq(Task)
    BY DEF HistoryInv, SchedInv, SchedTypeOK
  <2>3. clock' \in Time
    BY <1>1, <2>1, <2>2, ClockFacts
  <2>4. spent \in Nat /\ age \in [1 .. MaxTasks -> Nat \cup {Never}]
    BY DEF HistoryInv, HistoryTypes
  <2>5. Never \notin Nat
    BY DEF Never
  <2> QED BY <2>1, <2>2, <2>3, <2>4, <2>5
<1>3. \A name \in 1 .. MaxTasks :
        /\ age[name] = Never => age'[name] = Never
        /\ age[name] # Never => age[name] \in Nat /\ age'[name] = age[name] + gap
                                /\ age'[name] # Never
  BY <1>1, <1>2 DEF Older, Never
<1>4. age' \in [1 .. MaxTasks -> Nat \cup {Never}]
  BY <1>1, <1>2 DEF Older
<1>5. TickBound'
  BY <1>1, <1>2, ClockFacts DEF TickBound
<1>6. TasksDistinct'
  BY <1>1, <1>3 DEF HistoryInv, TasksDistinct
<1>7. ASSUME NEW i \in DOMAIN tasks PROVE TaskExact(i)'
  <2> DEFINE task == tasks[i]
             lag == Lag(task.name)
  <2>1. /\ task.name \in 1 .. MaxTasks /\ task.interval_ms \in Nat
        /\ task.last_run_ms \in Time
    <3>1. task \in Task
      BY <1>2
    <3> HIDE DEF task
    <3> QED BY <3>1, TaskFields
  <2>2. i \in Nat /\ i >= 1 /\ next' = 1
    BY <1>1, <1>2
  <2>3. CASE age[task.name] = Never
    BY <1>1, <1>3, <2>1, <2>2, <2>3 DEF HistoryInv, AgesExact, TaskExact
  <2>4. CASE age[task.name] # Never
    <3>1. /\ Costs # {} /\ lag \in Nat /\ lag < task.interval_ms
          /\ Elapsed(tick_ms, task.last_run_ms) = lag
      BY <1>1, <2>4 DEF HistoryInv, AgesExact, TaskExact, Passed
    <3>2. /\ Elapsed(clock, tick_ms) = spent
          /\ spent = 0 \/ \E cost \in Costs : spent <= MaxTasks * cost
      BY <1>1 DEF HistoryInv, TickBound, PassedCount
    <3>3. PICK kind \in TaskKinds : task.interval_ms = kind.interval_ms
      BY DEF HistoryInv, TasksDistinct
    <3>4. PICK cost \in Costs : spent = 0 \/ spent <= MaxTasks * cost
      BY <3>1, <3>2
    <3>5. kind.interval_ms + gap + spent < TimeMod
      <4>1. MaxTasks \in 0 .. MaxTasks
        BY <1>2
      <4> QED BY <1>2, <3>4, <4>1, RoomInPeriod
    <3>6. lag + spent + gap < TimeMod /\ TimeMod \in Nat
      BY <1>2, <2>1, <3>1, <3>3, <3>5, ClockFacts
    <3>7. Elapsed(clock, task.last_run_ms) = lag + spent
      <4>1. Elapsed(clock, tick_ms) + Elapsed(tick_ms, task.last_run_ms) < TimeMod
        BY <1>2, <3>1, <3>2, <3>6
      <4>2. Elapsed(clock, task.last_run_ms) =
              Elapsed(clock, tick_ms) + Elapsed(tick_ms, task.last_run_ms)
        BY <1>2, <2>1, <4>1, ElapsedChain
      <4> QED BY <1>2, <3>1, <3>2, <4>2
    <3>8. Elapsed(clock', task.last_run_ms) = lag + spent + gap
      <4>1. Elapsed(clock, task.last_run_ms) + gap < TimeMod
        BY <3>6, <3>7
      <4> QED BY <1>1, <1>2, <2>1, <3>7, <4>1, ElapsedAdds
    <3>9. age'[task.name] # Never /\ Lag(task.name)' = lag + spent + gap
      BY <1>1, <1>2, <1>3, <2>1, <2>4 DEF Lag
    <3>10. ~Passed(i)'
      BY <2>2 DEF Passed
    <3> QED BY <1>1, <1>2, <3>1, <3>8, <3>9, <3>10 DEF TaskExact
  <2> QED BY <2>3, <2>4
<1> QED BY <1>1, <1>4, <1>5, <1>6, <1>7 DEF AgesExact, HistoryTypes

(* What a run leaves: the entry of the task it ran, and the ages.          *)
LEMMA RunLeaves ==
  ASSUME HistoryInv, NEW cost \in Costs, RunTaskSeen(cost)
  PROVE  /\ next \in 1 .. Len(tasks) /\ cost \in Nat /\ Due(tasks[next])
         /\ DOMAIN tasks = 1 .. Len(tasks) /\ DOMAIN tasks' = DOMAIN tasks
         /\ Len(tasks') = Len(tasks)
         /\ \A i \in DOMAIN tasks : tasks[i] \in Task
         /\ \A i \in DOMAIN tasks : i # next => tasks'[i] = tasks[i]
         /\ \A i \in DOMAIN tasks : /\ tasks'[i].name = tasks[i].name
                                    /\ tasks'[i].interval_ms = tasks[i].interval_ms
         /\ tasks'[next].last_run_ms = tick_ms
         /\ tasks'[next].run_count = IF tasks[next].run_count = RunCap
                                     THEN AfterRunCap ELSE tasks[next].run_count + 1
         /\ age' \in [1 .. MaxTasks -> Nat \cup {Never}]
         /\ age'[tasks[next].name] = spent + cost /\ age'[tasks[next].name] # Never
         /\ \A name \in 1 .. MaxTasks : name # tasks[next].name =>
              /\ age[name] = Never => age'[name] = Never
              /\ age[name] # Never => age[name] \in Nat /\ age'[name] = age[name] + cost
                                      /\ age'[name] # Never
         /\ spent \in Nat /\ spent' = spent + cost
         /\ clock' = After(clock, cost) /\ tick_ms' = tick_ms
         /\ next' = IF next = Len(tasks) THEN 0 ELSE next + 1
<1>1. /\ next # 0 /\ Due(tasks[next]) /\ tasks' = [tasks EXCEPT ![next] = Account(@)]
      /\ clock' = After(clock, cost) /\ tick_ms' = tick_ms
      /\ next' = (IF next = Len(tasks) THEN 0 ELSE next + 1)
      /\ age' = [Older(cost) EXCEPT ![tasks[next].name] = spent + cost]
      /\ spent' = spent + cost
  BY DEF RunTaskSeen, RunTask, Advance
<1>2. /\ tasks \in Seq(Task) /\ next \in 0 .. Len(tasks)
      /\ age \in [1 .. MaxTasks -> Nat \cup {Never}] /\ spent \in Nat /\ cost \in Nat
  BY SchedConstants DEF HistoryInv, HistoryTypes, SchedInv, SchedTypeOK
<1>3. next \in 1 .. Len(tasks) /\ tasks[next] \in Task
      /\ tasks[next].name \in 1 .. MaxTasks
  <2>1. next \in 1 .. Len(tasks) /\ tasks[next] \in Task
    BY <1>1, <1>2
  <2> QED BY <2>1, TaskFields
<1>4. /\ Account(tasks[next]).name = tasks[next].name
      /\ Account(tasks[next]).interval_ms = tasks[next].interval_ms
      /\ Account(tasks[next]).last_run_ms = tick_ms
      /\ Account(tasks[next]).run_count =
           IF tasks[next].run_count = RunCap THEN AfterRunCap ELSE tasks[next].run_count + 1
  <2>1. \A t \in Task :
          /\ Account(t).name = t.name /\ Account(t).interval_ms = t.interval_ms
          /\ Account(t).last_run_ms = tick_ms
          /\ Account(t).run_count = IF t.run_count = RunCap THEN AfterRunCap
                                    ELSE t.run_count + 1
    BY DEF Account, Task
  <2> QED BY <1>3, <2>1
<1>5. /\ DOMAIN tasks = 1 .. Len(tasks) /\ DOMAIN tasks' = DOMAIN tasks
      /\ Len(tasks') = Len(tasks)
      /\ tasks'[next] = Account(tasks[next])
      /\ \A i \in DOMAIN tasks : tasks[i] \in Task
      /\ \A i \in DOMAIN tasks : i # next => tasks'[i] = tasks[i]
  <2>1. Len(tasks) \in Nat /\ DOMAIN tasks = 1 .. Len(tasks)
    BY <1>2
  <2>2. tasks' \in Seq(Task)
    <3>1. Account(tasks[next]) \in Task
      BY <1>3, AccountTyped DEF HistoryInv, SchedInv, SchedTypeOK
    <3> QED BY <1>1, <1>2, <1>3, <3>1
  <2>3. DOMAIN tasks' = 1 .. Len(tasks)
    BY <1>1, <2>1
  <2>4. tasks'[next] = Account(tasks[next])
    BY <1>1, <1>3, <2>1
  <2>5. \A i \in DOMAIN tasks : i # next => tasks'[i] = tasks[i]
    BY <1>1, <2>1
  <2>6. Len(tasks') = Len(tasks)
    BY <2>1, <2>2, <2>3
  <2> QED BY <1>2, <2>1, <2>3, <2>4, <2>5, <2>6
<1>6. /\ age' \in [1 .. MaxTasks -> Nat \cup {Never}]
      /\ age'[tasks[next].name] = spent + cost /\ age'[tasks[next].name] # Never
      /\ \A name \in 1 .. MaxTasks : name # tasks[next].name =>
           /\ age[name] = Never => age'[name] = Never
           /\ age[name] # Never => age[name] \in Nat /\ age'[name] = age[name] + cost
                                   /\ age'[name] # Never
  BY <1>1, <1>2, <1>3 DEF Older, Never
<1>7. \A i \in DOMAIN tasks : /\ tasks'[i].name = tasks[i].name
                              /\ tasks'[i].interval_ms = tasks[i].interval_ms
  BY <1>4, <1>5
<1> QED BY <1>1, <1>2, <1>3, <1>4, <1>5, <1>6, <1>7

LEMMA RunTaskHistory ==
  ASSUME HistoryInv, NEW cost \in Costs, RunTaskSeen(cost)
  PROVE  (HistoryTypes /\ TasksDistinct /\ TickBound /\ AgesExact)'
<1> DEFINE ran == tasks[next].name
<1>1. /\ next \in 1 .. Len(tasks) /\ next \in DOMAIN tasks /\ cost \in Nat
      /\ Len(tasks) \in Nat /\ Len(tasks) <= MaxTasks /\ MaxTasks \in Nat
      /\ clock \in Time /\ tick_ms \in Time /\ Never \notin Nat
  BY RunLeaves, SchedConstants DEF HistoryInv, SchedInv, SchedTypeOK, Never
<1>2. \A i \in DOMAIN tasks :
        /\ i \in 1 .. Len(tasks) /\ tasks[i].name \in 1 .. MaxTasks
        /\ tasks[i].interval_ms \in Nat \ {0}
        /\ i # next => tasks[i].name # ran
  BY <1>1, RunLeaves DEF HistoryInv, TasksDistinct, Task
<1>3. Gaps # {}
  BY <1>1 DEF HistoryInv, TickBound
<1>4. HistoryTypes'
  BY RunLeaves DEF HistoryTypes
<1>5. TasksDistinct'
  <2>1. ran <= Len(tasks) /\ ran \in Nat
    BY <1>1, <1>2 DEF HistoryInv, SchedInv
  <2>2. \A name \in 1 .. MaxTasks : name > Len(tasks) => age'[name] = Never
    BY <1>1, <2>1, RunLeaves DEF HistoryInv, TasksDistinct
  <2>3. \A i, j \in DOMAIN tasks : tasks'[i].name = tasks'[j].name => i = j
    BY RunLeaves DEF HistoryInv, TasksDistinct
  <2>4. \A i \in DOMAIN tasks :
          \E kind \in TaskKinds : tasks'[i].interval_ms = kind.interval_ms
    BY RunLeaves DEF HistoryInv, TasksDistinct
  <2> QED BY <2>2, <2>3, <2>4, RunLeaves DEF TasksDistinct
<1>6. PICK m \in Costs : spent + cost <= next * m
  <2>1. CASE spent = 0
    BY <1>1, <2>1, CostsAdd, SchedConstants
  <2>2. CASE spent # 0
    <3>1. PICK c \in Costs : spent <= (next - 1) * c
      BY <1>1, <2>2 DEF HistoryInv, TickBound, PassedCount
    <3>2. next - 1 \in Nat /\ (next - 1) + 1 = next /\ spent \in Nat
      BY <1>1, RunLeaves
    <3> QED BY <3>1, <3>2, CostsAdd
  <2> QED BY <2>1, <2>2
<1>7. TickBound'
  <2>1. PICK kind \in TaskKinds : tasks[next].interval_ms = kind.interval_ms
    BY <1>1 DEF HistoryInv, TasksDistinct
  <2>2. PICK gap \in Gaps : TRUE
    BY <1>3
  <2>3. spent + cost \in Nat /\ next \in 0 .. MaxTasks
    BY <1>1, RunLeaves
  <2>4. kind.interval_ms + gap + (spent + cost) < TimeMod
    BY <1>6, <2>3, RoomInPeriod
  <2>5. spent + cost < TimeMod
    BY <2>3, <2>4, KindFields, SchedConstants, ClockFacts
  <2>6. Elapsed(clock', tick_ms') = spent'
    <3>1. Elapsed(clock, tick_ms) = spent
      BY DEF HistoryInv, TickBound
    <3> QED BY <1>1, <2>5, <3>1, ElapsedAdds, RunLeaves
  <2>7. spent' <= PassedCount' * m
    <3>1. CASE next = Len(tasks)
      <4>1. next * m <= MaxTasks * m /\ next * m \in Nat /\ MaxTasks * m \in Nat
        BY <1>1, SchedConstants
      <4>2. PassedCount' = MaxTasks
        BY <3>1, RunLeaves DEF PassedCount
      <4> QED BY <1>6, <2>3, <4>1, <4>2, RunLeaves
    <3>2. CASE next # Len(tasks)
      <4>1. next' = next + 1 /\ next + 1 # 0 /\ (next + 1) - 1 = next
        BY <1>1, <3>2, RunLeaves
      <4>2. PassedCount' = next
        BY <4>1 DEF PassedCount
      <4> QED BY <1>6, <4>2, RunLeaves
    <3> QED BY <3>1, <3>2
  <2> QED BY <1>3, <2>6, <2>7 DEF TickBound
<1>8. ASSUME NEW i \in DOMAIN tasks PROVE TaskExact(i)'
  <2>1. CASE i = next
    <3>1. /\ tasks'[i].name = ran /\ age'[ran] = spent + cost /\ age'[ran] # Never
          /\ tasks'[i].last_run_ms = tick_ms /\ tick_ms' = tick_ms
          /\ spent \in Nat /\ spent' = spent + cost
          /\ tasks'[i].interval_ms \in Nat \ {0}
      BY <1>2, <2>1, RunLeaves
    <3>2. age'[ran] - spent' = 0
      BY <1>1, <3>1
    <3>3. Elapsed(tick_ms, tick_ms) = 0
      BY <1>1, ClockFacts
    <3>4. 0 < tasks'[i].interval_ms
      BY <3>1
    <3> QED BY <1>3, <3>1, <3>2, <3>3, <3>4 DEF TaskExact, Lag
  <2>2. CASE i # next
    <3> DEFINE name == tasks[i].name
    <3>1. /\ tasks'[i] = tasks[i] /\ name \in 1 .. MaxTasks /\ name # ran
          /\ tick_ms' = tick_ms
      BY <1>2, <2>2, RunLeaves
    <3>2. TaskExact(i)
      BY DEF HistoryInv, AgesExact
    <3>3. next' # 0 => next' = next + 1
      BY RunLeaves
    <3>4. CASE age[name] = Never
      <4>1. age'[name] = Never /\ tasks[i].run_count = 0 /\ i >= next
        BY <1>1, <3>1, <3>2, <3>4, RunLeaves DEF TaskExact
      <4>2. next' # 0 => i >= next'
        BY <1>1, <1>2, <2>2, <3>3, <4>1
      <4> QED BY <3>1, <4>1, <4>2 DEF TaskExact
    <3>5. CASE age[name] # Never
      <4>1. age'[name] # Never /\ Lag(name)' = Lag(name)
        BY <1>1, <3>1, <3>5, RunLeaves DEF Lag
      <4>2. Passed(i)' => Passed(i)
        BY <1>1, <1>2, <2>2, RunLeaves DEF Passed
      <4> QED BY <3>1, <3>2, <3>5, <4>1, <4>2 DEF TaskExact
    <3> QED BY <3>4, <3>5
  <2> QED BY <2>1, <2>2
<1> QED BY <1>4, <1>5, <1>7, <1>8, RunLeaves DEF AgesExact

(* A task that is not due has run less than its interval ago.              *)
LEMMA SkipHistory ==
  ASSUME HistoryInv, SkipTaskSeen
  PROVE  (HistoryTypes /\ TasksDistinct /\ TickBound /\ AgesExact)'
<1> DEFINE n == Len(tasks)
<1>0. /\ next # 0 /\ ~Due(tasks[next])
      /\ UNCHANGED <<tasks, tick_ms, clock, age, spent, served>>
      /\ next' = (IF next = n THEN 0 ELSE next + 1)
  BY DEF SkipTaskSeen, SkipTask, Advance, schedHistory
<1>1. /\ next \in 1 .. n /\ DOMAIN tasks = 1 .. n /\ n \in Nat
      /\ n <= MaxTasks /\ MaxTasks \in Nat
  BY <1>0, SchedConstants DEF HistoryInv, SchedInv, SchedTypeOK
<1> HIDE DEF n
<1>2. HistoryTypes' /\ TasksDistinct'
  BY <1>0, <1>1 DEF HistoryInv, HistoryTypes, TasksDistinct
<1>3. TickBound'
  <2>1. ASSUME NEW c \in Costs, spent <= (next - 1) * c
        PROVE  spent <= PassedCount' * c
    <3>1. PassedCount' \in Nat /\ PassedCount' >= next - 1 /\ c \in Nat /\ next - 1 \in Nat
      BY <1>0, <1>1, SchedConstants DEF PassedCount
    <3>2. \A k, l \in Nat : k <= l => k * c <= l * c /\ k * c \in Nat /\ l * c \in Nat
      BY <3>1
    <3>3. (next - 1) * c <= PassedCount' * c /\ (next - 1) * c \in Nat
          /\ PassedCount' * c \in Nat
      BY <3>1, <3>2
    <3>4. spent \in Nat
      BY DEF HistoryInv, HistoryTypes
    <3> QED BY <2>1, <3>3, <3>4
  <2>2. PassedCount = next - 1
    BY <1>0, <1>1 DEF PassedCount
  <2>3. spent = 0 \/ \E cost \in Costs : spent <= PassedCount' * cost
    BY <2>1, <2>2 DEF HistoryInv, TickBound
  <2> QED BY <1>0, <1>1, <2>3 DEF HistoryInv, TickBound
<1>4. ASSUME NEW i \in DOMAIN tasks PROVE TaskExact(i)'
  <2>1. TaskExact(i) /\ i \in 1 .. n
    BY <1>0, <1>1 DEF HistoryInv, AgesExact
  <2>2. CASE i # next
    <3>1. next' # 0 /\ i >= next => i >= next'
      BY <1>0, <1>1, <2>1, <2>2
    <3>2. Passed(i)' => Passed(i)
      BY <1>0, <1>1, <2>1, <2>2 DEF Passed
    <3>3. next # 0
      BY <1>0, <1>1
    <3> QED BY <1>0, <1>1, <2>1, <3>1, <3>2, <3>3 DEF TaskExact, Lag
  <2>3. CASE i = next
    <3>1. /\ tasks[i].run_count # 0
          /\ ~(Elapsed(tick_ms, tasks[i].last_run_ms) >= tasks[i].interval_ms)
      BY <1>0, <1>1, <2>3 DEF Due
    <3>2. age[tasks[i].name] # Never
      BY <2>1, <3>1 DEF TaskExact
    <3>3. tasks[i].interval_ms \in Nat
      BY <1>0, <1>1, <2>1, TaskFields DEF HistoryInv, SchedInv, SchedTypeOK
    <3>4. Lag(tasks[i].name) < tasks[i].interval_ms
      BY <2>1, <3>1, <3>2, <3>3 DEF TaskExact
    <3> QED BY <1>0, <1>1, <2>1, <3>2, <3>4 DEF TaskExact, Lag
  <2> QED BY <2>2, <2>3
<1> QED BY <1>0, <1>1, <1>2, <1>3, <1>4 DEF AgesExact

LEMMA HistoryInvariant == SchedHistorySpec => []HistoryInv
<1>1. SchedHistoryInit => HistoryInv
  <2> SUFFICES ASSUME SchedHistoryInit PROVE HistoryInv
    OBVIOUS
  <2>1. SchedInv
    BY ClockFacts, SchedConstants
       DEF SchedHistoryInit, SchedInit, SchedInv, SchedTypeOK, PriorityOrder
  <2>2. DOMAIN tasks = {} /\ Elapsed(clock, tick_ms) = 0
    BY ClockFacts DEF SchedHistoryInit, SchedInit
  <2>3. HistoryTypes /\ TasksDistinct
    BY <2>2 DEF SchedHistoryInit, HistoryTypes, TasksDistinct
  <2>4. TickBound /\ AgesExact
    BY <2>2 DEF SchedHistoryInit, SchedInit, TickBound, AgesExact
  <2> QED BY <2>1, <2>3, <2>4 DEF HistoryInv
<1>2. HistoryInv /\ [SchedHistoryNext]_schedAllVars => HistoryInv'
  <2> SUFFICES ASSUME HistoryInv, [SchedHistoryNext]_schedAllVars PROVE HistoryInv'
    OBVIOUS
  <2>1. CASE UNCHANGED schedAllVars
    <3>1. UNCHANGED <<tasks, tick_ms, next, clock, age, spent, served>>
      BY <2>1 DEF schedAllVars, schedVars, schedHistory
    <3>2. SchedInv'
      BY <3>1 DEF HistoryInv, SchedInv, SchedTypeOK, PriorityOrder
    <3>3. HistoryTypes' /\ TasksDistinct'
      BY <3>1 DEF HistoryInv, HistoryTypes, TasksDistinct
    <3>4. TickBound'
      BY <3>1 DEF HistoryInv, TickBound, PassedCount
    <3>5. AgesExact'
      BY <3>1 DEF HistoryInv, AgesExact, TaskExact, Passed, Lag
    <3> QED BY <3>2, <3>3, <3>4, <3>5 DEF HistoryInv
  <2>2. CASE SchedHistoryNext
    <3>1. SchedInv'
      BY <2>2, WatchedInv DEF HistoryInv
    <3>2. (HistoryTypes /\ TasksDistinct /\ TickBound /\ AgesExact)'
      BY <2>2, AddHistory, TickHistory, RunTaskHistory, SkipHistory DEF SchedHistoryNext
    <3> QED BY <3>1, <3>2 DEF HistoryInv
  <2> QED BY <2>1, <2>2
<1> QED BY <1>1, <1>2, PTL DEF SchedHistorySpec

(* When a tick ends every task has run, and less than its interval before  *)
(* that tick began, for any costs and gaps that fit into a period of the   *)
(* clock (core/ecu_scheduler.c:42-69, ecu_types.h).                        *)
THEOREM SchedNeverLate == SchedHistorySpec => NeverLate
<1>1. HistoryInv /\ HistoryInv' /\ [SchedHistoryNext]_schedAllVars =>
        [next # 0 /\ next' = 0 =>
           \A i \in DOMAIN tasks :
             LET name == tasks[i].name
             IN age'[name] # Never /\ age'[name] - spent' < tasks[i].interval_ms]_schedAllVars
  <2> SUFFICES ASSUME HistoryInv, HistoryInv', SchedHistoryNext,
                      next # 0, next' = 0, NEW i \in DOMAIN tasks
               PROVE  /\ age'[tasks[i].name] # Never
                      /\ age'[tasks[i].name] - spent' < tasks[i].interval_ms
    OBVIOUS
  <2>0. i \in Nat /\ i <= Len(tasks) /\ Len(tasks) \in Nat /\ next \in Nat
    BY DEF HistoryInv, SchedInv, SchedTypeOK
  <2>1. TaskExact(i)
    BY DEF HistoryInv, AgesExact
  <2>2. /\ next = Len(tasks) /\ DOMAIN tasks' = DOMAIN tasks
        /\ tasks'[i].name = tasks[i].name /\ tasks'[i].interval_ms = tasks[i].interval_ms
        /\ age'[tasks[i].name] # Never
    <3>1. CASE \E cost \in Costs : RunTaskSeen(cost)
      <4>1. PICK cost \in Costs : RunTaskSeen(cost)
        BY <3>1
      <4>2. next = Len(tasks)
        BY <2>0, <4>1, RunLeaves
      <4>3. /\ DOMAIN tasks' = DOMAIN tasks /\ tasks'[i].name = tasks[i].name
            /\ tasks'[i].interval_ms = tasks[i].interval_ms
        BY <4>1, RunLeaves
      <4>4. CASE i = next
        BY <4>1, <4>2, <4>3, <4>4, RunLeaves
      <4>5. CASE i # next
        <5>1. age[tasks[i].name] # Never
          BY <2>0, <2>1, <4>2, <4>5 DEF TaskExact
        <5>2. tasks[i].name # tasks[next].name
          BY <2>0, <2>1, <4>1, <4>5, RunLeaves DEF HistoryInv, TasksDistinct
        <5>3. tasks[i].name \in 1 .. MaxTasks
          BY <2>0, <2>1, TaskFields DEF HistoryInv, SchedInv, SchedTypeOK
        <5> QED BY <4>1, <4>2, <4>3, <5>1, <5>2, <5>3, RunLeaves
      <4> QED BY <4>4, <4>5
    <3>2. CASE SkipTaskSeen
      <4>1. /\ UNCHANGED <<tasks, age>>
            /\ next' = (IF next = Len(tasks) THEN 0 ELSE next + 1)
        BY <3>2 DEF SkipTaskSeen, SkipTask, Advance, schedHistory
      <4>2. next = Len(tasks)
        BY <2>0, <4>1
      <4>3. CASE i = next
        <5>1. tasks[i].run_count # 0
          BY <3>2, <4>3 DEF SkipTaskSeen, SkipTask, Due
        <5>2. age[tasks[i].name] # Never
          BY <2>0, <2>1, <5>1 DEF TaskExact
        <5> QED BY <4>1, <4>2, <5>2
      <4>4. CASE i # next
        BY <2>0, <2>1, <4>1, <4>2, <4>4 DEF TaskExact
      <4> QED BY <4>1, <4>2, <4>3, <4>4
    <3>3. ~(\E kind \in TaskKinds : AddSeen(kind)) /\ ~(\E gap \in Gaps : TickSeen(gap))
      BY DEF AddSeen, TickSeen, Add, Tick
    <3> QED BY <3>1, <3>2, <3>3 DEF SchedHistoryNext
  <2>3. TaskExact(i)'
    BY <2>2 DEF HistoryInv, AgesExact
  <2> QED BY <2>2, <2>3 DEF TaskExact, Passed, Lag
<1> QED BY <1>1, HistoryInvariant, PTL DEF SchedHistorySpec, NeverLate

(* Unless run_count can wrap to 0: the tasks that have run have a count,   *)
(* and the last run was not early.                                         *)
LEMMA ServedInvariant ==
  ASSUME AfterRunCap # 0
  PROVE  SchedHistorySpec => [](CountsRuns /\ ServedInTime)
<1>1. SchedHistoryInit => CountsRuns /\ ServedInTime
  BY DEF SchedHistoryInit, SchedInit, CountsRuns, ServedInTime
<1>2. HistoryInv /\ HistoryInv' /\ CountsRuns /\ ServedInTime
        /\ [SchedHistoryNext]_schedAllVars => (CountsRuns /\ ServedInTime)'
  <2> SUFFICES ASSUME HistoryInv, HistoryInv', CountsRuns, ServedInTime,
                      [SchedHistoryNext]_schedAllVars
               PROVE  (CountsRuns /\ ServedInTime)'
    OBVIOUS
  <2>1. CASE UNCHANGED <<tasks, served>> /\ \A name \in 1 .. MaxTasks :
                                              age[name] = Never => age'[name] = Never
    <3>1. \A i \in DOMAIN tasks : tasks[i].name \in 1 .. MaxTasks
      BY TaskFields DEF HistoryInv, SchedInv, SchedTypeOK
    <3> QED BY <2>1, <3>1 DEF CountsRuns, ServedInTime
  <2>2. ASSUME NEW kind \in TaskKinds, AddSeen(kind)
        PROVE  (CountsRuns /\ ServedInTime)'
    <3> DEFINE n == Len(tasks)
               task == NewTask(kind, n + 1)
    <3>1. UNCHANGED <<age, served>> /\ tasks \in Seq(Task) /\ n \in Nat
      BY <2>2 DEF AddSeen, schedHistory, HistoryInv, SchedInv, SchedTypeOK
    <3>2. CASE UNCHANGED tasks
      BY <3>1, <3>2 DEF CountsRuns, ServedInTime
    <3>3. ASSUME n < MaxTasks, NEW p \in 1 .. n + 1, InsertTask(p, task)
          PROVE  (CountsRuns /\ ServedInTime)'
      <4>1. /\ DOMAIN tasks = 1 .. n /\ DOMAIN tasks' = 1 .. n + 1 /\ tasks'[p] = task
            /\ \A i \in 1 .. n + 1 : i # p => \E k \in 1 .. n : tasks'[i] = tasks[k]
            /\ \A k \in 1 .. n : \E i \in 1 .. n + 1 : tasks'[i] = tasks[k]
        <5> HIDE DEF task
        <5>1. /\ DOMAIN tasks = 1 .. n /\ DOMAIN tasks' = 1 .. n + 1 /\ tasks'[p] = task
              /\ \A i \in 1 .. n + 1 :
                   /\ i < p => tasks'[i] = tasks[i] /\ i \in 1 .. n
                   /\ i > p => tasks'[i] = tasks[i - 1] /\ i - 1 \in 1 .. n
          BY <3>1, <3>3 DEF InsertTask
        <5>2. ASSUME NEW i \in 1 .. n + 1, i # p
              PROVE  \E k \in 1 .. n : tasks'[i] = tasks[k]
          <6>1. CASE i < p
            BY <5>1, <6>1
          <6>2. CASE i > p
            BY <5>1, <6>2
          <6> QED BY <3>3, <5>2, <6>1, <6>2
        <5>3. ASSUME NEW k \in 1 .. n
              PROVE  \E i \in 1 .. n + 1 : tasks'[i] = tasks[k]
          <6>1. CASE k < p
            BY <3>1, <5>1, <6>1
          <6>2. CASE ~(k < p)
            <7>1. k + 1 \in 1 .. n + 1 /\ k + 1 > p /\ (k + 1) - 1 = k
              BY <3>1, <3>3, <6>2
            <7> QED BY <5>1, <7>1
          <6> QED BY <6>1, <6>2
        <5> QED BY <5>1, <5>2, <5>3
      <4>2. age[task.name] = Never
        <5>1. task.name = n + 1
          BY DEF NewTask
        <5>2. n + 1 \in 1 .. MaxTasks /\ n + 1 > n
          BY <3>1, <3>3, SchedConstants
        <5> QED BY <5>1, <5>2 DEF HistoryInv, TasksDistinct
      <4> HIDE DEF task
      <4>3. CountsRuns'
        <5> SUFFICES ASSUME NEW i \in 1 .. n + 1, tasks'[i].run_count = 0
                     PROVE  age[tasks'[i].name] = Never
          BY <3>1, <4>1 DEF CountsRuns
        <5>1. CASE i = p
          BY <4>1, <4>2, <5>1
        <5>2. CASE i # p
          BY <4>1, <5>2 DEF CountsRuns
        <5> QED BY <5>1, <5>2
      <4>4. ServedInTime'
        BY <3>1, <4>1 DEF ServedInTime
      <4> QED BY <4>3, <4>4
    <3> QED BY <2>2, <3>2, <3>3 DEF AddSeen, Add
  <2>3. ASSUME NEW gap \in Gaps, TickSeen(gap)
        PROVE  (CountsRuns /\ ServedInTime)'
    <3>1. UNCHANGED <<tasks, served>> /\ age' = Older(gap)
      BY <2>3 DEF TickSeen, Tick
    <3> QED BY <2>1, <3>1 DEF Older
  <2>4. ASSUME NEW cost \in Costs, RunTaskSeen(cost)
        PROVE  (CountsRuns /\ ServedInTime)'
    <3> DEFINE task == tasks[next]
    <3>1. /\ next \in DOMAIN tasks /\ task \in Task /\ Due(task)
          /\ DOMAIN tasks' = DOMAIN tasks /\ Never \notin Nat
          /\ task.run_count \in Nat /\ task.interval_ms \in Nat
      <4>1. /\ next \in DOMAIN tasks /\ task \in Task /\ Due(task)
            /\ DOMAIN tasks' = DOMAIN tasks
        BY <2>4, RunLeaves
      <4>2. task.run_count \in 0 .. RunCap /\ task.interval_ms \in Nat
        <5> HIDE DEF task
        <5> QED BY <4>1, TaskFields
      <4> QED BY <4>1, <4>2, SchedConstants DEF Never
    <3>2. CountsRuns'
      <4> SUFFICES ASSUME NEW i \in DOMAIN tasks, tasks'[i].run_count = 0
                   PROVE  age'[tasks'[i].name] = Never
        BY <3>1 DEF CountsRuns
      <4>1. i # next
        <5>1. tasks'[next].run_count = IF task.run_count = RunCap
                                       THEN AfterRunCap ELSE task.run_count + 1
          BY <2>4, RunLeaves
        <5> QED BY <3>1, <5>1
      <4>2. tasks'[i] = tasks[i] /\ tasks[i].name # task.name /\ tasks[i] \in Task
        BY <2>4, <3>1, <4>1, RunLeaves DEF HistoryInv, TasksDistinct
      <4>3. tasks[i].name \in 1 .. MaxTasks
        BY <4>2, TaskFields
      <4>4. age[tasks[i].name] = Never
        BY <4>2 DEF CountsRuns
      <4> QED BY <2>4, <4>2, <4>3, <4>4, RunLeaves
    <3>3. ServedInTime'
      <4>1. /\ served'.name = task.name
            /\ served'.lapse = IF age[task.name] = Never THEN Never ELSE Lag(task.name)
        BY <2>4 DEF RunTaskSeen, Lag
      <4>2. CASE age[task.name] = Never
        BY <4>1, <4>2 DEF ServedInTime
      <4>3. CASE age[task.name] # Never
        <5>1. task.run_count # 0
          BY <3>1, <4>3 DEF CountsRuns
        <5>2. Elapsed(tick_ms, task.last_run_ms) >= task.interval_ms
          BY <3>1, <5>1 DEF Due
        <5>3. Elapsed(tick_ms, task.last_run_ms) = Lag(task.name)
          BY <3>1, <4>3 DEF HistoryInv, AgesExact, TaskExact
        <5>4. served'.lapse >= task.interval_ms
          BY <4>1, <4>3, <5>2, <5>3
        <5>5. tasks'[next].name = task.name /\ tasks'[next].interval_ms = task.interval_ms
          BY <2>4, <3>1, RunLeaves
        <5> QED BY <3>1, <4>1, <5>4, <5>5 DEF ServedInTime
      <4> QED BY <4>2, <4>3
    <3> QED BY <3>2, <3>3
  <2>5. CASE SkipTaskSeen
    BY <2>1, <2>5 DEF SkipTaskSeen, SkipTask, schedHistory
  <2>6. CASE UNCHANGED schedAllVars
    BY <2>1, <2>6 DEF schedAllVars, schedVars, schedHistory
  <2> QED BY <2>2, <2>3, <2>4, <2>5, <2>6 DEF SchedHistoryNext
<1> QED BY <1>1, <1>2, HistoryInvariant, PTL DEF SchedHistorySpec

(* No task runs again before its interval has passed, however the clock    *)
(* wraps, as long as the count of its runs does not wrap to 0              *)
(* (core/ecu_scheduler.c:46-51, ecu_scheduler.h:74).                       *)
THEOREM SchedNeverEarly ==
  ASSUME AfterRunCap # 0
  PROVE  SchedHistorySpec => []NeverEarly
<1>1. HistoryInv /\ CountsRuns /\ ServedInTime => NeverEarly
  <2> SUFFICES ASSUME HistoryInv, ServedInTime, served.lapse # Never
               PROVE  served.lapse >= tasks[Named(served.name)].interval_ms
    BY DEF NeverEarly
  <2>1. PICK i \in DOMAIN tasks :
          tasks[i].name = served.name /\ served.lapse >= tasks[i].interval_ms
    BY DEF ServedInTime
  <2>2. /\ Named(served.name) \in DOMAIN tasks
        /\ tasks[Named(served.name)].name = served.name
    BY <2>1 DEF Named
  <2>3. Named(served.name) = i
    BY <2>1, <2>2 DEF HistoryInv, TasksDistinct
  <2> QED BY <2>1, <2>3
<1> QED BY <1>1, HistoryInvariant, ServedInvariant, PTL

-----------------------------------------------------------------------------
(* Loading a configuration.  The parser has read the beginning of a flat   *)
(* object, its stage says what the last tokens were, and the table of      *)
(* entries knows every key mentioned but the one whose value is awaited,   *)
(* with the number after its first mention.                                *)
Token == Marks \cup Names \cup Nums
Entry == [name : Params \cup {Unknown}, num : Numbers]

FirstMention(s, m) ==
  /\ m \in NamesIn(s)
  /\ \A j \in NamesIn(s) : j < m => s[j].name # s[m].name

FirstEntry(o, i) ==
  i \in DOMAIN o /\ \A j \in 1 .. i - 1 : o[j].name # o[i].name

(* The table o holds what s says; the mentions in pend await their values. *)
Matches(s, o, pend) ==
  /\ \A i \in DOMAIN o : FirstEntry(o, i) =>
       \E m \in NamesIn(s) : /\ FirstMention(s, m) /\ s[m].name = o[i].name
                             /\ m + 2 <= Len(s) /\ s[m + 2].num = o[i].num
  /\ \A m \in NamesIn(s) : m \in pend \/ \E i \in DOMAIN o : o[i].name = s[m].name
  /\ Cardinality(NamesIn(s)) = Len(o) + Cardinality(pend)

Awaited ==
  CASE stage = "colon" -> {Len(read)}
    [] stage = "value" -> {Len(read) - 1}
    [] OTHER -> {}

LastKind == read[Len(read)].kind

Stages == {"body", "colon", "value", "comma"}

ReadSoFar ==
  /\ Opens(read) /\ Matches(read, obj, Awaited)
  /\ stage = "body" => LastKind \in {"{", ","}
  /\ stage = "colon" => LastKind = "name"
  /\ stage = "value" => LastKind = ":" /\ Len(read) > 1
  /\ stage = "comma" => LastKind = "num"
  /\ \A m \in Awaited : m \in NamesIn(read) /\ read[m].name = key

ConfigInv ==
  /\ stage \in {"idle", "ok", "failed", "start"} \cup Stages
  /\ key \in Params \cup {Unknown} /\ obj \in Seq(Entry) /\ Len(obj) <= MaxKeys
  /\ read \in Seq(Token)
  /\ stage = "start" => read = <<>> /\ obj = <<>>
  /\ stage # "ok" => cfg = Defaults
  /\ stage \in Stages => ReadSoFar
  /\ LoadedExact

LEMMA TokenFields ==
  ASSUME NEW t \in Token
  PROVE  /\ t.kind \in {"{", "}", ":", ",", "other", "end", "name", "num"}
         /\ t.name \in Params \cup {Unknown}
         /\ t.kind = "num" => t.num \in Numbers
<1>1. CASE t \in Marks
  <2>1. PICK c \in {"{", "}", ":", ",", "other", "end"} : t = Mark(c)
    BY <1>1 DEF Marks
  <2> QED BY <2>1 DEF Mark
<1>2. CASE t \in Names
  <2>1. PICK k \in Params \cup {Unknown} : t = NamedKey(k)
    BY <1>2 DEF Names
  <2> QED BY <2>1 DEF NamedKey
<1>3. CASE t \in Nums
  <2>1. PICK n \in Numbers : t = [kind |-> "num", name |-> Unknown, num |-> n]
    BY <1>3 DEF Nums
  <2> QED BY <2>1
<1> QED BY <1>1, <1>2, <1>3 DEF Token

(* Reading one more token.                                                 *)
LEMMA OneMore ==
  ASSUME NEW s \in Seq(Token), NEW t \in Token
  PROVE  /\ Len(s) \in Nat /\ DOMAIN s = 1 .. Len(s)
         /\ Append(s, t) \in Seq(Token) /\ Len(Append(s, t)) = Len(s) + 1
         /\ DOMAIN Append(s, t) = 1 .. Len(s) + 1
         /\ \A i \in 1 .. Len(s) : Append(s, t)[i] = s[i]
         /\ Append(s, t)[Len(s) + 1] = t
         /\ SubSeq(Append(s, t), 1, Len(s)) = s
<1> DEFINE u == Append(s, t)
           n == Len(s)
<1>1. n \in Nat /\ DOMAIN s = 1 .. n /\ \A i \in 1 .. n : s[i] \in Token
  BY LenProperties
<1>2. u \in Seq(Token) /\ Len(u) = n + 1 /\ u[n + 1] = t /\ \A i \in 1 .. n : u[i] = s[i]
  BY AppendProperties
<1>3. DOMAIN u = 1 .. n + 1
  BY <1>2, LenProperties
<1> HIDE DEF u, n
<1>4. /\ SubSeq(u, 1, n) \in Seq(Token) /\ Len(SubSeq(u, 1, n)) = n
      /\ \A i \in 1 .. n : SubSeq(u, 1, n)[i] = u[i]
  <2>1. \A i \in 1 .. n : u[i] \in Token
    BY <1>1, <1>2
  <2> QED BY <1>1, <2>1, SubSeqProperties
<1>5. SubSeq(u, 1, n) = s
  <2>1. \A i \in 1 .. n : SubSeq(u, 1, n)[i] = s[i]
    BY <1>2, <1>4
  <2> QED BY <1>4, <2>1, SeqEqual DEF n
<1> QED BY <1>1, <1>2, <1>3, <1>5 DEF u, n

LEMMA NamesMore ==
  ASSUME NEW s \in Seq(Token), NEW t \in Token
  PROVE  /\ IsFiniteSet(NamesIn(s)) /\ NamesIn(s) \subseteq 1 .. Len(s)
         /\ Cardinality(NamesIn(s)) \in Nat
         /\ t.kind # "name" => NamesIn(Append(s, t)) = NamesIn(s)
         /\ t.kind = "name" =>
              /\ NamesIn(Append(s, t)) = NamesIn(s) \cup {Len(s) + 1}
              /\ Cardinality(NamesIn(Append(s, t))) = Cardinality(NamesIn(s)) + 1
<1> DEFINE u == Append(s, t)
           n == Len(s)
<1>1. /\ n \in Nat /\ DOMAIN s = 1 .. n /\ DOMAIN u = 1 .. n + 1 /\ u[n + 1] = t
      /\ \A i \in 1 .. n : u[i] = s[i]
  BY OneMore
<1> HIDE DEF u, n
<1>2. NamesIn(s) \subseteq 1 .. n /\ \A i \in NamesIn(s) : i \in 1 .. n
  BY <1>1 DEF NamesIn
<1>3. IsFiniteSet(NamesIn(s)) /\ Cardinality(NamesIn(s)) \in Nat
  <2>1. IsFiniteSet(1 .. n)
    BY <1>1, FS_Interval
  <2>2. IsFiniteSet(NamesIn(s))
    BY <1>2, <2>1, FS_Subset
  <2> QED BY <2>2, FS_CardinalityType
<1>4. 1 .. n + 1 = (1 .. n) \cup {n + 1}
  BY <1>1
<1>5. ASSUME t.kind # "name" PROVE NamesIn(u) = NamesIn(s)
  BY <1>1, <1>4, <1>5 DEF NamesIn
<1>6. ASSUME t.kind = "name" PROVE NamesIn(u) = NamesIn(s) \cup {n + 1}
  BY <1>1, <1>4, <1>6 DEF NamesIn
<1>7. n + 1 \notin NamesIn(s)
  BY <1>1, <1>2
<1>8. ASSUME t.kind = "name" PROVE Cardinality(NamesIn(u)) = Cardinality(NamesIn(s)) + 1
  BY <1>3, <1>6, <1>7, <1>8, FS_AddElement
<1> QED BY <1>2, <1>3, <1>5, <1>6, <1>8 DEF u, n

(* When the beginning of an object goes on as one.                         *)
LEMMA OpensMore ==
  ASSUME NEW s \in Seq(Token), NEW t \in Token, Opens(s)
  PROVE  /\ Len(s) \in Nat \ {0}
         /\ Opens(Append(s, t)) <=>
              /\ <<s[Len(s)].kind, t.kind>> \in Follows
              /\ t.kind = "name" => Cardinality(NamesIn(s)) < MaxKeys
<1> DEFINE u == Append(s, t)
           n == Len(s)
<1>1. /\ n \in Nat /\ Len(u) = n + 1 /\ u[n + 1] = t /\ \A i \in 1 .. n : u[i] = s[i]
  BY OneMore
<1>2. n # 0 /\ s # <<>>
  BY EmptySeq DEF Opens
<1>3. u # <<>>
  BY <1>1
<1>4. MaxKeys \in Nat /\ Cardinality(NamesIn(s)) \in Nat
  BY NamesMore, ConfigAssumption
<1>5. Cardinality(NamesIn(u)) <= MaxKeys <=>
        (t.kind = "name" => Cardinality(NamesIn(s)) < MaxKeys)
  <2>1. CASE t.kind = "name"
    <3>1. Cardinality(NamesIn(u)) = Cardinality(NamesIn(s)) + 1
      BY <2>1, NamesMore
    <3> HIDE DEF u
    <3> QED BY <1>4, <2>1, <3>1
  <2>2. CASE t.kind # "name"
    <3>1. NamesIn(u) = NamesIn(s)
      BY <2>2, NamesMore
    <3> QED BY <2>2, <3>1 DEF Opens
  <2> QED BY <2>1, <2>2
<1> HIDE DEF u, n
<1>6. u[1].kind = "{"
  <2>1. 1 \in 1 .. n
    BY <1>1, <1>2
  <2> QED BY <1>1, <2>1 DEF Opens
<1>7. (\A i \in 2 .. n + 1 : <<u[i - 1].kind, u[i].kind>> \in Follows)
        <=> <<s[n].kind, t.kind>> \in Follows
  <2>1. \A i \in 2 .. n : i \in 1 .. n /\ i - 1 \in 1 .. n
    BY <1>1
  <2>2. \A i \in 2 .. n : <<u[i - 1].kind, u[i].kind>> \in Follows
    BY <1>1, <2>1 DEF Opens, n
  <2>3. 2 .. n + 1 = (2 .. n) \cup {n + 1} /\ (n + 1) - 1 = n /\ n \in 1 .. n
    BY <1>1, <1>2
  <2>4. u[(n + 1) - 1] = s[n] /\ u[n + 1] = t
    BY <1>1, <2>3
  <2> QED BY <2>2, <2>3, <2>4
<1> QED BY <1>1, <1>2, <1>3, <1>5, <1>6, <1>7 DEF Opens, u, n

LEMMA MatchesOther ==
  ASSUME NEW s \in Seq(Token), NEW t \in Token, t.kind # "name",
         NEW o, NEW pend, Matches(s, o, pend)
  PROVE  Matches(Append(s, t), o, pend)
<1> DEFINE u == Append(s, t)
           n == Len(s)
<1>1. /\ n \in Nat /\ Len(u) = n + 1 /\ \A i \in 1 .. n : u[i] = s[i]
  BY OneMore
<1>2. NamesIn(u) = NamesIn(s) /\ NamesIn(s) \subseteq 1 .. n
  BY NamesMore
<1> HIDE DEF u
<1>3. \A m \in NamesIn(s) : m \in 1 .. n /\ u[m] = s[m]
  BY <1>1, <1>2
<1>4. ASSUME NEW m \in NamesIn(s), FirstMention(s, m), m + 2 <= n
      PROVE  FirstMention(u, m) /\ m + 2 <= Len(u) /\ u[m + 2] = s[m + 2]
  <2>1. m + 2 \in 1 .. n
    BY <1>1, <1>3, <1>4
  <2> QED BY <1>1, <1>2, <1>3, <1>4, <2>1 DEF FirstMention
<1>5. ASSUME NEW i \in DOMAIN o, FirstEntry(o, i)
      PROVE  \E m \in NamesIn(u) : /\ FirstMention(u, m) /\ u[m].name = o[i].name
                                   /\ m + 2 <= Len(u) /\ u[m + 2].num = o[i].num
  <2>1. PICK m \in NamesIn(s) : /\ FirstMention(s, m) /\ s[m].name = o[i].name
                                /\ m + 2 <= n /\ s[m + 2].num = o[i].num
    BY <1>5 DEF Matches
  <2> QED BY <1>2, <1>3, <1>4, <2>1
<1>6. ASSUME NEW m \in NamesIn(u)
      PROVE  m \in pend \/ \E i \in DOMAIN o : o[i].name = u[m].name
  BY <1>2, <1>3 DEF Matches
<1>7. Cardinality(NamesIn(u)) = Len(o) + Cardinality(pend)
  BY <1>2 DEF Matches
<1> QED BY <1>5, <1>6, <1>7 DEF Matches, u

LEMMA MatchesName ==
  ASSUME NEW s \in Seq(Token), NEW t \in Token, t.kind = "name",
         NEW o \in Seq(Entry), Matches(s, o, {})
  PROVE  Matches(Append(s, t), o, {Len(s) + 1})
<1> DEFINE u == Append(s, t)
           n == Len(s)
<1>1. /\ n \in Nat /\ Len(u) = n + 1 /\ \A i \in 1 .. n : u[i] = s[i]
  BY OneMore
<1>2. /\ NamesIn(u) = NamesIn(s) \cup {n + 1} /\ NamesIn(s) \subseteq 1 .. n
      /\ Cardinality(NamesIn(u)) = Cardinality(NamesIn(s)) + 1
  BY NamesMore
<1>3. Cardinality(NamesIn(u)) = Len(o) + Cardinality({n + 1})
  <2>1. Len(o) \in Nat
    BY LenProperties
  <2>2. Cardinality({}) = 0 /\ Cardinality({n + 1}) = 1
    BY FS_EmptySet, FS_Singleton
  <2> QED BY <1>2, <2>1, <2>2 DEF Matches
<1> HIDE DEF u, n
<1>4. \A m \in NamesIn(s) : m \in 1 .. n /\ u[m] = s[m]
  BY <1>1, <1>2
<1>5. ASSUME NEW m \in NamesIn(s), FirstMention(s, m), m + 2 <= n
      PROVE  FirstMention(u, m) /\ m + 2 <= Len(u) /\ u[m + 2] = s[m + 2]
  <2>1. m + 2 \in 1 .. n /\ m \in 1 .. n
    BY <1>1, <1>4, <1>5
  <2>2. ~(n + 1 < m)
    BY <1>1, <2>1
  <2> QED BY <1>1, <1>2, <1>4, <1>5, <2>1, <2>2 DEF FirstMention
<1>6. ASSUME NEW i \in DOMAIN o, FirstEntry(o, i)
      PROVE  \E m \in NamesIn(u) : /\ FirstMention(u, m) /\ u[m].name = o[i].name
                                   /\ m + 2 <= Len(u) /\ u[m + 2].num = o[i].num
  <2>1. PICK m \in NamesIn(s) : /\ FirstMention(s, m) /\ s[m].name = o[i].name
                                /\ m + 2 <= n /\ s[m + 2].num = o[i].num
    BY <1>6 DEF Matches, n
  <2> QED BY <1>2, <1>4, <1>5, <2>1
<1>7. ASSUME NEW m \in NamesIn(u)
      PROVE  m \in {n + 1} \/ \E i \in DOMAIN o : o[i].name = u[m].name
  BY <1>2, <1>4, <1>7 DEF Matches
<1> QED BY <1>3, <1>6, <1>7 DEF Matches, u, n

LEMMA MatchesNum ==
  ASSUME NEW s \in Seq(Token), NEW t \in Token, t.kind = "num",
         NEW o \in Seq(Entry), NEW entry \in Entry,
         entry.num = t.num,
         Len(s) - 1 \in NamesIn(s), s[Len(s) - 1].name = entry.name,
         Matches(s, o, {Len(s) - 1})
  PROVE  Matches(Append(s, t), Append(o, entry), {})
<1> DEFINE u == Append(s, t)
           p == Append(o, entry)
           n == Len(s)
           l == Len(o)
<1>1. /\ n \in Nat /\ Len(u) = n + 1 /\ u[n + 1] = t /\ \A i \in 1 .. n : u[i] = s[i]
  BY OneMore
<1>2. NamesIn(u) = NamesIn(s) /\ NamesIn(s) \subseteq 1 .. n
  BY NamesMore
<1>3. l \in Nat /\ DOMAIN o = 1 .. l
  BY LenProperties
<1>4. p \in Seq(Entry) /\ Len(p) = l + 1 /\ p[l + 1] = entry /\ \A i \in 1 .. l : p[i] = o[i]
  BY AppendProperties
<1>5. DOMAIN p = 1 .. l + 1
  BY <1>4, LenProperties
<1>6. Cardinality(NamesIn(u)) = Len(p) + Cardinality({})
  <2>1. Cardinality({}) = 0 /\ Cardinality({n - 1}) = 1
    BY FS_EmptySet, FS_Singleton
  <2> QED BY <1>2, <1>3, <1>4, <2>1 DEF Matches
<1> HIDE DEF u, p, n, l
<1>7. \A m \in NamesIn(s) : m \in 1 .. n /\ u[m] = s[m]
  BY <1>1, <1>2
<1>8. \A m \in NamesIn(s) : FirstMention(s, m) => FirstMention(u, m)
  BY <1>2, <1>7 DEF FirstMention
<1>9. ASSUME NEW i \in 1 .. l, FirstEntry(p, i)
      PROVE  \E m \in NamesIn(u) : /\ FirstMention(u, m) /\ u[m].name = p[i].name
                                   /\ m + 2 <= Len(u) /\ u[m + 2].num = p[i].num
  <2>1. \A j \in 1 .. i - 1 : j \in 1 .. l
    BY <1>3
  <2>2. FirstEntry(o, i)
    BY <1>3, <1>4, <1>9, <2>1 DEF FirstEntry
  <2>3. PICK m \in NamesIn(s) : /\ FirstMention(s, m) /\ s[m].name = o[i].name
                                /\ m + 2 <= n /\ s[m + 2].num = o[i].num
    BY <1>3, <2>2 DEF Matches, n
  <2>4. m + 2 \in 1 .. n
    BY <1>1, <1>7, <2>3
  <2>5. u[m] = s[m] /\ u[m + 2] = s[m + 2] /\ FirstMention(u, m) /\ m \in NamesIn(u)
    BY <1>1, <1>2, <1>7, <1>8, <2>3, <2>4
  <2>6. m + 2 <= Len(u)
    BY <1>1, <2>4
  <2> QED BY <1>4, <2>3, <2>5, <2>6
<1>10. n - 1 \in NamesIn(s) /\ n - 1 \in 1 .. n /\ (n - 1) + 2 = n + 1
       /\ s[n - 1].name = entry.name
  BY <1>1, <1>7 DEF n
<1>11. ASSUME FirstEntry(p, l + 1)
       PROVE  \E m \in NamesIn(u) : /\ FirstMention(u, m) /\ u[m].name = p[l + 1].name
                                    /\ m + 2 <= Len(u) /\ u[m + 2].num = p[l + 1].num
  <2>1. \A i \in 1 .. l : o[i].name # entry.name
    BY <1>3, <1>4, <1>11 DEF FirstEntry
  <2>2. ASSUME NEW m \in NamesIn(s), s[m].name = entry.name PROVE m = n - 1
    BY <1>3, <2>1, <2>2 DEF Matches, n
  <2>3. FirstMention(s, n - 1)
    BY <1>7, <1>10, <2>2 DEF FirstMention
  <2> DEFINE m == n - 1
  <2>4. m \in NamesIn(u) /\ FirstMention(u, m) /\ u[m].name = entry.name
    BY <1>2, <1>7, <1>8, <1>10, <2>3
  <2>5. m + 2 = n + 1 /\ m + 2 <= Len(u)
    BY <1>1, <1>10
  <2>6. u[m + 2].num = entry.num
    BY <1>1, <2>5
  <2> HIDE DEF m
  <2> QED BY <1>4, <2>4, <2>5, <2>6
<1>12. 1 .. l + 1 = (1 .. l) \cup {l + 1}
  BY <1>3
<1>13. ASSUME NEW m \in NamesIn(u)
       PROVE  \E i \in DOMAIN p : p[i].name = u[m].name
  <2>1. m \in NamesIn(s) /\ u[m] = s[m]
    BY <1>2, <1>7
  <2>2. CASE m = n - 1
    BY <1>3, <1>4, <1>5, <1>10, <1>12, <2>1, <2>2
  <2>3. CASE m # n - 1
    <3>1. PICK i \in 1 .. l : o[i].name = s[m].name
      BY <1>3, <2>1, <2>3 DEF Matches, n
    <3> QED BY <1>4, <1>5, <1>12, <2>1, <3>1
  <2> QED BY <2>2, <2>3
<1> QED BY <1>5, <1>6, <1>9, <1>11, <1>12, <1>13 DEF Matches, u, p, n

(* A step of the parser that goes on: what it has read so far begins an    *)
(* object, and what it fails on does not.                                  *)
Continues(t) ==
  /\ <<LastKind, t.kind>> \in Follows
  /\ t.kind = "name" => Len(obj) < MaxKeys

LEMMA ParseFacts ==
  ASSUME ConfigInv, stage \in Stages, NEW t \in Token, Parse(t)
  PROVE  /\ Opens(read') <=> Continues(t)
         /\ read' = Append(read, t) /\ Len(read) \in Nat \ {0}
         /\ Len(read') = Len(read) + 1 /\ read'[Len(read)] = read[Len(read)]
         /\ read'[Len(read) + 1] = t
         /\ Len(read') - 1 = Len(read) /\ Len(read') > 1
         /\ SubSeq(read', 1, Len(read') - 1) = read
         /\ stage \in {"body", "comma"} => Awaited = {} /\ Matches(read, obj, {})
<1>1. read \in Seq(Token) /\ read' = Append(read, t) /\ Opens(read) /\ Matches(read, obj, Awaited)
  BY DEF Parse, ConfigInv, ReadSoFar
<1>2. obj \in Seq(Entry) /\ Len(obj) \in Nat
  BY LenProperties DEF ConfigInv
<1>3. /\ Len(read) \in Nat \ {0}
      /\ Opens(read') <=> /\ <<LastKind, t.kind>> \in Follows
                          /\ t.kind = "name" => Cardinality(NamesIn(read)) < MaxKeys
  BY <1>1, OpensMore DEF LastKind
<1>4. /\ Len(read') = Len(read) + 1 /\ read'[Len(read)] = read[Len(read)]
      /\ read'[Len(read) + 1] = t /\ SubSeq(read', 1, Len(read)) = read
  BY <1>1, <1>3, OneMore
<1>5. Len(read') - 1 = Len(read) /\ Len(read') > 1
  BY <1>3, <1>4
<1>6. stage \in {"body", "comma"} => Awaited = {}
  BY DEF Awaited
<1>7. stage \in {"body", "comma"} => Cardinality(NamesIn(read)) = Len(obj)
  <2>1. Cardinality({}) = 0
    BY FS_EmptySet
  <2>2. Matches(read, obj, {}) => Cardinality(NamesIn(read)) = Len(obj) + Cardinality({})
    BY DEF Matches
  <2>3. Len(obj) + 0 = Len(obj)
    BY <1>2
  <2> QED BY <1>1, <1>6, <2>1, <2>2, <2>3
<1>8. stage \in {"colon", "value"} => ~(<<LastKind, "name">> \in Follows)
  BY DEF ConfigInv, ReadSoFar, Follows, Stages
<1>9. Opens(read') <=> Continues(t)
  BY <1>3, <1>7, <1>8 DEF Continues, Stages
<1> QED BY <1>1, <1>3, <1>4, <1>5, <1>6, <1>9

(* json_get finds the first entry of a name.                               *)
LEMMA FoundFirst ==
  ASSUME obj \in Seq(Entry), NEW k, \E i \in DOMAIN obj : obj[i].name = k
  PROVE  /\ Found(k) \in DOMAIN obj /\ obj[Found(k)].name = k
         /\ FirstEntry(obj, Found(k))
<1> DEFINE at == {i \in DOMAIN obj : obj[i].name = k}
<1>1. DOMAIN obj = 1 .. Len(obj) /\ Len(obj) \in Nat
  BY LenProperties
<1>2. at # {} /\ at \in SUBSET Nat
  BY <1>1
<1>3. PICK i \in at : \A j \in at : i <= j
  BY <1>2, LeastNumber
<1>4. \A j \in at : (\A h \in at : j <= h) => j = i
  BY <1>2, <1>3
<1>5. Found(k) = i
  BY <1>3, <1>4 DEF Found
<1>6. ASSUME NEW j \in 1 .. i - 1 PROVE obj[j].name # obj[i].name
  <2>1. j \in DOMAIN obj /\ ~(i <= j)
    BY <1>1
  <2> QED BY <1>3, <2>1
<1> QED BY <1>3, <1>5, <1>6 DEF FirstEntry

(* Applying the entries gives every parameter the number after its first   *)
(* mention.                                                                *)
LEMMA ApplyExact ==
  ASSUME NEW s \in Seq(Token), obj \in Seq(Entry), Matches(s, obj, {}),
         cfg = Defaults, Apply, NEW k \in Params
  PROVE  cfg'[k] \in IF \E i \in NamesIn(s) : s[i].name = k
                     THEN Converted(k, GivenBy(s, k)) ELSE {Defaults[k]}
<1> DEFINE mentions == {i \in NamesIn(s) : s[i].name = k}
           named == {q \in Params : \E i \in DOMAIN obj : obj[i].name = q}
           new(q) == IF q \in named THEN Converted(q, obj[Found(q)].num) ELSE {cfg[q]}
<1>1. cfg'[k] \in new(k)
  BY DEF Apply
<1>2. NamesIn(s) \in SUBSET Nat
  BY LenProperties DEF NamesIn
<1>3. \A m \in NamesIn(s) : \E i \in DOMAIN obj : obj[i].name = s[m].name
  BY DEF Matches
<1>4. CASE k \in named
  <2> DEFINE i == Found(k)
  <2>1. i \in DOMAIN obj /\ obj[i].name = k /\ FirstEntry(obj, i)
    BY <1>4, FoundFirst
  <2> HIDE DEF i
  <2>5. PICK m \in NamesIn(s) : /\ FirstMention(s, m) /\ s[m].name = k
                                /\ s[m + 2].num = obj[i].num
    BY <2>1 DEF Matches
  <2>6. \A j \in mentions : m <= j
    BY <1>2, <2>5 DEF FirstMention
  <2>7. \A j \in mentions : (\A h \in mentions : j <= h) => j = m
    BY <1>2, <2>5, <2>6
  <2>8. GivenBy(s, k) = obj[i].num
    <3>1. m = CHOOSE j \in mentions : \A h \in mentions : j <= h
      BY <2>5, <2>6, <2>7
    <3> QED BY <2>5, <3>1 DEF GivenBy
  <2> QED BY <1>1, <1>4, <2>5, <2>8 DEF i
<1>5. CASE k \notin named
  <2>1. ~ \E i \in NamesIn(s) : s[i].name = k
    BY <1>3, <1>5
  <2> QED BY <1>1, <1>5, <2>1
<1> QED BY <1>4, <1>5

(* The three ways one token is read in the loop.                           *)
LEMMA ParserFails ==
  ASSUME ConfigInv, stage \in Stages, NEW t \in Token, Parse(t),
         stage' = "failed", cfg' = cfg, obj' = obj, key' \in Params \cup {Unknown},
         ~Continues(t)
  PROVE  ConfigInv'
<1>1. /\ ~Opens(read') /\ Opens(SubSeq(read', 1, Len(read') - 1))
      /\ read' = Append(read, t)
  BY ParseFacts DEF ConfigInv, ReadSoFar
<1>2. read' \in Seq(Token)
  BY <1>1, OneMore DEF ConfigInv
<1>3. cfg = Defaults
  BY DEF ConfigInv, Stages
<1> QED BY <1>1, <1>2, <1>3 DEF ConfigInv, LoadedExact, Stages

LEMMA ParserApplies ==
  ASSUME ConfigInv, stage \in {"body", "comma"}, NEW t \in Token, Parse(t), t.kind = "}",
         Apply, obj' = obj, key' = key
  PROVE  ConfigInv'
<1>1. stage \in Stages /\ cfg = Defaults /\ stage' = "ok"
  BY DEF ConfigInv, Stages, Apply
<1>2. Continues(t)
  BY DEF ConfigInv, ReadSoFar, Continues, Follows, Stages
<1>3. /\ Opens(read') /\ read' = Append(read, t) /\ read'[Len(read')].kind = "}"
      /\ Matches(read, obj, {})
  BY <1>1, <1>2, ParseFacts
<1>4. read' \in Seq(Token) /\ Matches(read', obj, {})
  BY <1>3, OneMore, MatchesOther DEF ConfigInv
<1>5. \A k \in Params :
        cfg'[k] \in IF \E i \in NamesIn(read') : read'[i].name = k
                    THEN Converted(k, GivenBy(read', k)) ELSE {Defaults[k]}
  BY <1>1, <1>4, ApplyExact DEF ConfigInv
<1>6. LoadedExact'
  BY <1>1, <1>3, <1>5 DEF LoadedExact, Accepted, Converted, GivenBy
<1> QED BY <1>1, <1>4, <1>6 DEF ConfigInv, Stages

LEMMA ParserNames ==
  ASSUME ConfigInv, stage \in {"body", "comma"}, NEW t \in Token, Parse(t),
         t.kind = "name", Room, stage' = "colon", cfg' = cfg, obj' = obj, key' = t.name
  PROVE  ConfigInv'
<1>1. stage \in Stages /\ cfg = Defaults /\ t.name \in Params \cup {Unknown}
  BY TokenFields DEF ConfigInv, Stages
<1>2. Continues(t)
  BY DEF ConfigInv, ReadSoFar, Continues, Follows, Stages, Room
<1>3. /\ Opens(read') /\ read' = Append(read, t) /\ Len(read') = Len(read) + 1
      /\ read'[Len(read')] = t /\ Matches(read, obj, {})
  BY <1>1, <1>2, ParseFacts
<1>4. read' \in Seq(Token) /\ Matches(read', obj, {Len(read')})
  BY <1>3, OneMore, MatchesName DEF ConfigInv
<1>5. Awaited' = {Len(read')}
  BY DEF Awaited
<1>6. Len(read') \in NamesIn(read')
  <2>1. Len(read') \in DOMAIN read'
    BY <1>1, <1>3, <1>4, OneMore, ParseFacts DEF ConfigInv
  <2> QED BY <1>3, <2>1 DEF NamesIn
<1>7. ReadSoFar'
  BY <1>3, <1>4, <1>5, <1>6 DEF ReadSoFar, LastKind
<1> QED BY <1>1, <1>4, <1>7 DEF ConfigInv, LoadedExact, Stages

LEMMA ParserSkips ==
  ASSUME ConfigInv, stage \in Stages, NEW t \in Token, Parse(t), Continues(t),
         t.kind \notin {"name", "num", "}"}, cfg' = cfg, obj' = obj, key' = key,
         \/ stage = "comma" /\ t.kind = "," /\ stage' = "body"
         \/ stage = "colon" /\ t.kind = ":" /\ stage' = "value"
  PROVE  ConfigInv'
<1>1. cfg = Defaults
  BY DEF ConfigInv, Stages
<1>2. /\ Opens(read') /\ read' = Append(read, t) /\ Len(read') = Len(read) + 1
      /\ read'[Len(read')] = t /\ Len(read) \in Nat \ {0}
      /\ read'[Len(read)] = read[Len(read)]
  BY ParseFacts
<1>3. Awaited' = Awaited
  <2>1. CASE stage = "comma" /\ stage' = "body"
    BY <2>1 DEF Awaited
  <2>2. CASE stage = "colon" /\ stage' = "value"
    <3>1. Len(read') - 1 = Len(read)
      BY ParseFacts
    <3> QED BY <2>2, <3>1 DEF Awaited
  <2> QED BY <2>1, <2>2
<1>4. read' \in Seq(Token) /\ Matches(read', obj, Awaited') /\ NamesIn(read') = NamesIn(read)
  BY <1>2, <1>3, OneMore, NamesMore, MatchesOther DEF ConfigInv, ReadSoFar
<1>5. \A m \in Awaited' : m \in NamesIn(read') /\ read'[m].name = key
  <2>1. Awaited \subseteq {Len(read)}
    BY DEF Awaited
  <2> QED BY <1>2, <1>3, <1>4, <2>1 DEF ConfigInv, ReadSoFar
<1>6. Len(read') > 1
  BY ParseFacts
<1>7. ReadSoFar'
  BY <1>2, <1>4, <1>5, <1>6 DEF ReadSoFar, LastKind
<1> QED BY <1>1, <1>4, <1>7 DEF ConfigInv, LoadedExact, Stages

LEMMA ParserNumbers ==
  ASSUME ConfigInv, stage = "value", NEW t \in Token, Parse(t), t.kind = "num",
         AddEntry(t.num), stage' = "comma", cfg' = cfg, key' = key
  PROVE  ConfigInv'
<1> DEFINE entry == [name |-> key, num |-> t.num]
<1>1. /\ cfg = Defaults /\ read \in Seq(Token) /\ obj \in Seq(Entry)
      /\ stage \in Stages /\ LastKind = ":"
  BY DEF ConfigInv, ReadSoFar, Stages
<1>2. entry \in Entry /\ obj' = Append(obj, entry)
  BY TokenFields DEF ConfigInv, AddEntry, Entry
<1>3. Continues(t)
  BY <1>1 DEF Continues, Follows
<1>4. /\ Opens(read') /\ read' = Append(read, t) /\ Len(read') = Len(read) + 1
      /\ read'[Len(read')] = t
  BY <1>1, <1>3, ParseFacts
<1>5. Awaited = {Len(read) - 1} /\ Awaited' = {}
  BY DEF Awaited
<1>6. /\ Matches(read, obj, {Len(read) - 1}) /\ Len(read) - 1 \in NamesIn(read)
      /\ read[Len(read) - 1].name = key
  BY <1>1, <1>5 DEF ConfigInv, ReadSoFar
<1>7. entry.num = t.num /\ entry.name = key
  OBVIOUS
<1> HIDE DEF entry
<1>8. Matches(read', obj', {})
  BY <1>1, <1>2, <1>4, <1>6, <1>7, MatchesNum
<1>9. read' \in Seq(Token) /\ obj' \in Seq(Entry) /\ Len(obj') = Len(obj) + 1
  BY <1>1, <1>2, <1>4, OneMore, AppendProperties
<1>10. Len(obj) + 1 <= MaxKeys
  <2>1. Cardinality({Len(read) - 1}) = 1
    BY FS_Singleton
  <2>2. Cardinality(NamesIn(read)) = Len(obj) + 1
    BY <1>6, <2>1 DEF Matches
  <2>3. Opens(read)
    BY <1>1 DEF ConfigInv, ReadSoFar
  <2> QED BY <2>2, <2>3 DEF Opens
<1>11. ReadSoFar'
  BY <1>4, <1>5, <1>8 DEF ReadSoFar, LastKind
<1> QED BY <1>1, <1>9, <1>10, <1>11 DEF ConfigInv, LoadedExact, Stages

(* The token a text begins with.                                           *)
LEMMA FirstToken ==
  ASSUME NEW s \in Seq(Token), Len(s) = 0, NEW t \in Token
  PROVE  /\ Append(s, t) \in Seq(Token) /\ Len(Append(s, t)) = 1 /\ Append(s, t)[1] = t
         /\ Opens(Append(s, t)) <=> t.kind = "{"
         /\ t.kind = "{" => NamesIn(Append(s, t)) = {}
<1> DEFINE u == Append(s, t)
<1>1. u \in Seq(Token) /\ Len(u) = 1 /\ u[1] = t
  <2>1. Len(u) = 0 + 1 /\ u[0 + 1] = t /\ u \in Seq(Token)
    BY OneMore
  <2> QED BY <2>1
<1>2. NamesIn(s) = {}
  <2>1. NamesIn(s) \subseteq 1 .. 0
    BY NamesMore
  <2> QED BY <2>1
<1>3. t.kind = "{" => NamesIn(u) = {}
  BY <1>2, NamesMore
<1> HIDE DEF u
<1>4. u # <<>>
  <2>1. Len(<<>>) = 0
    BY EmptySeq
  <2>2. 0 # 1
    OBVIOUS
  <2> QED BY <1>1, <2>1, <2>2, Zenon
<1>5. t.kind = "{" => Cardinality(NamesIn(u)) <= MaxKeys
  <2>1. Cardinality({}) = 0 /\ 0 <= MaxKeys
    BY FS_EmptySet, ConfigAssumption
  <2> QED BY <1>3, <2>1
<1>6. Opens(u) <=> t.kind = "{"
  <2>1. 2 .. Len(u) = {}
    BY <1>1
  <2> QED BY <1>1, <1>4, <1>5, <2>1, Zenon DEF Opens
<1> QED BY <1>1, <1>3, <1>6 DEF u

LEMMA ParserStarts ==
  ASSUME ConfigInv, stage = "start", NEW t \in Token, Parse(t)
  PROVE  ConfigInv'
<1>1. /\ cfg = Defaults /\ cfg' = cfg /\ obj' = obj /\ key' = key
      /\ read' = Append(read, t) /\ read \in Seq(Token) /\ obj \in Seq(Entry)
      /\ IF t.kind = "{" THEN stage' = "body" ELSE stage' = "failed"
  BY DEF ConfigInv, Parse, Fail, GoOn, Stages
<1>2. Len(read) = 0 /\ Len(obj) = 0
  BY EmptySeq DEF ConfigInv
<1>3. /\ read' \in Seq(Token) /\ Len(read') = 1 /\ read'[1] = t
      /\ Opens(read') <=> t.kind = "{"
      /\ t.kind = "{" => NamesIn(read') = {}
  BY <1>1, <1>2, FirstToken
<1>4. CASE t.kind = "{"
  <2>1. stage' = "body" /\ Awaited' = {} /\ Cardinality({}) = 0
    BY <1>1, <1>4, FS_EmptySet DEF Awaited
  <2>2. DOMAIN obj = {}
    <3>1. DOMAIN obj = 1 .. 0
      BY <1>1, <1>2, LenProperties
    <3> QED BY <3>1
  <2>3. Len(obj) + Cardinality({}) = 0
    BY <1>2, <2>1
  <2>4. Matches(read', obj, {})
    BY <1>3, <1>4, <2>1, <2>2, <2>3 DEF Matches
  <2>5. ReadSoFar'
    BY <1>1, <1>3, <1>4, <2>1, <2>4 DEF ReadSoFar, LastKind
  <2> QED BY <1>1, <1>3, <2>1, <2>5 DEF ConfigInv, LoadedExact, Stages
<1>5. CASE t.kind # "{"
  <2>1. ~(Len(read') > 1)
    <3>1. ~(1 > 1)
      OBVIOUS
    <3> QED BY <1>3, <3>1, Zenon
  <2>2. stage' = "failed" /\ ~Opens(read')
    <3>1. stage' = "failed"
      BY <1>1, <1>5
    <3>2. ~Opens(read')
      BY <1>3, <1>5, Zenon
    <3> QED BY <3>1, <3>2
  <2>3. LoadedExact'
    BY <1>1, <2>1, <2>2 DEF LoadedExact
  <2> QED BY <1>1, <1>3, <2>2, <2>3 DEF ConfigInv, Stages
<1> QED BY <1>4, <1>5

LEMMA ParserBody ==
  ASSUME ConfigInv, stage \in {"body", "comma"}, NEW t \in Token, Parse(t), Body(t),
         t.kind = "," => stage = "body"
  PROVE  ConfigInv'
<1>1. stage \in Stages /\ obj' = obj /\ key \in Params \cup {Unknown}
  BY DEF Stages, Body, ConfigInv
<1>2. CASE t.kind = "}"
  BY <1>2, ParserApplies DEF Body
<1>3. CASE t.kind = "name" /\ Room
  BY <1>3, ParserNames DEF Body, GoOn
<1>4. CASE t.kind # "}" /\ ~(t.kind = "name" /\ Room)
  <2>1. /\ stage' = "failed" /\ cfg' = cfg /\ key' \in Params \cup {Unknown}
    BY <1>1, <1>4, TokenFields DEF Body, Fail
  <2>2. ~Continues(t)
    BY <1>1, <1>4 DEF Continues, Follows, Room, ConfigInv, ReadSoFar
  <2> QED BY <1>1, <2>1, <2>2, ParserFails
<1> QED BY <1>2, <1>3, <1>4

LEMMA ConfigInvStep == ConfigInv /\ [ConfigNext]_configVars => ConfigInv'
<1> SUFFICES ASSUME ConfigInv, [ConfigNext]_configVars PROVE ConfigInv'
  OBVIOUS
<1>1. CASE LoadStr
  <2>1. obj' \in Seq(Entry) /\ read' \in Seq(Token) /\ Len(obj') = 0 /\ MaxKeys \in Nat
    BY <1>1, EmptySeq, ConfigAssumption DEF LoadStr
  <2> QED BY <1>1, <2>1 DEF LoadStr, Start, ConfigInv, LoadedExact, Stages
<1>2. CASE LoadFileFails
  <2>1. /\ obj' \in Seq(Entry) /\ read' \in Seq(Token) /\ Len(obj') = 0 /\ MaxKeys \in Nat
        /\ Len(read') = 0 /\ ~Opens(read')
    BY <1>2, EmptySeq, ConfigAssumption DEF LoadFileFails, Opens
  <2> QED BY <1>2, <2>1 DEF LoadFileFails, Start, ConfigInv, LoadedExact, Stages
<1>3. ASSUME NEW t \in Token, Parse(t) PROVE ConfigInv'
  <2>1. stage = "start" \/ stage \in Stages
    BY <1>3 DEF Parse, Idle, ConfigInv
  <2>2. CASE stage = "start"
    BY <1>3, <2>2, ParserStarts
  <2>3. CASE stage = "body"
    <3>1. Body(t)
      BY <1>3, <2>3 DEF Parse
    <3> QED BY <1>3, <2>3, <3>1, ParserBody
  <2>4. CASE stage = "colon"
    <3>1. /\ IF t.kind = ":" THEN GoOn("value") ELSE Fail
          /\ UNCHANGED <<key, obj>>
      BY <1>3, <2>4 DEF Parse
    <3>2. Continues(t) <=> t.kind = ":"
      BY <2>4 DEF Continues, Follows, ConfigInv, ReadSoFar, Stages
    <3>3. CASE t.kind = ":"
      BY <1>3, <2>1, <2>4, <3>1, <3>2, <3>3, ParserSkips DEF GoOn
    <3>4. CASE t.kind # ":"
      BY <1>3, <2>1, <2>4, <3>1, <3>2, <3>4, ParserFails DEF Fail, ConfigInv
    <3> QED BY <3>3, <3>4
  <2>5. CASE stage = "value"
    <3>1. CASE t.kind = "num"
      <4>1. AddEntry(t.num) /\ GoOn("comma") /\ UNCHANGED key
        BY <1>3, <2>5, <3>1 DEF Parse
      <4> QED BY <1>3, <2>5, <3>1, <4>1, ParserNumbers DEF GoOn
    <3>2. CASE t.kind # "num"
      <4>1. Fail /\ UNCHANGED <<key, obj>>
        BY <1>3, <2>5, <3>2 DEF Parse
      <4>2. ~Continues(t)
        BY <2>5, <3>2 DEF Continues, Follows, ConfigInv, ReadSoFar, Stages
      <4> QED BY <1>3, <2>1, <2>5, <4>1, <4>2, ParserFails DEF Fail, ConfigInv
    <3> QED BY <3>1, <3>2
  <2>6. CASE stage = "comma"
    <3>1. CASE t.kind = ","
      <4>1. GoOn("body") /\ UNCHANGED <<key, obj>>
        BY <1>3, <2>6, <3>1 DEF Parse
      <4>2. Continues(t)
        BY <2>6, <3>1 DEF Continues, Follows, ConfigInv, ReadSoFar, Stages
      <4> QED BY <1>3, <2>1, <2>6, <3>1, <4>1, <4>2, ParserSkips DEF GoOn
    <3>2. CASE t.kind # ","
      <4>1. Body(t)
        BY <1>3, <2>6, <3>2 DEF Parse
      <4> QED BY <1>3, <2>6, <3>2, <4>1, ParserBody
    <3> QED BY <3>1, <3>2
  <2> QED BY <2>1, <2>2, <2>3, <2>4, <2>5, <2>6 DEF Stages
<1>4. CASE UNCHANGED configVars
  <2>1. ReadSoFar' <=> ReadSoFar
    BY <1>4 DEF configVars, ReadSoFar, Awaited, LastKind
  <2> QED BY <1>4, <2>1 DEF configVars, ConfigInv, LoadedExact
<1> QED BY <1>1, <1>2, <1>3, <1>4 DEF ConfigNext, Token

LEMMA ConfigInvariant == ConfigSpec => []ConfigInv
<1>1. ConfigInit => ConfigInv
  <2> SUFFICES ASSUME ConfigInit PROVE ConfigInv
    OBVIOUS
  <2>1. obj \in Seq(Entry) /\ read \in Seq(Token) /\ Len(obj) = 0 /\ MaxKeys \in Nat
    BY EmptySeq, ConfigAssumption DEF ConfigInit
  <2> QED BY <2>1 DEF ConfigInit, ConfigInv, LoadedExact, Stages
<1> QED BY <1>1, ConfigInvStep, PTL DEF ConfigSpec

(* A load accepts exactly the flat objects that fit, and takes each        *)
(* parameter's first number or its default; a failed one leaves the        *)
(* defaults (core/ecu_config_load.c, core/ecu_json.c).                     *)
THEOREM ConfigLoadedExact == ConfigSpec => []LoadedExact
<1>1. ConfigInv => LoadedExact
  BY DEF ConfigInv
<1> QED BY <1>1, ConfigInvariant, PTL

(* The variables keep their types: every duration fits its counter, and    *)
(* the table of entries never overflows.                                   *)
THEOREM ConfigTypeCorrect == ConfigSpec => []ConfigTypeOK
<1> DEFINE Typed(c) == /\ c \in [Params -> Int]
                       /\ \A k \in Durations : c[k] \in 0 .. MaxDuration
<1>1. Typed(Defaults)
  BY ConfigAssumption
<1>2. ConfigInit => Typed(cfg)
  BY <1>1 DEF ConfigInit
<1>3. ConfigInv /\ Typed(cfg) /\ [ConfigNext]_configVars => Typed(cfg)'
  <2> SUFFICES ASSUME ConfigInv, Typed(cfg), [ConfigNext]_configVars PROVE Typed(cfg')
    OBVIOUS
  <2>1. cfg' = cfg \/ cfg' = Defaults \/ Apply
    BY DEF ConfigNext, configVars, LoadStr, LoadFileFails, Start, Parse, Body, Fail, GoOn
  <2>2. CASE Apply
    <3> DEFINE named == {q \in Params : \E i \in DOMAIN obj : obj[i].name = q}
               new(q) == IF q \in named THEN Converted(q, obj[Found(q)].num) ELSE {cfg[q]}
    <3>1. PICK v \in [Params -> UNION {new(k) : k \in Params}] :
            (\A k \in Params : v[k] \in new(k)) /\ cfg' = v
      BY <2>2 DEF Apply
    <3>2. ASSUME NEW k \in Params
          PROVE  /\ v[k] \in Int
                 /\ k \in Durations => v[k] \in 0 .. MaxDuration
      <4>1. CASE k \in named
        <5>1. obj[Found(k)].num \in Int
          <6>1. obj \in Seq(Entry) /\ Found(k) \in DOMAIN obj
            BY <4>1, FoundFirst DEF ConfigInv
          <6>2. obj[Found(k)] \in Entry
            BY <6>1, LenProperties
          <6> QED BY <6>2, ConfigAssumption DEF Entry
        <5>2. v[k] \in Converted(k, obj[Found(k)].num)
          BY <3>1, <4>1
        <5> QED BY <5>1, <5>2, ConfigAssumption DEF Converted
      <4>2. CASE k \notin named
        <5>1. v[k] = cfg[k]
          BY <3>1, <4>2
        <5> QED BY <5>1
      <4> QED BY <4>1, <4>2
    <3>3. DOMAIN v = Params /\ v = [k \in Params |-> v[k]]
      BY <3>1
    <3>4. v \in [Params -> Int]
      BY <3>2, <3>3
    <3> QED BY <3>1, <3>2, <3>4, ConfigAssumption
  <2> QED BY <1>1, <2>1, <2>2
<1>4. ConfigInv /\ Typed(cfg) => ConfigTypeOK
  BY DEF ConfigInv, ConfigTypeOK, Entry, Stages
<1> QED BY <1>2, <1>3, <1>4, ConfigInvariant, PTL DEF ConfigSpec

-----------------------------------------------------------------------------
(* Replaying a recording.                                                  *)

Rows == RowsAfter(file, 1)

(* current is the row c, next the row after it, at line pos; current is    *)
(* not later than the request unless it is the first row; the last answer  *)
(* came from these two rows.                                               *)
Cursor(c) ==
  /\ c \in Rows /\ cur = file[c]
  /\ hasNext => /\ pos \in Rows /\ c < pos /\ nxt = file[pos]
                /\ \A i \in Rows : i <= c \/ pos <= i
  /\ ~hasNext => \A i \in Rows : i <= c
  /\ file[c].time <= asked \/ \A i \in Rows : c <= i
  /\ Answered =>
       /\ given = IF hasNext THEN OnLine(cur, nxt, asked) ELSE [num |-> cur.val, den |-> 1]
       /\ hasNext => ~(nxt.time <= asked)

ReplayInv ==
  /\ asked \in Nat
  /\ file # <<>> => file \in Files /\ \E c \in Nat : Cursor(c)

LEMMA RowFacts ==
  ASSUME NEW f \in Files
  PROVE  /\ RowsAfter(f, 1) \in SUBSET Nat
         /\ \A i \in RowsAfter(f, 1) : f[i].time \in Nat
         /\ \A p \in RowsAfter(f, 1) : RowsAfter(f, p) = {i \in RowsAfter(f, 1) : p < i}
<1> DEFINE Row == [time : Nat, val : Nat \cup {-1}]
<1>1. f \in Seq(Row)
  BY ReplayAssumption
<1>2. Len(f) \in Nat /\ \A i \in 1 .. Len(f) : f[i].time \in Nat
  <2>1. \A r \in Row : r.time \in Nat
    OBVIOUS
  <2> HIDE DEF Row
  <2> QED BY <1>1, <2>1
<1>3. RowsAfter(f, 1) \subseteq 1 .. Len(f)
  BY <1>2 DEF RowsAfter
<1>4. ASSUME NEW p \in RowsAfter(f, 1)
      PROVE  RowsAfter(f, p) = {i \in RowsAfter(f, 1) : p < i}
  BY <1>2, <1>3 DEF RowsAfter
<1>5. \A i \in RowsAfter(f, 1) : i \in 1 .. Len(f)
  BY <1>3
<1> QED BY <1>2, <1>4, <1>5

LEMMA FirstRow ==
  ASSUME NEW rows \in SUBSET Nat, rows # {}
  PROVE  First(rows) \in rows /\ \A j \in rows : First(rows) <= j
BY LeastNumber DEF First

(* Reading on from the row p: it is the new current row.                   *)
LEMMA CursorReads ==
  ASSUME NEW f \in Files, NEW p \in RowsAfter(f, 1), NEW old,
         file' = f, cur' = f[p], ReadNext(f, p, old), asked' \in Nat,
         f[p].time <= asked' \/ \A i \in RowsAfter(f, 1) : p <= i,
         ~Answered'
  PROVE  Cursor(p)'
<1> DEFINE rows == RowsAfter(f, 1)
           rest == {i \in rows : p < i}
<1>1. RowsAfter(f, p) = rest /\ rows \in SUBSET Nat /\ rest \in SUBSET Nat
  BY RowFacts
<1>2. rest # {} => First(rest) \in rest /\ \A j \in rest : First(rest) <= j
  BY <1>1, FirstRow
<1>3. /\ hasNext' <=> rest # {}
      /\ rest # {} => nxt' = f[First(rest)] /\ pos' = First(rest)
  BY <1>1 DEF ReadNext
<1>4. Rows' = rows
  BY DEF Rows
<1>5. \A i \in rows : i <= p \/ i \in rest
  BY <1>1
<1> HIDE DEF rows
<1> QED BY <1>1, <1>2, <1>3, <1>4, <1>5 DEF Cursor, rows

LEMMA ReplayInvStep == ReplayInv /\ [ReplayNext]_replayVars => ReplayInv'
<1> SUFFICES ASSUME ReplayInv, [ReplayNext]_replayVars PROVE ReplayInv'
  OBVIOUS
<1>1. ASSUME NEW f \in Files, Open(f) PROVE ReplayInv'
  <2> DEFINE rows == RowsAfter(f, 1)
             one == First(rows)
  <2>1. one \in rows /\ \A j \in rows : one <= j
    BY <1>1, RowFacts, FirstRow DEF Open
  <2>2. one \in Nat
    BY <2>1, RowFacts
  <2>3. /\ file' = f /\ cur' = f[one] /\ ReadNext(f, one, f[one])
        /\ asked' = 0 /\ given' = Nothing
    BY <1>1 DEF Open
  <2>4. ~Answered'
    BY <2>3 DEF Answered
  <2> HIDE DEF one
  <2>5. Cursor(one)'
    BY <2>1, <2>3, <2>4, CursorReads
  <2> QED BY <2>2, <2>3, <2>5 DEF ReplayInv
<1>2. ASSUME NEW d \in Steps, Get(asked + d) PROVE ReplayInv'
  <2>1. PICK c \in Nat : Cursor(c)
    BY <1>2 DEF Get, ReplayInv
  <2>2. file \in Files /\ asked \in Nat /\ asked' \in Nat /\ asked <= asked'
    BY <1>2, ReplayAssumption DEF Get, ReplayInv
  <2>3. c \in Rows /\ file[c].time \in Nat
    BY <2>1, <2>2, RowFacts DEF Cursor, Rows
  <2>4. file[c].time <= asked' \/ \A i \in Rows : c <= i
    BY <2>1, <2>2, <2>3 DEF Cursor
  <2>5. Rows' = Rows /\ ~Answered' /\ UNCHANGED <<file, pos, cur, nxt, hasNext>>
    BY <1>2 DEF Rows, Answered, Get
  <2>6. Cursor(c)'
    BY <2>1, <2>4, <2>5 DEF Cursor
  <2> QED BY <2>1, <2>2, <2>5, <2>6 DEF ReplayInv
<1>3. CASE ReadOn
  <2>1. /\ busy /\ hasNext /\ nxt.time <= asked /\ cur' = nxt
        /\ ReadNext(file, pos, nxt) /\ UNCHANGED <<file, asked, busy, given>>
    BY <1>3 DEF ReadOn, Past, Take
  <2>2. CASE file # <<>>
    <3>1. PICK c \in Nat : Cursor(c)
      BY <2>2 DEF ReplayInv
    <3>2. file \in Files /\ pos \in Rows /\ nxt = file[pos] /\ asked \in Nat
      BY <2>1, <2>2, <3>1 DEF Cursor, ReplayInv
    <3>3. ~Answered'
      BY <2>1 DEF Answered
    <3>4. pos \in Nat
      BY <3>2, RowFacts DEF Rows
    <3> DEFINE p == pos
    <3>5. p \in RowsAfter(file, 1) /\ cur' = file[p] /\ file[p].time <= asked'
      BY <2>1, <3>2 DEF Rows
    <3>6. ReadNext(file, p, nxt) /\ file' = file /\ asked' \in Nat
      BY <2>1, <3>2
    <3> QED BY <2>1, <3>2, <3>3, <3>4, <3>5, <3>6, CursorReads DEF ReplayInv
  <2>3. CASE file = <<>>
    BY <2>1, <2>3 DEF ReplayInv
  <2> QED BY <2>2, <2>3
<1>4. CASE Answer
  <2>1. /\ ~Past /\ busy /\ UNCHANGED <<file, pos, cur, nxt, hasNext, asked>>
        /\ given' = IF hasNext THEN OnLine(cur, nxt, asked) ELSE [num |-> cur.val, den |-> 1]
    BY <1>4 DEF Answer
  <2>2. CASE file # <<>>
    <3>1. PICK c \in Nat : Cursor(c)
      BY <2>2 DEF ReplayInv
    <3>2. hasNext => ~(nxt.time <= asked)
      BY <2>1 DEF Past
    <3>3. OnLine(cur, nxt, asked)' = OnLine(cur, nxt, asked) /\ Rows' = Rows
      BY <2>1 DEF OnLine, Rows
    <3>4. Cursor(c)'
      BY <2>1, <3>1, <3>2, <3>3 DEF Cursor
    <3> QED BY <2>1, <3>1, <3>4 DEF ReplayInv
  <2>3. CASE file = <<>>
    BY <2>1, <2>3 DEF ReplayInv
  <2> QED BY <2>2, <2>3
<1>5. CASE Close
  BY <1>5 DEF Close, ReplayInv
<1>6. CASE UNCHANGED replayVars
  <2>1. \A c : Cursor(c)' <=> Cursor(c)
    BY <1>6 DEF replayVars, Cursor, Rows, Answered, OnLine
  <2> QED BY <1>6, <2>1 DEF replayVars, ReplayInv
<1> QED BY <1>1, <1>2, <1>3, <1>4, <1>5, <1>6 DEF ReplayNext

(* Every answer is the one the whole recording gives.                      *)
THEOREM ReplayAnswersExact == ReplaySpec => []ReplayExact
<1>1. ReplayInit => ReplayInv
  BY DEF ReplayInit, ReplayInv
<1>2. ReplayInv => ReplayExact
  <2> DEFINE rows == RowsAfter(file, 1)
             past == {i \in rows : file[i].time <= asked}
             now == CHOOSE i \in past : \A j \in past : j <= i
             rest == {i \in rows : i > now}
  <2> SUFFICES ASSUME ReplayInv, Answered, past # {},
                      \A i, j \in rows : i < j => file[i].time <= file[j].time
               PROVE  given = IF rest = {} THEN [num |-> file[now].val, den |-> 1]
                              ELSE OnLine(file[now], file[First(rest)], asked)
    BY DEF ReplayExact
  <2>1. PICK c \in Nat : Cursor(c)
    BY DEF ReplayInv, Answered
  <2>2. file \in Files /\ asked \in Nat
    BY DEF ReplayInv, Answered
  <2>3. rows \in SUBSET Nat /\ \A i \in rows : i \in Nat /\ file[i].time \in Nat
    BY <2>2, RowFacts
  <2>4. Rows = rows
    BY DEF Rows
  <2>5. c \in past
    <3>1. PICK i \in past : TRUE
      OBVIOUS
    <3>2. \/ file[c].time <= asked
          \/ c = i
          \/ c < i
      BY <2>1, <2>3, <2>4, <3>1 DEF Cursor
    <3>3. c \in rows
      BY <2>1, <2>4 DEF Cursor
    <3> QED BY <2>2, <2>3, <3>1, <3>2, <3>3
  <2>6. ASSUME NEW j \in past PROVE j <= c
    <3> SUFFICES ASSUME ~(j <= c) PROVE FALSE
      OBVIOUS
    <3>1. j \in rows /\ j \in Nat /\ file[j].time <= asked /\ c < j
      BY <2>3
    <3>2. hasNext /\ pos \in rows /\ pos <= j /\ ~(file[pos].time <= asked)
      BY <2>1, <2>4, <3>1 DEF Cursor
    <3>3. pos = j \/ pos < j
      BY <2>3, <3>1, <3>2
    <3>4. file[pos].time <= file[j].time
      BY <2>3, <3>1, <3>2, <3>3
    <3> QED BY <2>2, <2>3, <3>1, <3>2, <3>4
  <2>7. now = c
    <3>1. \A i \in past : (\A j \in past : j <= i) => i = c
      BY <2>3, <2>5, <2>6
    <3> QED BY <2>5, <2>6, <3>1
  <2>8. rest \in SUBSET Nat
    BY <2>3
  <2> HIDE DEF now
  <2>9. CASE hasNext
    <3>1. pos \in rest /\ \A j \in rest : pos <= j
      BY <2>1, <2>3, <2>4, <2>7, <2>9 DEF Cursor
    <3> HIDE DEF rest
    <3>2. First(rest) \in rest /\ First(rest) <= pos /\ pos <= First(rest)
      BY <2>8, <3>1, FirstRow
    <3>3. First(rest) \in Nat /\ pos \in Nat
      BY <2>8, <3>1, <3>2
    <3>4. First(rest) = pos
      BY <3>2, <3>3
    <3> QED BY <2>1, <2>7, <2>9, <3>1, <3>4 DEF Cursor
  <2>10. CASE ~hasNext
    <3>1. rest = {}
      BY <2>1, <2>3, <2>4, <2>7, <2>10 DEF Cursor
    <3> QED BY <2>1, <2>7, <2>10, <3>1 DEF Cursor
  <2> QED BY <2>9, <2>10
<1> QED BY <1>1, <1>2, ReplayInvStep, PTL DEF ReplaySpec

-----------------------------------------------------------------------------
(* The parts side by side.                                                 *)

(* Each part, among the others, behaves as it does alone.                  *)
LEMMA PartsApart ==
  PlatformSpec => SchedHistorySpec /\ ConfigSpec /\ NvramSpec /\ FirmSpec
<1> DEFINE all == <<unit, schedAllVars, configVars, mapVars, replayVars, nvramVars, firmVars>>
<1>1. PlatformInit => SchedHistoryInit /\ ConfigInit /\ NvramInit /\ FirmInit
  BY DEF PlatformInit
<1>2. [PlatformNext]_all => [SchedHistoryNext]_schedAllVars
  BY DEF PlatformNext
<1>3. [PlatformNext]_all => [ConfigNext]_configVars
  BY DEF PlatformNext
<1>4. [PlatformNext]_all => [NvramNext]_nvramVars
  BY DEF PlatformNext
<1>5. [PlatformNext]_all => [FirmNext]_firmVars
  BY DEF PlatformNext
<1> QED BY <1>1, <1>2, <1>3, <1>4, <1>5, PTL
        DEF PlatformSpec, SchedHistorySpec, ConfigSpec, NvramSpec, FirmSpec

(* The types of all the parts around the core, for every constant.         *)
THEOREM PlatformTypeCorrect == PlatformSpec => []PlatformTypeOK
<1>1. HistoryInv => SchedTypeOK
  BY DEF HistoryInv, SchedInv
<1>2. SchedTypeOK /\ ConfigTypeOK /\ NvramTypeOK /\ FirmTypeOK => PlatformTypeOK
  BY DEF PlatformTypeOK
<1> QED BY <1>1, <1>2, PartsApart, HistoryInvariant, ConfigTypeCorrect, NvramTypeCorrect,
           FirmTypeCorrect, PTL
=============================================================================
