---------------------------- MODULE EcuScheduler ----------------------------
(***************************************************************************)
(* The cooperative scheduler (core/ecu_scheduler.c, wrapped one to one by  *)
(* cpp/jetecu/Scheduler.cpp): a table of periodic tasks kept in the order  *)
(* of their priorities; every tick walks the table and runs those that are *)
(* due.  Tasks take time, so the clock moves while a tick is in progress,  *)
(* and the model takes one step per entry of the table.                    *)
(***************************************************************************)
EXTENDS EcuTime, Sequences

CONSTANTS
  TaskKinds,   \* the [priority, interval_ms] modules register
  MaxTasks,    \* SCHED_MAX_TASKS
  RunCap,      \* greatest run_count the model distinguishes
  AfterRunCap, \* what run_count++ yields at RunCap
  Costs,       \* ms a task may take
  Gaps         \* ms that may pass from the end of a tick to the next one

(* AfterRunCap = RunCap identifies large counts; RunCap = 2^32 - 1 with    *)
(* AfterRunCap = 0 is the uint32_t of the code.                            *)
ASSUME SchedulerAssumption ==
  /\ TaskKinds \subseteq [priority : 0 .. 3, interval_ms : Nat \ {0}]
  /\ MaxTasks \in Nat
  /\ RunCap \in Nat \ {0} /\ AfterRunCap \in 0 .. RunCap
  /\ Costs \subseteq Nat /\ Gaps \subseteq Nat

(* sched_task_t; the name is the number of the registration.               *)
Task ==
  [name : 1 .. MaxTasks, priority : 0 .. 3, interval_ms : Nat \ {0},
   last_run_ms : Time, worst_case_us : Nat, run_count : 0 .. RunCap,
   overrun : BOOLEAN]

NewTask(kind, name) ==
  [name |-> name, priority |-> kind.priority, interval_ms |-> kind.interval_ms,
   last_run_ms |-> 0, worst_case_us |-> 0, run_count |-> 0, overrun |-> FALSE]

VARIABLES
  tasks,     \* the first task_count entries of the table
  tick_ms,   \* now_ms of the present or the last tick
  next,      \* the entry the present tick considers next, 0 between ticks
  clock      \* the millisecond timer of the platform

schedVars == <<tasks, tick_ms, next, clock>>

SchedInit == tasks = <<>> /\ tick_ms = 0 /\ next = 0 /\ clock = 0

-----------------------------------------------------------------------------
(* The operators named ...Faulty are plausible mistakes in what follows    *)
(* them: no sort, a table that is never full, a comparison off by one, a   *)
(* timestamp that is not taken.  No specification uses them.               *)
PositionFaulty(p, kind) == p = Len(tasks) + 1

(* Where the sort moves a task appended to a sorted table: behind those of *)
(* the same or a higher priority (a lower number).                         *)
Position(p, kind) ==
  /\ p \in 1 .. Len(tasks) + 1
  /\ \A i \in 1 .. p - 1 : tasks[i].priority <= kind.priority
  /\ \A i \in p .. Len(tasks) : tasks[i].priority > kind.priority

InsertTask(p, task) ==
  tasks' = [i \in 1 .. Len(tasks) + 1 |->
              IF i < p THEN tasks[i] ELSE IF i = p THEN task ELSE tasks[i - 1]]

AddFaulty(kind) ==
  /\ next = 0
  /\ \E p \in 1 .. Len(tasks) + 1 :
       Position(p, kind) /\ InsertTask(p, NewTask(kind, Len(tasks) + 1))
  /\ UNCHANGED <<tick_ms, next, clock>>

(* ecu_sched_add, called between ticks.                                    *)
Add(kind) ==
  /\ next = 0
  /\ \/ Len(tasks) >= MaxTasks /\ UNCHANGED tasks
     \/ /\ Len(tasks) < MaxTasks
        /\ \E p \in 1 .. Len(tasks) + 1 :
             Position(p, kind) /\ InsertTask(p, NewTask(kind, Len(tasks) + 1))
  /\ UNCHANGED <<tick_ms, next, clock>>

(* ecu_sched_tick(now_ms) begins, gap ms after the last one ended.         *)
Tick(gap) ==
  /\ next = 0
  /\ clock' = After(clock, gap)
  /\ tick_ms' = clock'
  /\ next' = IF tasks = <<>> THEN 0 ELSE 1
  /\ UNCHANGED tasks

DueFaulty(task) ==
  task.run_count = 0 \/ Elapsed(tick_ms, task.last_run_ms) > task.interval_ms

Due(task) ==
  task.run_count = 0 \/ Elapsed(tick_ms, task.last_run_ms) >= task.interval_ms

(* Both ends of the measured interval are the now_ms of the tick.          *)
DurationUs == Elapsed(tick_ms, tick_ms) * 1000

AccountFaulty(task) ==
  [task EXCEPT !.run_count = IF @ = RunCap THEN AfterRunCap ELSE @ + 1]

(* What a run leaves in its entry.                                         *)
Account(task) ==
  [task EXCEPT
     !.worst_case_us = IF DurationUs > @ THEN DurationUs ELSE @,
     !.overrun       = @ \/ DurationUs > task.interval_ms * 1000,
     !.last_run_ms   = tick_ms,
     !.run_count     = IF @ = RunCap THEN AfterRunCap ELSE @ + 1]

Advance == next' = IF next = Len(tasks) THEN 0 ELSE next + 1

RunTask(cost) ==
  /\ next # 0 /\ Due(tasks[next])
  /\ tasks' = [tasks EXCEPT ![next] = Account(@)]
  /\ clock' = After(clock, cost)
  /\ Advance
  /\ UNCHANGED tick_ms

SkipTask ==
  /\ next # 0 /\ ~Due(tasks[next])
  /\ Advance
  /\ UNCHANGED <<tasks, tick_ms, clock>>

SchedNext ==
  \/ \E kind \in TaskKinds : Add(kind)
  \/ \E gap \in Gaps : Tick(gap)
  \/ \E cost \in Costs : RunTask(cost)
  \/ SkipTask

SchedSpec == SchedInit /\ [][SchedNext]_schedVars

-----------------------------------------------------------------------------
(* Properties.                                                             *)

SchedTypeOK ==
  /\ tasks \in Seq(Task) /\ Len(tasks) <= MaxTasks
  /\ tick_ms \in Time /\ clock \in Time
  /\ next \in 0 .. Len(tasks)

(* Whatever the order of registration, the loop of a tick meets the tasks  *)
(* in the order of their priorities, and those of one priority in the      *)
(* order in which they were registered.                                    *)
PriorityOrder ==
  \A i, j \in DOMAIN tasks : i < j =>
    \/ tasks[i].priority < tasks[j].priority
    \/ tasks[i].priority = tasks[j].priority /\ tasks[i].name < tasks[j].name
=============================================================================
