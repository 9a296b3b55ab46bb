------------------------ MODULE EcuSchedulerHistory ------------------------
(***************************************************************************)
(* EcuScheduler with a record of when its tasks really ran.  The variables *)
(* below have no counterpart in the code; the properties compare them with *)
(* the wrapping timestamps the scheduler decides by.                       *)
(***************************************************************************)
EXTENDS EcuScheduler

Never == -1

VARIABLES
  age,       \* for each task, ms since the tick of its last run, or Never
  spent,     \* ms since the last tick began
  served     \* the task that ran last, and ms since its run before

schedHistory == <<age, spent, served>>
schedAllVars == <<schedVars, schedHistory>>

(* No timestamp is compared over more than the period of the clock.        *)
ASSUME PeriodAssumption ==
  \A kind \in TaskKinds, gap \in Gaps, cost \in Costs :
    kind.interval_ms + gap + MaxTasks * cost < TimeMod

SchedHistoryInit ==
  /\ SchedInit
  /\ age = [name \in 1 .. MaxTasks |-> Never]
  /\ spent = 0
  /\ served = [name |-> 0, lapse |-> Never]

Older(ms) == [name \in 1 .. MaxTasks |->
                IF age[name] = Never THEN Never ELSE age[name] + ms]

AddSeen(kind) ==
  Add(kind) /\ UNCHANGED schedHistory

TickSeen(gap) ==
  /\ Tick(gap)
  /\ age' = Older(gap)
  /\ spent' = 0
  /\ UNCHANGED served

RunTaskSeen(cost) ==
  LET name == tasks[next].name
  IN /\ RunTask(cost)
     /\ served' = [name |-> name,
                   lapse |-> IF age[name] = Never THEN Never ELSE age[name] - spent]
     /\ age' = [Older(cost) EXCEPT ![name] = spent + cost]
     /\ spent' = spent + cost

SkipTaskSeen == SkipTask /\ UNCHANGED schedHistory

SchedHistoryNext ==
  \/ \E kind \in TaskKinds : AddSeen(kind)
  \/ \E gap \in Gaps : TickSeen(gap)
  \/ \E cost \in Costs : RunTaskSeen(cost)
  \/ SkipTaskSeen

SchedHistorySpec == SchedHistoryInit /\ [][SchedHistoryNext]_schedAllVars

-----------------------------------------------------------------------------
(* Properties.                                                             *)

Named(name) == CHOOSE i \in DOMAIN tasks : tasks[i].name = name

(* When a tick ends no task is left behind: each has run, and less than    *)
(* its interval before that tick began, however long the tasks took, how   *)
(* long the ticks were apart and how often the timer wrapped.              *)
NeverLate ==
  [][next # 0 /\ next' = 0 =>
       \A i \in DOMAIN tasks :
         LET name == tasks[i].name
         IN age'[name] # Never /\ age'[name] - spent' < tasks[i].interval_ms]_schedAllVars

(* core/ecu_scheduler.h:74 "Runs all tasks whose interval has elapsed":    *)
(* no task runs again before its interval has really elapsed.              *)
NeverEarly ==
  served.lapse # Never => served.lapse >= tasks[Named(served.name)].interval_ms
=============================================================================
