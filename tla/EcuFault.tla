------------------------------ MODULE EcuFault ------------------------------
(***************************************************************************)
(* The fault manager (core/ecu_fault.c, wrapped one to one by              *)
(* cpp/jetecu/FaultManager.cpp): a table of active faults, compacted when  *)
(* one is removed, a circular log, and the highest action required.        *)
(***************************************************************************)
EXTENDS Integers, Sequences

CONSTANTS
  Reports,     \* the [code, severity, action] modules report
  Times,       \* the timestamps they pass
  Retries,     \* the limits passed to ecu_fault_set_retries
  MaxActive,   \* FAULT_MAX_ACTIVE
  LogSize      \* FAULT_LOG_SIZE

(* ecu_fault_severity_t and ecu_fault_action_t, compared as integers.      *)
INFO == 0
WARNING == 1
CRITICAL == 2
FATAL == 3
NONE == 0
DEGRADE == 1
SHUTDOWN == 2

ASSUME FaultAssumption ==
  /\ Reports \subseteq [code : Nat, severity : INFO .. FATAL, action : NONE .. SHUTDOWN]
  /\ Times \subseteq Nat
  /\ Retries \subseteq 0 .. 255
  /\ MaxActive \in Nat /\ LogSize \in Nat \ {0}

Codes == {r.code : r \in Reports}

(* ecu_fault_t.  Its active flag is not modelled: it is TRUE in every      *)
(* entry of the table below active_count and in every entry of the log,    *)
(* as it is only cleared on an entry that the same call overwrites.        *)
FaultRecord ==
  [code : Nat, severity : INFO .. FATAL, action : NONE .. SHUTDOWN,
   timestamp : Nat, latched : BOOLEAN, retry_count : Nat, max_retries : Nat]

NewFault(r, now) ==
  [code |-> r.code, severity |-> r.severity, action |-> r.action,
   timestamp |-> now, latched |-> r.severity >= CRITICAL,
   retry_count |-> 0, max_retries |-> 0]

(* What memset leaves in a slot of the log.                                *)
Blank == NewFault([code |-> 0, severity |-> INFO, action |-> NONE], 0)

VARIABLES
  active,          \* the first active_count entries of the table
  log,             \* FAULT_LOG_SIZE slots
  log_head,        \* the next slot to write
  log_count,
  highest_action

vars == <<active, log, log_head, log_count, highest_action>>
logVars == <<log, log_head, log_count>>

Init ==
  /\ active = <<>>
  /\ log = [i \in 0 .. LogSize - 1 |-> Blank]
  /\ log_head = 0 /\ log_count = 0
  /\ highest_action = NONE

-----------------------------------------------------------------------------
(* find_active: the slot i is the first that holds the code.               *)
Holds(i, code) ==
  /\ i \in DOMAIN active /\ active[i].code = code
  /\ \A j \in 1 .. i - 1 : active[j].code # code

IsActive(code) == \E i \in DOMAIN active : active[i].code = code

HighestAction(table) ==
  LET required == {NONE} \cup {table[i].action : i \in DOMAIN table}
  IN CHOOSE a \in required : \A b \in required : b <= a

AddToLog(f) ==
  /\ log' = [log EXCEPT ![log_head] = f]
  /\ log_head' = (log_head + 1) % LogSize
  /\ log_count' = IF log_count < LogSize THEN log_count + 1 ELSE log_count

(* Entry i is overwritten by moving those after it up by one.              *)
Compact(table, i) ==
  [j \in 1 .. Len(table) - 1 |-> IF j < i THEN table[j] ELSE table[j + 1]]

Remove(i) ==
  /\ active' = Compact(active, i)
  /\ highest_action' = HighestAction(active')
  /\ UNCHANGED logVars

-----------------------------------------------------------------------------
(* The operations.  One that returns early leaves everything unchanged.    *)

(* ...Faulty: a fault already active is appended again; the latch is not   *)
(* tested.  No specification uses these.                                   *)
ReportFaulty(r, now) ==
  /\ Len(active) < MaxActive
  /\ active' = Append(active, NewFault(r, now))
  /\ AddToLog(NewFault(r, now))
  /\ highest_action' = HighestAction(active')

Report(r, now) ==
  \/ \E i \in DOMAIN active :
       /\ Holds(i, r.code)
       /\ active' = [active EXCEPT ![i].timestamp = now]
       /\ UNCHANGED <<logVars, highest_action>>
  \/ /\ ~IsActive(r.code)
     /\ Len(active) >= MaxActive
     /\ UNCHANGED vars
  \/ /\ ~IsActive(r.code)
     /\ Len(active) < MaxActive
     /\ active' = Append(active, NewFault(r, now))
     /\ AddToLog(NewFault(r, now))
     /\ highest_action' = HighestAction(active')

ClearFaulty(code) ==
  \/ \E i \in DOMAIN active : Holds(i, code) /\ Remove(i)
  \/ ~IsActive(code) /\ UNCHANGED vars

Clear(code) ==
  \/ \E i \in DOMAIN active : Holds(i, code) /\ ~active[i].latched /\ Remove(i)
  \/ \E i \in DOMAIN active : Holds(i, code) /\ active[i].latched /\ UNCHANGED vars
  \/ ~IsActive(code) /\ UNCHANGED vars

(* A retry is granted by removing the fault, its count with it.            *)
Retriable(f) == f.max_retries # 0 /\ f.retry_count < f.max_retries

TryRetry(code) ==
  \/ \E i \in DOMAIN active : Holds(i, code) /\ Retriable(active[i]) /\ Remove(i)
  \/ \E i \in DOMAIN active : Holds(i, code) /\ ~Retriable(active[i]) /\ UNCHANGED vars
  \/ ~IsActive(code) /\ UNCHANGED vars

SetRetries(code, max_retries) ==
  \/ \E i \in DOMAIN active :
       /\ Holds(i, code)
       /\ active' = [active EXCEPT ![i].max_retries = max_retries]
       /\ UNCHANGED <<logVars, highest_action>>
  \/ ~IsActive(code) /\ UNCHANGED vars

Next ==
  \/ \E r \in Reports, now \in Times : Report(r, now)
  \/ \E code \in Codes : Clear(code) \/ TryRetry(code)
  \/ \E code \in Codes, n \in Retries : SetRetries(code, n)

Spec == Init /\ [][Next]_vars

-----------------------------------------------------------------------------
(* Properties.                                                             *)

TypeOK ==
  /\ active \in Seq(FaultRecord) /\ Len(active) <= MaxActive
  /\ log \in [0 .. LogSize - 1 -> FaultRecord]
  /\ log_head \in 0 .. LogSize - 1 /\ log_count \in 0 .. LogSize
  /\ highest_action \in NONE .. SHUTDOWN

(* However faults come and go, no code ever has two records in the table   *)
(* (the searches would find the older one only).                           *)
NoDuplicateCodes ==
  \A i, j \in DOMAIN active : active[i].code = active[j].code => i = j

(* The cached action is the highest that any active fault requires, after  *)
(* every sequence of calls (core/ecu_fault.h:88 "Highest action across all *)
(* active faults").                                                        *)
HighestActionExact ==
  /\ \A i \in DOMAIN active : active[i].action <= highest_action
  /\ highest_action # NONE => \E i \in DOMAIN active : active[i].action = highest_action

(* The log in the order of writing, from the oldest entry it still holds.  *)
Journal ==
  [k \in 1 .. log_count |-> log[(log_head - log_count + k - 1) % LogSize]]

(* The table, the ring buffer and the cached action implement a set of     *)
(* faults with a journal of the last LogSize raised (EcuFaultBoard).       *)
Board == INSTANCE EcuFaultBoard WITH
  faults   <- {active[i] : i \in DOMAIN active},
  journal  <- Journal,
  required <- highest_action

ImplementsBoard == Board!Spec
=============================================================================
