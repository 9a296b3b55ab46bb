-------------------------- MODULE EcuFaultHistory --------------------------
(***************************************************************************)
(* EcuFault with a record of the calls that were made, so that statements  *)
(* of the documentation about past reports and retries can be checked.     *)
(* The variables below have no counterpart in the code.                    *)
(***************************************************************************)
EXTENDS EcuFault

CONSTANT HistoryBound   \* retries are counted up to this many

VARIABLES
  last,       \* the last report, or a blank one
  granted     \* retries granted for each code since start

history == <<last, granted>>
allVars == <<vars, history>>

NoReport == [code |-> 0, severity |-> INFO, action |-> NONE]

Bump(n) == IF n < HistoryBound THEN n + 1 ELSE n

HistoryInit ==
  /\ Init
  /\ last = NoReport
  /\ granted = [code \in Codes |-> 0]

ReportSeen(r, now) ==
  /\ Report(r, now)
  /\ last' = r
  /\ UNCHANGED granted

ClearSeen(code) == Clear(code) /\ last' = NoReport /\ UNCHANGED granted

TryRetrySeen(code) ==
  /\ TryRetry(code)
  /\ last' = NoReport
  /\ granted' = IF active' # active
                THEN [granted EXCEPT ![code] = Bump(granted[code])] ELSE granted

SetRetriesSeen(code, n) ==
  SetRetries(code, n) /\ last' = NoReport /\ UNCHANGED granted

HistoryNext ==
  \/ \E r \in Reports, now \in Times : ReportSeen(r, now)
  \/ \E code \in Codes : ClearSeen(code) \/ TryRetrySeen(code)
  \/ \E code \in Codes, n \in Retries : SetRetriesSeen(code, n)

HistorySpec == HistoryInit /\ [][HistoryNext]_allVars

-----------------------------------------------------------------------------
(* Statements of the documentation.                                        *)

(* core/ecu_fault.h:45 max_retries is the "Maximum allowed retries", and   *)
(* doc/fault_handling/index.rst:78 promises "up to 3 retry attempts": no   *)
(* code is granted more retries than the greatest limit ever set.          *)
RetriesLimited == \A code \in Codes : \E n \in Retries : granted[code] <= n

(* doc/fault_handling/index.rst:26: reporting a fatal fault leads to       *)
(* "Latch & force SHUTDOWN": the action required right after it is         *)
(* SHUTDOWN, when the table has room for it.                               *)
FatalForcesShutdown ==
  last.severity = FATAL /\ last.action = SHUTDOWN /\ Len(active) < MaxActive
    => highest_action = SHUTDOWN
=============================================================================
