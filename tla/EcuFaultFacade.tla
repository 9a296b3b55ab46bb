--------------------------- MODULE EcuFaultFacade ---------------------------
(***************************************************************************)
(* The ranges of cpp/jetecu/FaultManager.h over the tables of EcuFault:    *)
(* log() reads the ring buffer from its first slot on, and activeFaults()  *)
(* fixes the end of the loop when the loop begins, while the body of the   *)
(* loop may report, clear and retry faults and so move the entries under   *)
(* the iterator.                                                           *)
(***************************************************************************)
EXTENDS EcuFault, FiniteSets

VARIABLES
  slots,      \* the codes in the array behind active, stale ones included
  pos, end,   \* the iterator of a walk and its end; over when pos > end
  (* History variables, read by the properties only.                       *)
  unmet,      \* codes active ever since the walk began that it has not met
  ghosts,     \* entries it has met that were not active
  removals    \* entries removed during the walk, up to MaxActive

walkVars == <<pos, end, unmet, ghosts, removals>>
facadeVars == <<vars, slots, walkVars>>

Unused == 0

ActiveCodes == {active[i].code : i \in DOMAIN active}

FacadeInit ==
  /\ Init /\ slots = [k \in 1 .. MaxActive |-> Unused]
  /\ pos = 1 /\ end = 0
  /\ unmet = {} /\ ghosts = 0 /\ removals = 0

Walking == pos <= end

-----------------------------------------------------------------------------
UpToMax(n) == IF n < MaxActive THEN n ELSE MaxActive

(* A call of the manager leaves stale copies behind the table.             *)
Leftover ==
  slots' = [k \in 1 .. MaxActive |->
              IF k <= Len(active') THEN active'[k].code ELSE slots[k]]

Forget ==
  /\ pos' = 1 /\ end' = 0
  /\ unmet' = {} /\ ghosts' = 0 /\ removals' = 0

(* In the body of the loop it moves the entries, not the iterator.  After  *)
(* the loop the walk is forgotten.                                         *)
Called ==
  /\ Leftover
  /\ IF Walking
     THEN /\ unmet' = unmet \cap {active'[i].code : i \in DOMAIN active'}
          /\ removals' = IF Len(active') < Len(active)
                         THEN UpToMax(removals + 1) ELSE removals
          /\ UNCHANGED <<pos, end, ghosts>>
     ELSE Forget

ExtentFaulty == MaxActive

(* The entries activeFaults() covers.  ExtentFaulty covers the whole       *)
(* array; no specification uses it.                                        *)
Extent == Len(active)

(* activeFaults(), begin() and end().                                      *)
BeginWalk ==
  /\ pos' = 1 /\ end' = Extent
  /\ unmet' = ActiveCodes /\ ghosts' = 0 /\ removals' = 0
  /\ UNCHANGED <<vars, slots>>

(* The iterator is read and moves on, whatever the table holds by now.     *)
Visit ==
  /\ Walking
  /\ pos' = pos + 1 /\ unmet' = unmet \ {slots[pos]}
  /\ ghosts' = IF pos <= Len(active) THEN ghosts ELSE ghosts + 1
  /\ UNCHANGED <<vars, slots, end, removals>>

LogEntriesFaulty == IF log_count < LogSize THEN log_count ELSE LogSize - 1

(* The entries log() covers.  LogEntriesFaulty drops one when the ring is  *)
(* full; no specification uses it.                                         *)
LogEntries == IF log_count < LogSize THEN log_count ELSE LogSize

(* What a loop over log() meets, in its order.                             *)
LogView == [k \in 1 .. LogEntries |-> log[k - 1]]

FacadeNext ==
  \/ \E r \in Reports, now \in Times : Report(r, now) /\ Called
  \/ \E code \in Codes : (Clear(code) \/ TryRetry(code)) /\ Called
  \/ \E code \in Codes, n \in Retries : SetRetries(code, n) /\ Called
  \/ BeginWalk
  \/ Visit

FacadeSpec == FacadeInit /\ [][FacadeNext]_facadeVars

-----------------------------------------------------------------------------
(* Properties.                                                             *)

(* A walk that misses a fault, or meets one that is no longer active, does *)
(* so because an entry was removed during the walk, and each removal costs *)
(* at most one fault and one ghost: a loop that clears what it meets still *)
(* reaches every second entry, and a loop that removes nothing meets every *)
(* fault that stays active (cpp/jetecu/FaultManager.h:64-77 over the       *)
(* compaction of core/ecu_fault.c:73-77 and 114-120).                      *)
WalkMissesFew ==
  /\ ~Walking => Cardinality(unmet) <= removals
  /\ ghosts <= removals

(* A loop over log() meets exactly the faults of the journal, in their     *)
(* order until the ring has wrapped and rotated afterwards                 *)
(* (cpp/jetecu/FaultManager.cpp:51-56).                                    *)
LogRotated ==
  /\ Len(LogView) = Len(Journal)
  /\ log_count < LogSize => LogView = Journal
  /\ \E r \in 0 .. LogSize - 1 :
       \A k \in 1 .. log_count : LogView[k] = Journal[((k + r - 1) % log_count) + 1]
=============================================================================
