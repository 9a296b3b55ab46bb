--------------------------- MODULE EcuFaultBoard ---------------------------
(***************************************************************************)
(* What the fault manager promises, without its tables: a set of active    *)
(* faults with at most one record for a code, the action they require, and *)
(* a journal of the LogSize faults raised last, in the order in which they *)
(* were raised.  EcuFault is shown to implement it.                        *)
(***************************************************************************)
EXTENDS Integers, Sequences

CONSTANT LogSize

VARIABLES faults, journal, required

vars == <<faults, journal, required>>

Init == faults = {} /\ journal = <<>> /\ required = 0

(* required is the greatest action among the faults fs, 0 without any.     *)
Requires(fs) ==
  /\ required' \in {0} \cup {f.action : f \in fs}
  /\ \A f \in fs : f.action <= required'

Keep(entries, f) ==
  IF Len(entries) < LogSize THEN Append(entries, f) ELSE Append(Tail(entries), f)

Raise ==
  /\ \E f \in faults' :
       /\ \A g \in faults : g.code # f.code
       /\ faults' = faults \cup {f}
       /\ journal' = Keep(journal, f)
  /\ Requires(faults')

(* A report or a setting for an active fault changes its record, never     *)
(* its code, its severity, its action or its latch.                        *)
Refresh ==
  /\ \E f \in faults, g \in faults' :
       /\ <<g.code, g.severity, g.action, g.latched>>
            = <<f.code, f.severity, f.action, f.latched>>
       /\ faults' = (faults \ {f}) \cup {g}
  /\ UNCHANGED <<journal, required>>

(* A fault ends by being cleared, unless it is latched, or by a retry it   *)
(* has been allowed.                                                       *)
Withdraw ==
  /\ \E f \in faults :
       /\ ~f.latched \/ f.max_retries > 0
       /\ faults' = faults \ {f}
  /\ Requires(faults')
  /\ UNCHANGED journal

Next == Raise \/ Refresh \/ Withdraw

Spec == Init /\ [][Next]_vars
=============================================================================
