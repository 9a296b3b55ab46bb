---------------------------- MODULE EcuLifecycle ----------------------------
(***************************************************************************)
(* What the controller promises its engine, step by step: the order of the *)
(* phases, the latch that a fault or a stop puts on the fuel valve, and    *)
(* when fuel may be delivered at all.  EcuCore is shown to implement it.   *)
(***************************************************************************)
VARIABLES
  phase,      \* the engine state reported
  tripped,    \* a fault has been recorded
  latched,    \* the valve is held shut
  burning     \* the last step delivered fuel

vars == <<phase, tripped, latched, burning>>

Init == phase = "OFF" /\ ~tripped /\ ~latched /\ ~burning

(* Phases in which nothing may burn, and the phase a step may lead to.     *)
Idle(from, to) ==
  /\ phase = from /\ phase' \in {from, to}
  /\ ~burning'
  /\ UNCHANGED <<tripped, latched>>

(* Phases in which fuel may be delivered, through an open valve only.      *)
Firing(from, to) ==
  /\ phase = from /\ phase' \in {from, to}
  /\ burning' \in BOOLEAN
  /\ latched => ~burning'
  /\ UNCHANGED <<tripped, latched>>

(* A fault ends the cycle: the valve is latched in the same step.  Only a  *)
(* fault found while igniting may still report the fuel of that step.      *)
Trip ==
  /\ phase \in {"PRESTART", "SPINUP", "IGNITION", "RAMP", "RUN"}
  /\ phase' = "FAULT"
  /\ tripped' = TRUE
  /\ latched' = TRUE
  /\ burning' \in BOOLEAN
  /\ burning' => phase = "IGNITION" /\ ~latched

(* The engine cools with the valve latched.                                *)
Cool ==
  /\ phase = "COOLDOWN" /\ phase' \in {"COOLDOWN", "SHUTDOWN"}
  /\ latched' = TRUE
  /\ ~burning'
  /\ UNCHANGED tripped

Next ==
  \/ Idle("OFF", "PRESTART")
  \/ Idle("PRESTART", "SPINUP")
  \/ Idle("SPINUP", "IGNITION")
  \/ Firing("IGNITION", "RAMP")
  \/ Firing("RAMP", "RUN")
  \/ Firing("RUN", "COOLDOWN")
  \/ Trip
  \/ Cool
  \/ Idle("SHUTDOWN", "OFF")
  \/ Idle("FAULT", "FAULT")

Spec == Init /\ [][Next]_vars
=============================================================================
