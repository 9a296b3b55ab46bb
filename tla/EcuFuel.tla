------------------------------ MODULE EcuFuel ------------------------------
(***************************************************************************)
(* Fuel scheduling (core/ecu_fuel.c): the valve command is clamped to the  *)
(* configured maximum, moves no faster than the ramp rate, and is held at  *)
(* zero while the safety cutoff is active.  Percentages are integers on    *)
(* the grid chosen by the model.                                           *)
(***************************************************************************)
EXTENDS Integers

FuelState == [last_pct : Nat, cutoff_active : BOOLEAN]

FuelInit == [last_pct |-> 0, cutoff_active |-> FALSE]

FuelCutoffFaulty(st) == [st EXCEPT !.cutoff_active = TRUE]

(* ecu_fuel_cutoff.  FuelCutoffFaulty keeps the last output; no            *)
(* specification uses it.                                                  *)
FuelCutoff(st) == [st EXCEPT !.cutoff_active = TRUE, !.last_pct = 0]

FuelRelease(st) == [st EXCEPT !.cutoff_active = FALSE]

ClampPct(pct, max) == IF pct < 0 THEN 0 ELSE IF pct > max THEN max ELSE pct

(* ApproachFaulty limits the opening of the valve only; no specification   *)
(* uses it.                                                                *)
ApproachFaulty(target, last, max_change) ==
  IF target - last > max_change THEN last + max_change ELSE target

Approach(target, last, max_change) ==
  IF target - last > max_change THEN last + max_change
  ELSE IF last - target > max_change THEN last - max_change
  ELSE target

(* actual_pct of ecu_fuel_compute, where max is fuel_max_pct and           *)
(* max_change is fuel_ramp_rate * dt.                                      *)
ActualPct(target, max_change, max, st) ==
  IF st.cutoff_active THEN 0
  ELSE ClampPct(Approach(ClampPct(target, max), st.last_pct, max_change), max)

(* The state ecu_fuel_compute leaves.                                      *)
FuelCompute(target, max_change, max, st) ==
  [st EXCEPT !.last_pct = ActualPct(target, max_change, max, st)]
=============================================================================
