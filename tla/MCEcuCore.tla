----------------------------- MODULE MCEcuCore -----------------------------
(* Small instances of EcuCore for TLC.  One rpm unit stands for the     *)
(* distance the shaft speed sensor may move in a step or less, one egt     *)
(* unit for 100 deg C or more.                                             *)
EXTENDS EcuCore

MCConfig ==
  [rpm_idle |-> 3, rpm_max |-> 5, rpm_start_target |-> 4,
   egt_max |-> 5, egt_start_min |-> 2,
   fuel_start_pct |-> 2, fuel_max_pct |-> 3, fuel_ramp_rate |-> 1,
   prestart_timeout_ms |-> 2, spinup_timeout_ms |-> 3,
   ignition_timeout_ms |-> 2]

(* Hotter is allowed at low speed than at high speed, as in                *)
(* default_egt_limit_map.                                                  *)
MCEgtLimitMap == <<[x |-> 0, y |-> 5], [x |-> 2, y |-> 5], [x |-> 6, y |-> 3]>>
=============================================================================
