------------------------------- MODULE EcuPid -------------------------------
(***************************************************************************)
(* The PID controller (core/ecu_pid.c).  Gains, errors and times are       *)
(* integers on the grid chosen by the model; the quotients round down.     *)
(***************************************************************************)
EXTENDS Integers

PidConfig ==
  [kp : Nat, ki : Nat, kd : Nat,
   output_min : Int, output_max : Nat, integral_max : Int]

PidState == [integral : Int, prev_error : Int, initialized : BOOLEAN]

(* ecu_pid_init and ecu_pid_reset leave the same state.                    *)
PidInit == [integral |-> 0, prev_error |-> 0, initialized |-> FALSE]

Limited(val, lo, hi) == IF val < lo THEN lo ELSE IF val > hi THEN hi ELSE val

(* The bound of the integral: integral_max, or else derived from the       *)
(* output limit and ki.                                                    *)
ILimit(cfg) ==
  IF cfg.integral_max > 0 THEN cfg.integral_max
  ELSE IF cfg.ki > 0 THEN cfg.output_max \div cfg.ki
  ELSE 1000

IntegratedFaulty(cfg, pid, error, dt) == pid.integral + error * dt

(* The integral after an update.  IntegratedFaulty has no anti-windup; no  *)
(* specification uses it.                                                  *)
Integrated(cfg, pid, error, dt) ==
  Limited(pid.integral + error * dt, -ILimit(cfg), ILimit(cfg))

(* The first update takes its own error for the previous one.              *)
Derivative(pid, error, dt) ==
  IF pid.initialized /\ dt > 0 THEN (error - pid.prev_error) \div dt ELSE 0

(* The state ecu_pid_update leaves, and what it returns.                   *)
PidUpdate(cfg, pid, error, dt) ==
  [integral |-> Integrated(cfg, pid, error, dt),
   prev_error |-> error, initialized |-> TRUE]

PidOutput(cfg, pid, error, dt) ==
  Limited(cfg.kp * error + cfg.ki * Integrated(cfg, pid, error, dt)
            + cfg.kd * Derivative(pid, error, dt),
          cfg.output_min, cfg.output_max)
=============================================================================
