---------------------------- MODULE EcuGovernor ----------------------------
(***************************************************************************)
(* The RPM controller driving the fuel valve, as ecu_step does in RAMP and *)
(* RUN, and as a user of the classes Pid and Fuel does: the cutoff can be  *)
(* set and released at any time, by calls and by the scopes of             *)
(* Fuel::CutoffGuard, which may nest.                                      *)
(***************************************************************************)
EXTENDS EcuPid, EcuFuel

CONSTANTS
  PidCfg,      \* the configuration of the controller
  FuelMax,     \* fuel_max_pct
  RampRate,    \* fuel_ramp_rate, percent per unit of time
  Setpoints,   \* target speeds
  Measures,    \* measured speeds
  Steps,       \* the dt of an update
  MaxGuards    \* CutoffGuard scopes open at once

ASSUME GovernorAssumption ==
  /\ PidCfg \in PidConfig
  /\ FuelMax \in Nat /\ RampRate \in Nat /\ MaxGuards \in Nat
  /\ Setpoints \subseteq Int /\ Measures \subseteq Int /\ Steps \subseteq Nat

VARIABLES
  pid,         \* ecu_pid_t
  fuel,        \* ecu_fuel_state_t
  guards,      \* CutoffGuard objects alive
  (* History variables, read by the properties only.                       *)
  allowance,   \* what the ramp allows since the cutoff was last active
  push         \* sum of error * dt since the error last changed sign

governorVars == <<pid, fuel, guards, allowance, push>>

L == ILimit(PidCfg)

GovernorInit ==
  /\ pid = PidInit /\ fuel = FuelInit /\ guards = 0
  /\ allowance = 0 /\ push = 0

-----------------------------------------------------------------------------
SameSide(d) == (push >= 0 /\ d >= 0) \/ (push <= 0 /\ d <= 0)

Pushed(d) == Limited(IF SameSide(d) THEN push + d ELSE d, -2 * L, 2 * L)

(* ecu_pid_update and ecu_fuel_compute on its output: the controller goes  *)
(* on integrating while the cutoff holds the valve closed.                 *)
Govern(setpoint, measured, dt) ==
  LET error == setpoint - measured
  IN /\ pid' = PidUpdate(PidCfg, pid, error, dt)
     /\ fuel' = FuelCompute(PidOutput(PidCfg, pid, error, dt), RampRate * dt,
                            FuelMax, fuel)
     /\ push' = Pushed(error * dt)
     /\ allowance' = IF fuel.cutoff_active THEN 0
                     ELSE Limited(allowance + RampRate * dt, 0, FuelMax)
     /\ UNCHANGED guards

(* ecu_pid_reset.                                                          *)
ResetPid ==
  /\ pid' = PidInit /\ push' = 0
  /\ UNCHANGED <<fuel, guards, allowance>>

(* ecu_fuel_cutoff and ecu_fuel_release.                                   *)
Cutoff ==
  /\ fuel' = FuelCutoff(fuel) /\ allowance' = 0
  /\ UNCHANGED <<pid, guards, push>>

Release ==
  /\ fuel' = FuelRelease(fuel)
  /\ UNCHANGED <<pid, guards, allowance, push>>

(* The constructor and the destructor of a CutoffGuard.                    *)
EnterScope ==
  /\ guards < MaxGuards /\ guards' = guards + 1
  /\ fuel' = FuelCutoff(fuel) /\ allowance' = 0
  /\ UNCHANGED <<pid, push>>

LeaveScope ==
  /\ guards > 0 /\ guards' = guards - 1
  /\ fuel' = FuelRelease(fuel)
  /\ UNCHANGED <<pid, allowance, push>>

Update == \E s \in Setpoints, m \in Measures, dt \in Steps : Govern(s, m, dt)

GovernorNext ==
  \/ Update
  \/ ResetPid
  \/ Cutoff
  \/ Release
  \/ EnterScope
  \/ LeaveScope

GovernorSpec == GovernorInit /\ [][GovernorNext]_governorVars

-----------------------------------------------------------------------------
(* Properties.                                                             *)

GovernorTypeOK ==
  /\ pid \in PidState /\ pid.integral \in -L .. L
  /\ fuel \in FuelState /\ fuel.last_pct <= FuelMax
  /\ guards \in 0 .. MaxGuards
  /\ allowance \in 0 .. FuelMax /\ push \in -2 * L .. 2 * L

(* However long the controller has been wound up against a valve that did  *)
(* not follow it, it unwinds as soon as the error changes sign: the        *)
(* integral has recovered what the error since then adds up to, from the   *)
(* opposite limit at worst, and is at the limit after twice that limit     *)
(* (core/ecu_pid.c:36-45; the integral is neither reset between two starts *)
(* nor held by a cutoff, core/ecu_core.c:146).                             *)
WindupUnwinds ==
  /\ push >= 0 => pid.integral >= push - L
  /\ push <= 0 => pid.integral <= push + L

(* After a cutoff the fuel comes back no faster than the ramp, counted     *)
(* from zero at the last moment the cutoff was active, whatever the        *)
(* controller asked for meanwhile and however often the cutoff was set and *)
(* released (core/ecu_fuel.c:30-53).                                       *)
SoftRestart ==
  /\ fuel.last_pct <= allowance
  /\ fuel.cutoff_active => fuel.last_pct = 0
=============================================================================
