----------------------------- MODULE EcuMonitor -----------------------------
(***************************************************************************)
(* EcuCore watched from outside.  The history variables below have no      *)
(* counterpart in the code: they record what really happened, so that the  *)
(* properties can compare it with what the controller concluded from its   *)
(* wrapping clock and its filtered sensors.                                *)
(***************************************************************************)
EXTENDS EcuCore

VARIABLES
  dwell,      \* ms the steps spent in the present timed phase, never wrapped
  overspeed,  \* steps in a row whose raw speed was above rpm_max while the
              \* shaft was under power and no fault was raised
  overtemp    \* the same for a raw temperature above every EGT limit

history == <<dwell, overspeed, overtemp>>
allVars == <<vars, history>>

Protected == {"RAMP", "RUN"}

(* The timeout of a phase and the fault its expiry raises.                 *)
TimeoutOf(phase) ==
  CASE phase = "PRESTART" -> Config.prestart_timeout_ms
    [] phase = "SPINUP"   -> Config.spinup_timeout_ms
    [] phase = "IGNITION" -> Config.ignition_timeout_ms

FaultOf(phase) ==
  CASE phase = "PRESTART" -> "SENSOR"
    [] phase = "SPINUP"   -> "SPINUP"
    [] phase = "IGNITION" -> "IGNITION"

HottestLimit ==
  LET limits == {EgtLimit(rpm) : rpm \in 0 .. RpmSensorCfg.range_max}
  IN CHOOSE l \in limits : \A m \in limits : m <= l

(* What the handlers rely on: the clock does not wrap within a timeout and *)
(* a step; a speed above rpm_max is within the range of its sensor, and so *)
(* is a temperature above every limit.  With the limit map of the code the *)
(* last needs an egt_max above 916 deg C.                                  *)
ASSUME TimingAssumption ==
  \A phase \in TimedPhase, dt \in Dts : TimeoutOf(phase) + Ms(dt) < TimeMod

ASSUME ProtectionAssumption ==
  /\ RpmSensorCfg.range_max > Config.rpm_max
  /\ EgtSensorCfg.range_max > HottestLimit /\ HottestLimit >= EgtRangeMin

MonitorInit == Init /\ dwell = 0 /\ overspeed = 0 /\ overtemp = 0

(* dwell keeps its value once it has led to a fault.  It is counted up to  *)
(* TimeMod, which is more than any timeout.                                *)
Spent(ms) == IF dwell + ms < TimeMod THEN dwell + ms ELSE TimeMod

Watch(in, dt) ==
  /\ dwell' = IF sm.current \in TimedPhase /\ sm'.current \in {sm.current, "FAULT"}
              THEN Spent(Ms(dt))
              ELSE IF sm.current = "FAULT" THEN dwell ELSE 0
  /\ overspeed' = IF /\ sm.current \in Protected /\ sm'.current \in Protected
                     /\ in.rpm > Config.rpm_max
                  THEN overspeed + 1 ELSE 0
  /\ overtemp' = IF /\ sm.current \in Protected /\ sm'.current \in Protected
                    /\ in.egt > HottestLimit
                 THEN overtemp + 1 ELSE 0

MonitorNext == \E in \in Inputs, dt \in Dts : Step(in, dt) /\ Watch(in, dt)

MonitorSpec == MonitorInit /\ [][MonitorNext]_allVars

(* The main loops call ecu_step for ever (platform/stm32/main_stm32.c,     *)
(* platform/esp32/main.c): there is always a next step that changes the    *)
(* state of the ECU, its clock at least.                                   *)
FairMonitorSpec == MonitorSpec /\ []<><<TRUE>>_vars

-----------------------------------------------------------------------------
(* Properties.                                                             *)

MonitorTypeOK ==
  TypeOK /\ dwell \in Nat /\ overspeed \in Nat /\ overtemp \in Nat

(* A timed phase (doc/architecture/state_machine.rst:98-101) is never      *)
(* outlived: after every step the time really spent in it is within its    *)
(* timeout, although the handlers only compare timestamps that wrap.       *)
DeadlineHonoured ==
  \A phase \in TimedPhase : sm.current = phase => dwell <= TimeoutOf(phase)

(* Nor does a timeout fire early: a timeout fault is recorded only if the  *)
(* engine really spent longer than the timeout in that phase, the step     *)
(* that leaves the phase and refreshes the timestamp included.             *)
NoEarlyTimeout ==
  \A phase \in TimedPhase : FaultOf(phase) \in fault_code => dwell > TimeoutOf(phase)

(* Overspeed detection sees the shaft through a slew limiter.  Under power *)
(* a raw speed above rpm_max is still caught within the number of steps    *)
(* the limiter needs to climb from zero to the limit.                      *)
OverspeedCaught == overspeed * RpmRateLimit <= Config.rpm_max

(* The same for a raw temperature above every limit of the map.            *)
OvertempCaught == overtemp * EgtRateLimit <= HottestLimit - EgtRangeMin
=============================================================================
