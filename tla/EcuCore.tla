------------------------------ MODULE EcuCore ------------------------------
(***************************************************************************)
(* The control step of the ECU (core/ecu_core.c): ecu_step reads the       *)
(* inputs, advances the clock, validates both sensors, runs the handler of *)
(* the current engine state and returns the outputs.  It composes the      *)
(* state machine, the sensor validation, the fuel scheduling and the EGT   *)
(* limit map.  The RPM controller is reduced to what the rest relies on:   *)
(* ecu_pid_update returns some value within its output limits.             *)
(***************************************************************************)
EXTENDS EcuSm, EcuSensor, EcuFuel, EcuMap

CONSTANTS
  Config,              \* ecu_config_t, fixed by ecu_init
  EgtLimitMap,         \* default_egt_limit_map
  RpmRateLimit, RpmStuckTolerance, RpmStuckCountLimit,
  EgtRangeMin, EgtRateLimit, EgtStuckTolerance, EgtStuckCountLimit,
  EgtCold,             \* the literal 100 deg C of ecu_core.c
  RawRpm, RawEgt,      \* what the converters may deliver
  Throttles,           \* throttle commands, percent
  Dts, TicksPerMs      \* lengths of a step, in ticks of 1/TicksPerMs ms

FaultCodes == {"SENSOR", "SPINUP", "IGNITION", "OVERSPEED", "OVERTEMP"}

EcuConfig ==
  [rpm_idle : Nat, rpm_max : Nat, rpm_start_target : Nat,
   egt_max : Nat, egt_start_min : Int,
   fuel_start_pct : Nat, fuel_max_pct : Nat, fuel_ramp_rate : Nat,
   prestart_timeout_ms : Time, spinup_timeout_ms : Time,
   ignition_timeout_ms : Time]

Inputs == [rpm : RawRpm, egt : RawEgt, throttle : Throttles]

Outputs ==
  [fuel_pct : Nat, igniter_on : BOOLEAN, starter_on : BOOLEAN,
   state : EcuState, fault_code : SUBSET FaultCodes]

RpmSensorCfg ==
  [range_min         |-> 0,
   range_max         |-> (Config.rpm_max * 6) \div 5,
   rate_limit        |-> RpmRateLimit,
   stuck_tolerance   |-> RpmStuckTolerance,
   stuck_count_limit |-> RpmStuckCountLimit]

EgtSensorCfg ==
  [range_min         |-> EgtRangeMin,
   range_max         |-> (Config.egt_max * 6) \div 5,
   rate_limit        |-> EgtRateLimit,
   stuck_tolerance   |-> EgtStuckTolerance,
   stuck_count_limit |-> EgtStuckCountLimit]

ASSUME CoreAssumption ==
  /\ Config \in EcuConfig
  /\ EgtLimitMap \in Seq(Point)
  /\ {RpmRateLimit, EgtRateLimit} \subseteq Nat \ {0}
  /\ {RpmStuckTolerance, EgtStuckTolerance,
      RpmStuckCountLimit, EgtStuckCountLimit} \subseteq Nat
  /\ EgtRangeMin \in Int /\ EgtCold \in Int
  /\ EgtRangeMin <= EgtSensorCfg.range_max
  /\ RawRpm \subseteq Int /\ RawEgt \subseteq Int /\ Throttles \subseteq Int
  /\ TicksPerMs \in Nat \ {0} /\ Dts \subseteq Nat

VARIABLES
  sm,           \* ecu_sm_t
  fuel,         \* ecu_fuel_state_t
  rpm_sensor,   \* ecu_sensor_state_t of the shaft speed channel
  egt_sensor,   \* ecu_sensor_state_t of the exhaust temperature channel
  fault_code,   \* the fault bitmask, as a set
  time_ms,      \* the ECU clock
  out           \* the ecu_outputs_t the last step returned

vars == <<sm, fuel, rpm_sensor, egt_sensor, fault_code, time_ms, out>>

(* ecu_init; the outputs before the first step are all off.                *)
Init ==
  /\ sm = SmInit
  /\ fuel = FuelInit
  /\ rpm_sensor = SensorInit
  /\ egt_sensor = SensorInit
  /\ fault_code = {}
  /\ time_ms = 0
  /\ out = [fuel_pct |-> 0, igniter_on |-> FALSE, starter_on |-> FALSE,
            state |-> "OFF", fault_code |-> {}]

-----------------------------------------------------------------------------
Ms(dt) == dt \div TicksPerMs            \* (uint32_t)(dt * 1000.0f)

MaxChange(dt) == Config.fuel_ramp_rate * dt

EgtLimit(rpm) ==
  LET limit == Lookup(EgtLimitMap, rpm)
  IN IF limit < EgtCold THEN Config.egt_max ELSE limit

TrippedFaulty(rpm, egt) ==
  IF rpm > RpmSensorCfg.range_max THEN {"OVERSPEED"}
  ELSE IF egt > EgtLimit(rpm) THEN {"OVERTEMP"}
  ELSE {}

(* The fault check_protections raises, if any.                             *)
Tripped(rpm, egt) ==
  IF rpm > Config.rpm_max THEN {"OVERSPEED"}
  ELSE IF egt > EgtLimit(rpm) THEN {"OVERTEMP"}
  ELSE {}

(* enter_fault, called with the machine in state s and the fuel state f.   *)
EnterFault(code, s, f, now) ==
  /\ fault_code' = fault_code \cup {code}
  /\ sm' = Transition(s, "FAULT", now)
  /\ fuel' = IF s.current = "FAULT" THEN f ELSE FuelCutoff(f)

(* No fault in this step: the machine moves to s and the fuel state to f.  *)
Proceed(s, f) == sm' = s /\ fuel' = f /\ UNCHANGED fault_code

Deliver(pct, igniter, starter) ==
  out' = [fuel_pct |-> pct, igniter_on |-> igniter, starter_on |-> starter,
          state |-> sm'.current, fault_code |-> fault_code']

-----------------------------------------------------------------------------
(* One handler per engine state.                                           *)

Off(throttle, now) ==
  /\ sm.current = "OFF"
  /\ Proceed(IF throttle > 5 THEN Transition(sm, "PRESTART", now) ELSE sm, fuel)
  /\ Deliver(0, FALSE, FALSE)

Prestart(valid, now) ==
  /\ sm.current = "PRESTART"
  /\ \/ valid /\ Proceed(Transition(sm, "SPINUP", now), fuel)
     \/ /\ ~valid
        /\ IF Elapsed(now, sm.state_enter_time) > Config.prestart_timeout_ms
           THEN EnterFault("SENSOR", sm, fuel, now)
           ELSE Proceed(sm, fuel)
  /\ Deliver(0, FALSE, FALSE)

SpinupFaulty(rpm, now) ==
  /\ sm.current = "SPINUP"
  /\ Proceed(IF 10 * rpm >= 3 * Config.rpm_idle
             THEN Transition(sm, "IGNITION", now) ELSE sm, fuel)
  /\ Deliver(0, FALSE, TRUE)

(* The timeout is tested after the transition has refreshed the time of    *)
(* entry, here and in Ignition.                                            *)
Spinup(rpm, now) ==
  LET s == IF 10 * rpm >= 3 * Config.rpm_idle
           THEN Transition(sm, "IGNITION", now) ELSE sm
  IN /\ sm.current = "SPINUP"
     /\ IF Elapsed(now, s.state_enter_time) > Config.spinup_timeout_ms
        THEN EnterFault("SPINUP", s, fuel, now)
        ELSE Proceed(s, fuel)
     /\ Deliver(0, FALSE, TRUE)

Ignition(egt, dt, now) ==
  LET f == FuelCompute(Config.fuel_start_pct, MaxChange(dt),
                       Config.fuel_max_pct, fuel)
      s == IF egt >= Config.egt_start_min
           THEN Transition(sm, "RAMP", now) ELSE sm
  IN /\ sm.current = "IGNITION"
     /\ IF Elapsed(now, s.state_enter_time) > Config.ignition_timeout_ms
        THEN EnterFault("IGNITION", s, f, now)
        ELSE Proceed(s, f)
     /\ Deliver(f.last_pct, TRUE, TRUE)

(* Ramp and Run: protections first; then the controller's command, any     *)
(* value within its output limits, goes through the fuel scheduling.       *)
Protect(rpm, egt, now) ==
  \E code \in Tripped(rpm, egt) :
    EnterFault(code, sm, fuel, now) /\ Deliver(0, FALSE, FALSE)

Burn(s, dt) ==
  \E command \in 0 .. Config.fuel_max_pct :
    LET f == FuelCompute(command, MaxChange(dt), Config.fuel_max_pct, fuel)
    IN Proceed(s, f) /\ Deliver(f.last_pct, FALSE, FALSE)

RampFaulty(rpm, egt, dt, now) ==
  /\ sm.current = "RAMP"
  /\ Burn(IF 100 * rpm >= 95 * Config.rpm_start_target
          THEN Transition(sm, "RUN", now) ELSE sm, dt)

Ramp(rpm, egt, dt, now) ==
  /\ sm.current = "RAMP"
  /\ \/ Protect(rpm, egt, now)
     \/ /\ Tripped(rpm, egt) = {}
        /\ Burn(IF 100 * rpm >= 95 * Config.rpm_start_target
                THEN Transition(sm, "RUN", now) ELSE sm, dt)

Run(rpm, egt, throttle, dt, now) ==
  /\ sm.current = "RUN"
  /\ \/ Protect(rpm, egt, now)
     \/ /\ Tripped(rpm, egt) = {}
        /\ Burn(IF throttle < 1
                THEN Transition(sm, "COOLDOWN", now) ELSE sm, dt)

CooldownFaulty(egt, now) ==
  /\ sm.current = "COOLDOWN"
  /\ Proceed(IF egt < EgtCold THEN Transition(sm, "SHUTDOWN", now) ELSE sm, fuel)
  /\ Deliver(0, FALSE, FALSE)

Cooldown(egt, now) ==
  /\ sm.current = "COOLDOWN"
  /\ Proceed(IF egt < EgtCold THEN Transition(sm, "SHUTDOWN", now) ELSE sm,
             FuelCutoff(fuel))
  /\ Deliver(0, FALSE, FALSE)

Shutdown(now) ==
  /\ sm.current = "SHUTDOWN"
  /\ Proceed(Transition(sm, "OFF", now), fuel)
  /\ Deliver(0, FALSE, FALSE)

FaultFaulty ==
  /\ sm.current = "FAULT"
  /\ Proceed(Transition(sm, "SHUTDOWN", time_ms'), FuelCutoff(fuel))
  /\ Deliver(0, FALSE, FALSE)

(* The table would let FAULT be left for SHUTDOWN, as FaultFaulty does; no *)
(* handler asks for it.                                                    *)
Fault ==
  /\ sm.current = "FAULT"
  /\ Proceed(sm, FuelCutoff(fuel))
  /\ Deliver(0, FALSE, FALSE)

(* ecu_step.                                                               *)
Step(in, dt) ==
  LET now == After(time_ms, Ms(dt))
      rpm == Validate(in.rpm, RpmSensorCfg, rpm_sensor)
      egt == Validate(in.egt, EgtSensorCfg, egt_sensor)
  IN /\ time_ms' = now
     /\ rpm_sensor' = rpm.state
     /\ egt_sensor' = egt.state
     /\ \/ Off(in.throttle, now)
        \/ Prestart(rpm.reading.valid /\ egt.reading.valid, now)
        \/ Spinup(rpm.reading.value, now)
        \/ Ignition(egt.reading.value, dt, now)
        \/ Ramp(rpm.reading.value, egt.reading.value, dt, now)
        \/ Run(rpm.reading.value, egt.reading.value, in.throttle, dt, now)
        \/ Cooldown(egt.reading.value, now)
        \/ Shutdown(now)
        \/ Fault

Next == \E in \in Inputs, dt \in Dts : Step(in, dt)

Spec == Init /\ [][Next]_vars

-----------------------------------------------------------------------------
(* Safety.                                                                 *)

TypeOK ==
  /\ sm \in SmState
  /\ fuel \in FuelState
  /\ rpm_sensor \in SensorState
  /\ egt_sensor \in SensorState
  /\ fault_code \in SUBSET FaultCodes
  /\ time_ms \in Time
  /\ out \in Outputs

(* enter_fault ignores the result of ecu_sm_transition: a fault code is    *)
(* recorded if and only if the machine really is in FAULT, and then the    *)
(* valve is cut off, whichever handler raised it.                          *)
FaultLatched ==
  /\ fault_code # {} <=> sm.current = "FAULT"
  /\ sm.current = "FAULT" => fuel.cutoff_active /\ fuel.last_pct = 0

(* Whichever handler records a fault, from the next step on its codes stay *)
(* as they are, FAULT is not left, and the valve, the igniter and the      *)
(* starter are off, although the table has a way from FAULT to SHUTDOWN    *)
(* and the step that records the fault may still drive all three.          *)
FaultPermanent ==
  [][fault_code # {} =>
       /\ sm'.current = "FAULT" /\ fault_code' = fault_code
       /\ out' = [fuel_pct |-> 0, igniter_on |-> FALSE, starter_on |-> FALSE,
                  state |-> "FAULT", fault_code |-> fault_code]]_vars

(* Once the cutoff is active it stays, and no later step delivers fuel:    *)
(* nothing in ecu_step releases it.                                        *)
CutoffPermanent ==
  [][fuel.cutoff_active => fuel'.cutoff_active /\ out'.fuel_pct = 0]_vars

(* The valve moves by more than the ramp allows in dt, and not because a   *)
(* cutoff closed it.                                                       *)
TooFast(dt) ==
  \/ out'.fuel_pct > out.fuel_pct + MaxChange(dt)
  \/ /\ out.fuel_pct > out'.fuel_pct + MaxChange(dt)
     /\ ~(fuel'.cutoff_active /\ out'.fuel_pct = 0)

(* No step of length dt moves the valve faster than the ramp, up or down,  *)
(* across phase changes, restarts and the steps that skip the fuel         *)
(* scheduling; only a cutoff closes it at once.  And a step that leaves    *)
(* the cutoff active does close it, unless ignition times out in it.       *)
RampRespected ==
  [][/\ \A dt \in Dts : TooFast(dt) => ~\E in \in Inputs : Step(in, dt)
     /\ fuel'.cutoff_active /\ out'.fuel_pct > 0 =>
          sm.current = "IGNITION" /\ sm'.current = "FAULT"]_vars

(* The engine lifecycle is implemented (see EcuLifecycle).                 *)
Lifecycle == INSTANCE EcuLifecycle WITH
  phase   <- sm.current,
  tripped <- fault_code # {},
  latched <- fuel.cutoff_active,
  burning <- out.fuel_pct > 0

ImplementsLifecycle == Lifecycle!Spec

-----------------------------------------------------------------------------
(* Liveness, under a control loop that never stops (see EcuMonitor).       *)

TimedPhase == {"PRESTART", "SPINUP", "IGNITION"}

(* A start attempt is never left hanging: every timed phase is left, for   *)
(* the next phase or for FAULT, however long the sensors stay silent.      *)
StartConcludes ==
  \A phase \in TimedPhase : sm.current = phase ~> sm.current \in {"RAMP", "FAULT"}

-----------------------------------------------------------------------------
(* Statements of the documentation.                                        *)

(* doc/architecture/state_machine.rst:64-68: the outputs of IGNITION are   *)
(* "Starter + Igniter + Fuel"; a step that keeps the engine in IGNITION    *)
(* delivers fuel.                                                          *)
IgnitionFuelled ==
  [][sm.current = "IGNITION" /\ sm'.current = "IGNITION" => out'.fuel_pct > 0]_vars

(* doc/fault_handling/catalogue.rst:13-17 raises SENSOR_FAIL for "Sensor   *)
(* reading invalid during prestart", and README.md:188 starts the          *)
(* simulated engine from rest: in an instance whose raw samples are those  *)
(* of healthy sensors on an engine at rest, no sensor fault is recorded.   *)
HealthySensorsPass == "SENSOR" \notin fault_code
=============================================================================
