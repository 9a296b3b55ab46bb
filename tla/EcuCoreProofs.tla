--------------------------- MODULE EcuCoreProofs ---------------------------
(***************************************************************************)
(* Safety of the control step, for every configuration, every limit map    *)
(* and every input: types, the fault latch, the permanence of the cutoff,  *)
(* the fuel ramp, and the refinement of EcuLifecycle; then the timed       *)
(* phases against the wrapping clock, and overspeed and overtemperature    *)
(* through the slew limiters, for every clock and every length of a step   *)
(* that TimingAssumption and ProtectionAssumption allow.                   *)
(***************************************************************************)
EXTENDS EcuMonitor, EcuLemmas

LEMMA ConfigFacts ==
  /\ Config.rpm_idle \in Nat /\ Config.rpm_max \in Nat /\ Config.egt_max \in Nat
  /\ Config.fuel_start_pct \in Nat /\ Config.fuel_max_pct \in Nat
  /\ Config.fuel_ramp_rate \in Nat
  /\ TicksPerMs \in Nat \ {0} /\ Dts \subseteq Nat
  /\ RawRpm \subseteq Int /\ RawEgt \subseteq Int /\ Throttles \subseteq Int
  BY CoreAssumption DEF EcuConfig

LEMMA SensorConfigs ==
  /\ RpmSensorCfg \in SensorConfig /\ RpmSensorCfg.range_min <= RpmSensorCfg.range_max
  /\ EgtSensorCfg \in SensorConfig /\ EgtSensorCfg.range_min <= EgtSensorCfg.range_max
  <1>1. (Config.rpm_max * 6) \div 5 \in Nat /\ (Config.egt_max * 6) \div 5 \in Nat
    BY ConfigFacts
  <1>2. /\ RpmRateLimit \in Int /\ EgtRateLimit \in Int
        /\ RpmStuckTolerance \in Int /\ EgtStuckTolerance \in Int
        /\ RpmStuckCountLimit \in Int /\ EgtStuckCountLimit \in Int
        /\ EgtRangeMin \in Int /\ EgtRangeMin <= EgtSensorCfg.range_max
    BY CoreAssumption
  <1> QED BY <1>1, <1>2 DEF RpmSensorCfg, EgtSensorCfg, SensorConfig

-----------------------------------------------------------------------------
(* What the parts do.                                                      *)

(* A transition stays or moves to the state asked for; FAULT is reached    *)
(* from every state that can raise one.                                    *)
LEMMA TransitionFacts ==
  ASSUME NEW s \in SmState, NEW next \in EcuState, NEW now \in Time
  PROVE  /\ Transition(s, next, now) \in SmState
         /\ Transition(s, next, now).current \in {s.current, next}
  <1>1. 0 \in Time
    BY TimeAssumption DEF Time
  <1> QED BY <1>1 DEF Transition, SmState

(* The states from which enter_fault reaches FAULT.                        *)
Faultable == {"PRESTART", "SPINUP", "IGNITION", "RAMP", "RUN"}

LEMMA FaultReached ==
  ASSUME NEW s \in SmState, NEW now \in Time, s.current \in Faultable
  PROVE  Transition(s, "FAULT", now).current = "FAULT"
  BY DEF Transition, ValidTransitions, Faultable

(* The valve is held shut by the cutoff and otherwise moves by no more     *)
(* than max_change.                                                        *)
LEMMA FuelFacts ==
  ASSUME NEW st \in FuelState, NEW target \in Int, NEW max_change \in Nat, NEW max \in Nat
  PROVE  LET f == FuelCompute(target, max_change, max, st)
         IN /\ f \in FuelState
            /\ f.cutoff_active = st.cutoff_active
            /\ f.last_pct <= st.last_pct + max_change
            /\ f.last_pct <= max
            /\ st.cutoff_active => f.last_pct = 0
            /\ ~st.cutoff_active /\ st.last_pct <= max =>
                 st.last_pct <= f.last_pct + max_change
  <1> DEFINE pct == ActualPct(target, max_change, max, st)
  <1>1. st.last_pct \in Nat /\ st.cutoff_active \in BOOLEAN
    BY DEF FuelState
  <1>2. /\ pct \in Nat /\ pct <= max /\ pct <= st.last_pct + max_change
        /\ st.cutoff_active => pct = 0
        /\ ~st.cutoff_active /\ st.last_pct <= max => st.last_pct <= pct + max_change
    BY <1>1 DEF ActualPct, Approach, ClampPct
  <1> HIDE DEF pct
  <1>3. FuelCompute(target, max_change, max, st) = [st EXCEPT !.last_pct = pct]
    BY DEF FuelCompute, pct
  <1> QED BY <1>2, <1>3 DEF FuelState

LEMMA CutoffFacts ==
  ASSUME NEW st \in FuelState
  PROVE  /\ FuelCutoff(st) \in FuelState
         /\ FuelCutoff(st).cutoff_active /\ FuelCutoff(st).last_pct = 0
  BY DEF FuelCutoff, FuelState

LEMMA MaxChangeNat == \A dt \in Dts : MaxChange(dt) \in Nat
  BY ConfigFacts DEF MaxChange

-----------------------------------------------------------------------------
(* The handlers, apart from the sensors and the clock.                     *)
Handle(valid, rpm, egt, throttle, dt, now) ==
  \/ Off(throttle, now)
  \/ Prestart(valid, now)
  \/ Spinup(rpm, now)
  \/ Ignition(egt, dt, now)
  \/ Ramp(rpm, egt, dt, now)
  \/ Run(rpm, egt, throttle, dt, now)
  \/ Cooldown(egt, now)
  \/ Shutdown(now)
  \/ Fault

LEMMA StepHandles ==
  ASSUME TypeOK, NEW in \in Inputs, NEW dt \in Dts, Step(in, dt)
  PROVE  /\ time_ms' \in Time /\ time_ms' = After(time_ms, Ms(dt))
         /\ rpm_sensor' \in SensorState /\ egt_sensor' \in SensorState
         /\ \E valid \in BOOLEAN, throttle \in Int :
              Handle(valid, rpm_sensor'.last_value, egt_sensor'.last_value,
                     throttle, dt, time_ms')
  <1> DEFINE now == After(time_ms, Ms(dt))
             r == Validate(in.rpm, RpmSensorCfg, rpm_sensor)
             e == Validate(in.egt, EgtSensorCfg, egt_sensor)
  <1>1. in.rpm \in Int /\ in.egt \in Int /\ in.throttle \in Int
    BY ConfigFacts DEF Inputs
  <1>2. now \in Time
    <2>1. Ms(dt) \in Nat
      BY ConfigFacts DEF Ms
    <2> QED BY <2>1, TimeAssumption DEF After, Time, TypeOK
  <1>3. r.reading \in Reading /\ r.state \in SensorState
    BY <1>1, SensorConfigs, ValidateType DEF TypeOK
  <1>4. e.reading \in Reading /\ e.state \in SensorState
    BY <1>1, SensorConfigs, ValidateType DEF TypeOK
  <1>5. /\ r.reading.valid \in BOOLEAN /\ e.reading.valid \in BOOLEAN
        /\ e.reading.value \in Int
    BY <1>3, <1>4 DEF Reading
  <1>6. r.reading.value = r.state.last_value /\ e.reading.value = e.state.last_value
    BY DEF Validate
  <1>7. /\ time_ms' = now /\ rpm_sensor' = r.state /\ egt_sensor' = e.state
        /\ Handle(r.reading.valid /\ e.reading.valid, r.reading.value,
                  e.reading.value, in.throttle, dt, now)
    BY DEF Step, Handle
  <1> HIDE DEF now, r, e
  <1>8. Handle(r.reading.valid /\ e.reading.valid, rpm_sensor'.last_value,
               egt_sensor'.last_value, in.throttle, dt, time_ms')
    BY <1>6, <1>7
  <1>9. time_ms' = After(time_ms, Ms(dt))
    BY <1>7 DEF now
  <1> QED BY <1>1, <1>2, <1>3, <1>4, <1>5, <1>7, <1>8, <1>9

-----------------------------------------------------------------------------
(* What one step does to the machine, the valve, the fault code and the    *)
(* outputs, for each kind of handler.                                      *)

(* A fault is entered, the fuel delivered in the same step being pct.      *)
FaultEffect(pct) ==
  /\ sm.current \in Faultable
  /\ sm'.current = "FAULT" /\ fault_code' # {}
  /\ fuel'.cutoff_active /\ fuel'.last_pct = 0
  /\ out'.fuel_pct = pct

(* No fuel is delivered and the valve is left as it is.                    *)
IdleEffect(from, to) ==
  /\ sm.current = from /\ sm'.current \in {from, to}
  /\ fault_code' = fault_code /\ fuel' = fuel /\ out'.fuel_pct = 0

(* pct is a command that went through the fuel scheduling.                 *)
Scheduled(pct, dt) ==
  /\ pct <= Config.fuel_max_pct
  /\ pct <= fuel.last_pct + MaxChange(dt)
  /\ fuel.cutoff_active => pct = 0
  /\ ~fuel.cutoff_active /\ fuel.last_pct <= Config.fuel_max_pct =>
       fuel.last_pct <= pct + MaxChange(dt)

(* It is delivered and becomes the valve's position.                       *)
FiringEffect(from, to, dt) ==
  /\ sm.current = from /\ sm'.current \in {from, to}
  /\ fault_code' = fault_code
  /\ fuel'.cutoff_active = fuel.cutoff_active
  /\ out'.fuel_pct = fuel'.last_pct
  /\ Scheduled(fuel'.last_pct, dt)

CutEffect(from, to) ==
  /\ sm.current = from /\ sm'.current \in {from, to}
  /\ fault_code' = fault_code
  /\ fuel'.cutoff_active /\ fuel'.last_pct = 0
  /\ out'.fuel_pct = 0

StepTypes ==
  sm' \in SmState /\ fuel' \in FuelState
    /\ fault_code' \in SUBSET FaultCodes /\ out' \in Outputs

LEMMA ProceedFacts ==
  ASSUME TypeOK, NEW s \in SmState, NEW f \in FuelState, Proceed(s, f),
         NEW pct \in Nat, NEW igniter \in BOOLEAN, NEW starter \in BOOLEAN,
         Deliver(pct, igniter, starter)
  PROVE  /\ StepTypes
         /\ sm' = s /\ fuel' = f /\ fault_code' = fault_code /\ out'.fuel_pct = pct
  BY DEF TypeOK, Proceed, Deliver, StepTypes, Outputs, SmState

LEMMA EnterFaultFacts ==
  ASSUME TypeOK, NEW s \in SmState, NEW f \in FuelState, NEW now \in Time,
         NEW code \in FaultCodes, s.current \in Faultable, EnterFault(code, s, f, now),
         NEW pct \in Nat, NEW igniter \in BOOLEAN, NEW starter \in BOOLEAN,
         Deliver(pct, igniter, starter)
  PROVE  /\ StepTypes
         /\ sm'.current = "FAULT" /\ fault_code' # {}
         /\ fuel'.cutoff_active /\ fuel'.last_pct = 0 /\ out'.fuel_pct = pct
  <1>1. sm' \in SmState /\ sm'.current = "FAULT"
    <2>1. sm' = Transition(s, "FAULT", now) /\ "FAULT" \in EcuState
      BY DEF EnterFault, EcuState
    <2> QED BY <2>1, TransitionFacts, FaultReached
  <1>2. fuel' = FuelCutoff(f)
    BY DEF EnterFault, Faultable
  <1>3. fault_code' \in SUBSET FaultCodes /\ fault_code' # {}
    BY DEF EnterFault, TypeOK
  <1>4. out' \in Outputs /\ out'.fuel_pct = pct
    BY <1>1, <1>3 DEF Deliver, Outputs, SmState
  <1> QED BY <1>1, <1>2, <1>3, <1>4, CutoffFacts DEF StepTypes

LEMMA ProtectFacts ==
  ASSUME TypeOK, sm.current \in Faultable, NEW rpm, NEW egt, NEW now \in Time,
         Protect(rpm, egt, now)
  PROVE  StepTypes /\ FaultEffect(0)
  <1>1. PICK code \in FaultCodes :
          EnterFault(code, sm, fuel, now) /\ Deliver(0, FALSE, FALSE)
    BY DEF Protect, Tripped, FaultCodes
  <1> QED BY <1>1, EnterFaultFacts DEF TypeOK, FaultEffect

LEMMA BurnFacts ==
  ASSUME TypeOK, NEW s \in SmState, NEW dt \in Dts, NEW from, NEW to,
         sm.current = from, s.current \in {from, to}, Burn(s, dt)
  PROVE  StepTypes /\ FiringEffect(from, to, dt)
  <1>1. PICK command \in 0 .. Config.fuel_max_pct :
          LET f == FuelCompute(command, MaxChange(dt), Config.fuel_max_pct, fuel)
          IN Proceed(s, f) /\ Deliver(f.last_pct, FALSE, FALSE)
    BY DEF Burn
  <1> DEFINE f == FuelCompute(command, MaxChange(dt), Config.fuel_max_pct, fuel)
  <1>2. /\ f \in FuelState /\ f.cutoff_active = fuel.cutoff_active
        /\ Scheduled(f.last_pct, dt)
    <2>1. /\ command \in Int /\ MaxChange(dt) \in Nat
          /\ Config.fuel_max_pct \in Nat /\ fuel \in FuelState
      BY MaxChangeNat, ConfigFacts DEF TypeOK
    <2> QED BY <2>1, FuelFacts DEF Scheduled
  <1>3. Proceed(s, f) /\ Deliver(f.last_pct, FALSE, FALSE) /\ f.last_pct \in Nat
    BY <1>1, <1>2 DEF FuelState
  <1> HIDE DEF f
  <1> QED BY <1>2, <1>3, ProceedFacts DEF FiringEffect

-----------------------------------------------------------------------------
(* Every step is of one of these kinds.                                    *)
Effect(dt) ==
  \/ IdleEffect("OFF", "PRESTART")
  \/ IdleEffect("PRESTART", "SPINUP")
  \/ IdleEffect("SPINUP", "IGNITION")
  \/ IdleEffect("SHUTDOWN", "OFF")
  \/ FiringEffect("IGNITION", "RAMP", dt)
  \/ FiringEffect("RAMP", "RUN", dt)
  \/ FiringEffect("RUN", "COOLDOWN", dt)
  \/ CutEffect("COOLDOWN", "SHUTDOWN")
  \/ CutEffect("FAULT", "FAULT")
  \/ FaultEffect(0)
  \/ /\ sm.current = "IGNITION"
     /\ FaultEffect(out'.fuel_pct)
     /\ Scheduled(out'.fuel_pct, dt)

LEMMA MayMove ==
  ASSUME NEW s \in SmState, NEW next \in EcuState, NEW now \in Time, NEW test \in BOOLEAN
  PROVE  /\ (IF test THEN Transition(s, next, now) ELSE s) \in SmState
         /\ (IF test THEN Transition(s, next, now) ELSE s).current \in {s.current, next}
  BY TransitionFacts

LEMMA HandleEffect ==
  ASSUME TypeOK, NEW valid \in BOOLEAN, NEW rpm \in Int, NEW egt \in Int,
         NEW throttle \in Int, NEW dt \in Dts, NEW now \in Time,
         Handle(valid, rpm, egt, throttle, dt, now)
  PROVE  StepTypes /\ Effect(dt)
  <1>0. sm \in SmState /\ fuel \in FuelState
    BY DEF TypeOK
  <1>1. CASE Off(throttle, now)
    <2> DEFINE s == IF throttle > 5 THEN Transition(sm, "PRESTART", now) ELSE sm
    <2>1. s \in SmState /\ s.current \in {"OFF", "PRESTART"}
      BY <1>0, <1>1, MayMove DEF Off, EcuState
    <2>2. Proceed(s, fuel) /\ Deliver(0, FALSE, FALSE) /\ sm.current = "OFF"
      BY <1>1 DEF Off
    <2> HIDE DEF s
    <2> QED BY <1>0, <2>1, <2>2, ProceedFacts DEF IdleEffect, Effect
  <1>2. CASE Prestart(valid, now)
    <2>1. sm.current = "PRESTART" /\ Deliver(0, FALSE, FALSE)
      BY <1>2 DEF Prestart
    <2>2. CASE Proceed(Transition(sm, "SPINUP", now), fuel)
      <3> DEFINE s == Transition(sm, "SPINUP", now)
      <3>1. s \in SmState /\ s.current \in {"PRESTART", "SPINUP"}
        BY <1>0, <2>1, TransitionFacts DEF EcuState
      <3> HIDE DEF s
      <3> QED BY <1>0, <2>1, <2>2, <3>1, ProceedFacts DEF IdleEffect, Effect, s
    <2>3. CASE Proceed(sm, fuel)
      BY <1>0, <2>1, <2>3, ProceedFacts DEF IdleEffect, Effect
    <2>4. CASE EnterFault("SENSOR", sm, fuel, now)
      BY <1>0, <2>1, <2>4, EnterFaultFacts DEF FaultCodes, Faultable, FaultEffect, Effect
    <2> QED BY <1>2, <2>2, <2>3, <2>4 DEF Prestart
  <1>3. CASE Spinup(rpm, now)
    <2> DEFINE s == IF 10 * rpm >= 3 * Config.rpm_idle
                    THEN Transition(sm, "IGNITION", now) ELSE sm
    <2>1. sm.current = "SPINUP" /\ Deliver(0, FALSE, TRUE)
      BY <1>3 DEF Spinup
    <2>2. s \in SmState /\ s.current \in {"SPINUP", "IGNITION"}
      BY <1>0, <2>1, MayMove DEF EcuState
    <2>3. Proceed(s, fuel) \/ EnterFault("SPINUP", s, fuel, now)
      BY <1>3 DEF Spinup
    <2> HIDE DEF s
    <2>4. CASE Proceed(s, fuel)
      BY <1>0, <2>1, <2>2, <2>4, ProceedFacts DEF IdleEffect, Effect
    <2>5. CASE EnterFault("SPINUP", s, fuel, now)
      BY <1>0, <2>1, <2>2, <2>5, EnterFaultFacts DEF FaultCodes, Faultable, FaultEffect, Effect
    <2> QED BY <2>3, <2>4, <2>5
  <1>4. CASE Ignition(egt, dt, now)
    <2> DEFINE f == FuelCompute(Config.fuel_start_pct, MaxChange(dt),
                                Config.fuel_max_pct, fuel)
               s == IF egt >= Config.egt_start_min
                    THEN Transition(sm, "RAMP", now) ELSE sm
    <2>1. sm.current = "IGNITION" /\ Deliver(f.last_pct, TRUE, TRUE)
      BY <1>4 DEF Ignition
    <2>2. s \in SmState /\ s.current \in {"IGNITION", "RAMP"}
      BY <1>0, <2>1, MayMove DEF EcuState
    <2>3. /\ f \in FuelState /\ f.cutoff_active = fuel.cutoff_active
          /\ Scheduled(f.last_pct, dt)
      <3>1. /\ Config.fuel_start_pct \in Int /\ MaxChange(dt) \in Nat
            /\ Config.fuel_max_pct \in Nat /\ fuel \in FuelState
        BY MaxChangeNat, ConfigFacts DEF TypeOK
      <3> QED BY <3>1, FuelFacts DEF Scheduled
    <2>4. Proceed(s, f) \/ EnterFault("IGNITION", s, f, now)
      BY <1>4 DEF Ignition
    <2>5. f.last_pct \in Nat
      BY <2>3 DEF FuelState
    <2> HIDE DEF s, f
    <2>6. CASE Proceed(s, f)
      BY <2>1, <2>2, <2>3, <2>5, <2>6, ProceedFacts DEF FiringEffect, Effect
    <2>7. CASE EnterFault("IGNITION", s, f, now)
      BY <2>1, <2>2, <2>3, <2>5, <2>7, EnterFaultFacts
      DEF FaultCodes, Faultable, FaultEffect, Effect
    <2> QED BY <2>4, <2>6, <2>7
  <1>5. CASE Ramp(rpm, egt, dt, now)
    <2> DEFINE s == IF 100 * rpm >= 95 * Config.rpm_start_target
                    THEN Transition(sm, "RUN", now) ELSE sm
    <2>1. sm.current = "RAMP"
      BY <1>5 DEF Ramp
    <2>2. s \in SmState /\ s.current \in {"RAMP", "RUN"}
      BY <1>0, <2>1, MayMove, ZenonT(40) DEF EcuState
    <2>3. Protect(rpm, egt, now) \/ Burn(s, dt)
      BY <1>5 DEF Ramp
    <2> HIDE DEF s
    <2> QED BY <2>1, <2>2, <2>3, ProtectFacts, BurnFacts DEF Faultable, Effect
  <1>6. CASE Run(rpm, egt, throttle, dt, now)
    <2> DEFINE s == IF throttle < 1 THEN Transition(sm, "COOLDOWN", now) ELSE sm
    <2>1. sm.current = "RUN"
      BY <1>6 DEF Run
    <2>2. s \in SmState /\ s.current \in {"RUN", "COOLDOWN"}
      BY <1>0, <2>1, MayMove DEF EcuState
    <2>3. Protect(rpm, egt, now) \/ Burn(s, dt)
      BY <1>6 DEF Run
    <2> HIDE DEF s
    <2> QED BY <2>1, <2>2, <2>3, ProtectFacts, BurnFacts DEF Faultable, Effect
  <1>7. CASE Cooldown(egt, now)
    <2> DEFINE s == IF egt < EgtCold THEN Transition(sm, "SHUTDOWN", now) ELSE sm
    <2>1. /\ sm.current = "COOLDOWN" /\ Deliver(0, FALSE, FALSE)
          /\ Proceed(s, FuelCutoff(fuel))
      BY <1>7 DEF Cooldown
    <2>2. s \in SmState /\ s.current \in {"COOLDOWN", "SHUTDOWN"}
      BY <1>0, <2>1, MayMove DEF EcuState
    <2> HIDE DEF s
    <2> QED BY <1>0, <2>1, <2>2, CutoffFacts, ProceedFacts DEF CutEffect, Effect
  <1>8. CASE Shutdown(now)
    <2> DEFINE s == Transition(sm, "OFF", now)
    <2>1. sm.current = "SHUTDOWN" /\ Deliver(0, FALSE, FALSE) /\ Proceed(s, fuel)
      BY <1>8 DEF Shutdown
    <2>2. s \in SmState /\ s.current \in {"SHUTDOWN", "OFF"}
      BY <1>0, <2>1, TransitionFacts DEF EcuState
    <2> HIDE DEF s
    <2> QED BY <1>0, <2>1, <2>2, ProceedFacts DEF IdleEffect, Effect
  <1>9. CASE Fault
    <2>1. /\ sm.current = "FAULT" /\ Deliver(0, FALSE, FALSE)
          /\ Proceed(sm, FuelCutoff(fuel))
      BY <1>9 DEF Fault
    <2> QED BY <1>0, <2>1, CutoffFacts, ProceedFacts DEF CutEffect, Effect
  <1> QED BY <1>1, <1>2, <1>3, <1>4, <1>5, <1>6, <1>7, <1>8, <1>9 DEF Handle

LEMMA StepEffect ==
  ASSUME TypeOK, NEW in \in Inputs, NEW dt \in Dts, Step(in, dt)
  PROVE  TypeOK' /\ Effect(dt)
  <1>1. PICK valid \in BOOLEAN, throttle \in Int :
          Handle(valid, rpm_sensor'.last_value, egt_sensor'.last_value,
                 throttle, dt, time_ms')
    BY StepHandles
  <1>2. time_ms' \in Time /\ rpm_sensor' \in SensorState /\ egt_sensor' \in SensorState
    BY StepHandles
  <1>3. rpm_sensor'.last_value \in Int /\ egt_sensor'.last_value \in Int
    BY <1>2 DEF SensorState
  <1>4. StepTypes /\ Effect(dt)
    BY <1>1, <1>2, <1>3, HandleEffect
  <1> QED BY <1>2, <1>4 DEF TypeOK, StepTypes

LEMMA NextEffect ==
  ASSUME TypeOK, Next
  PROVE  TypeOK' /\ \E dt \in Dts : Effect(dt)
  BY StepEffect DEF Next

-----------------------------------------------------------------------------
(* The theorems.                                                           *)

(* The ECU's state keeps its types.                                        *)
THEOREM CoreTypeCorrect == Spec => []TypeOK
  <1>1. Init => TypeOK
    <2>1. 0 \in Time
      BY TimeAssumption DEF Time
    <2> QED BY <2>1 DEF Init, TypeOK, SmInit, SmState, FuelInit, FuelState, SensorInit,
                        SensorState, Outputs, EcuState, FaultCodes
  <1>2. TypeOK /\ [Next]_vars => TypeOK'
    BY NextEffect DEF vars, TypeOK
  <1> QED BY <1>1, <1>2, PTL DEF Spec

(* A fault code is recorded exactly in FAULT, with the valve cut off.      *)
THEOREM CoreFaultLatched == Spec => []FaultLatched
  <1>1. Init => FaultLatched
    BY DEF Init, FaultLatched, SmInit
  <1>2. TypeOK /\ FaultLatched /\ [Next]_vars => FaultLatched'
    <2> SUFFICES ASSUME TypeOK, FaultLatched, Next PROVE FaultLatched'
      BY DEF vars, FaultLatched
    <2>1. PICK dt \in Dts : Effect(dt)
      BY NextEffect
    <2> QED BY <2>1 DEF Effect, IdleEffect, FiringEffect, CutEffect, FaultEffect,
                        Faultable, FaultLatched
  <1> QED BY <1>1, <1>2, CoreTypeCorrect, PTL DEF Spec

(* A recorded fault is final: no step leaves FAULT or changes its codes,   *)
(* and every step after the one that recorded it returns all outputs off   *)
(* (core/ecu_core.c:185-190).                                              *)
THEOREM CoreFaultPermanent == Spec => FaultPermanent
  <1> DEFINE Off3 == [fuel_pct |-> 0, igniter_on |-> FALSE, starter_on |-> FALSE,
                      state |-> "FAULT", fault_code |-> fault_code]
             Stays == /\ sm'.current = "FAULT" /\ fault_code' = fault_code
                      /\ out' = Off3
  <1>1. TypeOK /\ FaultLatched /\ [Next]_vars => [fault_code # {} => Stays]_vars
    <2> SUFFICES ASSUME TypeOK, FaultLatched, Next, fault_code # {} PROVE Stays
      OBVIOUS
    <2>1. sm.current = "FAULT"
      BY DEF FaultLatched
    <2>2. PICK in \in Inputs, dt \in Dts : Step(in, dt)
      BY DEF Next
    <2>3. PICK valid \in BOOLEAN, throttle \in Int :
            Handle(valid, rpm_sensor'.last_value, egt_sensor'.last_value,
                   throttle, dt, time_ms')
      BY <2>2, StepHandles
    <2>4. Fault
      BY <2>1, <2>3 DEF Handle, Off, Prestart, Spinup, Ignition, Ramp, Run, Cooldown, Shutdown
    <2> QED BY <2>1, <2>4 DEF Fault, Proceed, Deliver
  <1> QED BY <1>1, CoreTypeCorrect, CoreFaultLatched, PTL DEF Spec, FaultPermanent

(* Nothing in the control step releases the cutoff: once the engine has    *)
(* cooled down or failed, it never gets fuel again.                        *)
THEOREM CoreCutoffPermanent == Spec => CutoffPermanent
  <1>1. TypeOK /\ [Next]_vars
          => [fuel.cutoff_active => fuel'.cutoff_active /\ out'.fuel_pct = 0]_vars
    <2> SUFFICES ASSUME TypeOK, Next, fuel.cutoff_active
                 PROVE  fuel'.cutoff_active /\ out'.fuel_pct = 0
      OBVIOUS
    <2>1. PICK dt \in Dts : Effect(dt)
      BY NextEffect
    <2> QED BY <2>1 DEF Effect, IdleEffect, FiringEffect, Scheduled, CutEffect, FaultEffect
  <1> QED BY <1>1, CoreTypeCorrect, PTL DEF Spec, CutoffPermanent

(* The ramp.  The fuel scheduling remembers what was delivered, unless the *)
(* cutoff has reset it; it remembers a legal position, and a closed valve  *)
(* outside the phases that burn.                                           *)
ValveKnown ==
  /\ fuel.last_pct <= out.fuel_pct /\ fuel.last_pct <= Config.fuel_max_pct
  /\ ~fuel.cutoff_active => out.fuel_pct = fuel.last_pct
  /\ sm.current \notin {"IGNITION", "RAMP", "RUN", "COOLDOWN"} => fuel.last_pct = 0

LEMMA ValveStep ==
  ASSUME TypeOK, ValveKnown, NEW in \in Inputs, NEW dt \in Dts, Step(in, dt)
  PROVE  /\ ValveKnown' /\ ~TooFast(dt)
         /\ fuel'.cutoff_active /\ out'.fuel_pct > 0 =>
              sm.current = "IGNITION" /\ sm'.current = "FAULT"
  <1>1. Effect(dt)
    BY StepEffect
  <1>2. /\ MaxChange(dt) \in Nat /\ Config.fuel_max_pct \in Nat
        /\ fuel.last_pct \in Nat /\ out.fuel_pct \in Nat
        /\ fuel'.last_pct \in Nat /\ out'.fuel_pct \in Nat
        /\ fuel.cutoff_active \in BOOLEAN /\ fuel'.cutoff_active \in BOOLEAN
    BY MaxChangeNat, ConfigFacts, StepEffect DEF TypeOK, FuelState, Outputs
  <1>3. ASSUME NEW from \in {"OFF", "PRESTART", "SPINUP", "SHUTDOWN"}, NEW to,
               to # "COOLDOWN", IdleEffect(from, to)
        PROVE  /\ fuel.last_pct = 0 /\ fuel' = fuel /\ out'.fuel_pct = 0
    BY <1>3 DEF IdleEffect, ValveKnown
  <1>4. CASE \/ IdleEffect("OFF", "PRESTART") \/ IdleEffect("PRESTART", "SPINUP")
             \/ IdleEffect("SPINUP", "IGNITION") \/ IdleEffect("SHUTDOWN", "OFF")
    <2>1. fuel.last_pct = 0 /\ fuel' = fuel /\ out'.fuel_pct = 0
      BY <1>3, <1>4
    <2> QED BY <1>2, <2>1 DEF ValveKnown, TooFast
  <1>5. ASSUME NEW from, NEW to, from \in {"IGNITION", "RAMP", "RUN"},
               to \in {"RAMP", "RUN", "COOLDOWN"}, FiringEffect(from, to, dt)
        PROVE  /\ ValveKnown' /\ ~TooFast(dt)
               /\ fuel'.cutoff_active => out'.fuel_pct = 0
    BY <1>2, <1>5 DEF FiringEffect, Scheduled, ValveKnown, TooFast
  <1>6. CASE \/ FiringEffect("IGNITION", "RAMP", dt) \/ FiringEffect("RAMP", "RUN", dt)
             \/ FiringEffect("RUN", "COOLDOWN", dt)
    BY <1>2, <1>5, <1>6
  <1>7. CASE \/ CutEffect("COOLDOWN", "SHUTDOWN") \/ CutEffect("FAULT", "FAULT")
             \/ FaultEffect(0)
    BY <1>2, <1>7 DEF CutEffect, FaultEffect, ValveKnown, TooFast
  <1>8. CASE /\ sm.current = "IGNITION" /\ FaultEffect(out'.fuel_pct)
             /\ Scheduled(out'.fuel_pct, dt)
    BY <1>2, <1>8 DEF FaultEffect, Scheduled, ValveKnown, TooFast
  <1> QED BY <1>1, <1>4, <1>6, <1>7, <1>8 DEF Effect

(* Every step moves the valve within the ramp for its own length, opening  *)
(* and closing; only a cutoff closes it at once, and it does, except in    *)
(* the step in which ignition times out (core/ecu_fuel.c:21-55).           *)
THEOREM CoreRampRespected == Spec => RampRespected
  <1>1. Init => ValveKnown
    BY ConfigFacts DEF Init, ValveKnown, FuelInit, SmInit
  <1>2. TypeOK /\ ValveKnown /\ [Next]_vars => ValveKnown'
    BY ValveStep DEF Next, vars, ValveKnown
  <1>3. TypeOK /\ ValveKnown /\ [Next]_vars
          => [/\ \A dt \in Dts : TooFast(dt) => ~\E in \in Inputs : Step(in, dt)
              /\ fuel'.cutoff_active /\ out'.fuel_pct > 0 =>
                   sm.current = "IGNITION" /\ sm'.current = "FAULT"]_vars
    <2> SUFFICES ASSUME TypeOK, ValveKnown, Next
                 PROVE  /\ \A dt \in Dts : TooFast(dt) => ~\E in \in Inputs : Step(in, dt)
                        /\ fuel'.cutoff_active /\ out'.fuel_pct > 0 =>
                             sm.current = "IGNITION" /\ sm'.current = "FAULT"
      OBVIOUS
    <2> QED BY ValveStep DEF Next
  <1> QED BY <1>1, <1>2, <1>3, CoreTypeCorrect, PTL DEF Spec, RampRespected

(* The control step implements the lifecycle.                              *)
THEOREM CoreImplementsLifecycle == Spec => ImplementsLifecycle
  <1>1. Init => Lifecycle!Init
    BY DEF Init, Lifecycle!Init, SmInit, FuelInit
  <1>2. TypeOK /\ FaultLatched /\ [Next]_vars => [Lifecycle!Next]_Lifecycle!vars
    <2> SUFFICES ASSUME TypeOK, FaultLatched, Next PROVE Lifecycle!Next
      BY DEF vars, Lifecycle!vars
    <2>1. PICK dt \in Dts : Effect(dt)
      BY NextEffect
    <2>2. fuel.cutoff_active \in BOOLEAN /\ fuel'.cutoff_active \in BOOLEAN
      BY NextEffect DEF TypeOK, FuelState
    <2>3. ASSUME NEW from, NEW to, IdleEffect(from, to) PROVE Lifecycle!Idle(from, to)
      BY <2>3 DEF IdleEffect, Lifecycle!Idle
    <2>4. ASSUME NEW from, NEW to, FiringEffect(from, to, dt)
          PROVE  Lifecycle!Firing(from, to)
      BY <2>2, <2>4 DEF FiringEffect, Scheduled, Lifecycle!Firing
    <2>5. CASE CutEffect("COOLDOWN", "SHUTDOWN")
      BY <2>2, <2>5 DEF CutEffect, Lifecycle!Cool, Lifecycle!Next
    <2>6. CASE CutEffect("FAULT", "FAULT")
      <3>1. fuel.cutoff_active /\ fuel'.cutoff_active /\ fault_code' = fault_code
        BY <2>6 DEF CutEffect, FaultLatched
      <3>2. sm.current = "FAULT" /\ sm'.current = "FAULT" /\ out'.fuel_pct = 0
        BY <2>6 DEF CutEffect
      <3>3. fuel.cutoff_active = fuel'.cutoff_active
        BY <2>2, <3>1
      <3>4. Lifecycle!Idle("FAULT", "FAULT")
        BY <3>1, <3>2, <3>3 DEF Lifecycle!Idle
      <3> QED BY <3>4 DEF Lifecycle!Next
    <2>7. CASE FaultEffect(0)
      BY <2>2, <2>7 DEF FaultEffect, Faultable, Lifecycle!Trip, Lifecycle!Next
    <2>8. CASE /\ sm.current = "IGNITION"
               /\ FaultEffect(out'.fuel_pct)
               /\ Scheduled(out'.fuel_pct, dt)
      BY <2>2, <2>8 DEF FaultEffect, Scheduled, Lifecycle!Trip, Lifecycle!Next
    <2>9. CASE \/ IdleEffect("OFF", "PRESTART") \/ IdleEffect("PRESTART", "SPINUP")
               \/ IdleEffect("SPINUP", "IGNITION") \/ IdleEffect("SHUTDOWN", "OFF")
      BY <2>3, <2>9 DEF Lifecycle!Next
    <2>10. CASE \/ FiringEffect("IGNITION", "RAMP", dt) \/ FiringEffect("RAMP", "RUN", dt)
                \/ FiringEffect("RUN", "COOLDOWN", dt)
      BY <2>4, <2>10 DEF Lifecycle!Next
    <2> QED BY <2>1, <2>5, <2>6, <2>7, <2>8, <2>9, <2>10 DEF Effect
  <1> QED BY <1>1, <1>2, CoreTypeCorrect, CoreFaultLatched, PTL
          DEF Spec, ImplementsLifecycle, Lifecycle!Spec

-----------------------------------------------------------------------------
(* The watched system is the system: its history changes nothing else.     *)
LEMMA MonitorIsCore == MonitorSpec => Spec
  <1>1. MonitorInit => Init
    BY DEF MonitorInit
  <1>2. [MonitorNext]_allVars => [Next]_vars
    BY DEF MonitorNext, Next, allVars
  <1> QED BY <1>1, <1>2, PTL DEF MonitorSpec, Spec

-----------------------------------------------------------------------------
(* Timed phases.                                                           *)

LEMMA TimeoutFacts ==
  /\ TimeoutOf("PRESTART") = Config.prestart_timeout_ms
  /\ TimeoutOf("SPINUP") = Config.spinup_timeout_ms
  /\ TimeoutOf("IGNITION") = Config.ignition_timeout_ms
  /\ \A phase \in TimedPhase : TimeoutOf(phase) \in Time /\ TimeoutOf(phase) \in Nat
  BY CoreAssumption, TimeAssumption DEF TimeoutOf, TimedPhase, EcuConfig, Time

LEMMA FaultOfFacts ==
  /\ FaultOf("PRESTART") = "SENSOR" /\ FaultOf("SPINUP") = "SPINUP"
  /\ FaultOf("IGNITION") = "IGNITION"
  BY DEF FaultOf

LEMMA ElapsedSelf == \A now \in Time : Elapsed(now, now) = 0
  BY TimeAssumption DEF Elapsed, Time

(* How a step treats the phase it is in, the clock showing now.            *)
Waits(now) ==
  /\ sm.current \in TimedPhase /\ sm' = sm /\ fault_code' = fault_code
  /\ Elapsed(now, sm.state_enter_time) <= TimeoutOf(sm.current)

Expires(now) ==
  /\ sm.current \in TimedPhase /\ sm'.current = "FAULT"
  /\ fault_code' = fault_code \cup {FaultOf(sm.current)}
  /\ Elapsed(now, sm.state_enter_time) > TimeoutOf(sm.current)

Moves(now) ==
  /\ sm'.current # sm.current /\ sm'.current # "FAULT" /\ sm.current # "FAULT"
  /\ sm'.state_enter_time = now /\ fault_code' = fault_code

Untimed ==
  /\ sm.current \notin TimedPhase /\ sm'.current \notin TimedPhase
  /\ sm.current = "FAULT" => sm'.current = "FAULT" /\ fault_code' = fault_code
  /\ fault_code' \subseteq fault_code \cup {"OVERSPEED", "OVERTEMP"}

(* A transition of the table enters its state now.                         *)
LEMMA Entered ==
  ASSUME NEW s \in SmState, NEW next, NEW now \in Time,
         next # s.current, <<s.current, next>> \in ValidTransitions
  PROVE  /\ Transition(s, next, now).current = next
         /\ Transition(s, next, now).state_enter_time = now
  BY DEF Transition

LEMMA MayEnter ==
  ASSUME NEW s \in SmState, NEW next \in EcuState, NEW now \in Time, NEW test \in BOOLEAN,
         next # s.current, <<s.current, next>> \in ValidTransitions
  PROVE  LET t == IF test THEN Transition(s, next, now) ELSE s
         IN /\ t \in SmState
            /\ t = s \/ (t.current = next /\ t.state_enter_time = now)
  BY Entered, TransitionFacts

LEMMA TimedStep ==
  ASSUME TypeOK, NEW valid \in BOOLEAN, NEW rpm \in Int, NEW egt \in Int,
         NEW throttle \in Int, NEW dt \in Dts, NEW now \in Time,
         Handle(valid, rpm, egt, throttle, dt, now)
  PROVE  Waits(now) \/ Expires(now) \/ Moves(now) \/ Untimed
  <1>0. sm \in SmState
    BY DEF TypeOK
  <1>1. CASE Off(throttle, now)
    <2> DEFINE s == Transition(sm, "PRESTART", now)
    <2>1. sm.current = "OFF" /\ fault_code' = fault_code /\ sm' \in {s, sm}
      BY <1>1 DEF Off, Proceed
    <2>2. s.current = "PRESTART" /\ s.state_enter_time = now
      BY <1>0, <2>1, Entered DEF ValidTransitions
    <2> HIDE DEF s
    <2> QED BY <2>1, <2>2 DEF Moves, Untimed, TimedPhase
  <1>2. CASE Prestart(valid, now)
    <2> DEFINE s == Transition(sm, "SPINUP", now)
    <2>1. sm.current = "PRESTART"
      BY <1>2 DEF Prestart
    <2>2. s.current = "SPINUP" /\ s.state_enter_time = now
      BY <1>0, <2>1, Entered DEF ValidTransitions
    <2> HIDE DEF s
    <2>3. CASE sm' = s /\ fault_code' = fault_code
      BY <2>1, <2>2, <2>3 DEF Moves
    <2>4. CASE /\ Elapsed(now, sm.state_enter_time) > Config.prestart_timeout_ms
               /\ EnterFault("SENSOR", sm, fuel, now)
      BY <1>0, <2>1, <2>4, FaultReached, TimeoutFacts, FaultOfFacts
      DEF EnterFault, Faultable, Expires, TimedPhase
    <2>5. CASE /\ ~(Elapsed(now, sm.state_enter_time) > Config.prestart_timeout_ms)
               /\ Proceed(sm, fuel)
      <3>1. Elapsed(now, sm.state_enter_time) \in Int
        BY <1>0, TimeAssumption DEF Elapsed, SmState, Time
      <3>2. Config.prestart_timeout_ms \in Int
        BY TimeoutFacts DEF TimedPhase
      <3> QED BY <2>1, <2>5, <3>1, <3>2, TimeoutFacts DEF Proceed, Waits, TimedPhase
    <2> QED BY <1>2, <2>3, <2>4, <2>5 DEF Prestart, Proceed, s
  <1>3. CASE Spinup(rpm, now)
    <2> DEFINE s == IF 10 * rpm >= 3 * Config.rpm_idle
                    THEN Transition(sm, "IGNITION", now) ELSE sm
    <2>1. sm.current = "SPINUP"
      BY <1>3 DEF Spinup
    <2>2. /\ s \in SmState
          /\ s = sm \/ (s.current = "IGNITION" /\ s.state_enter_time = now)
      <3>1. /\ "IGNITION" \in EcuState /\ "IGNITION" # sm.current
            /\ <<sm.current, "IGNITION">> \in ValidTransitions
        BY <2>1 DEF ValidTransitions, EcuState
      <3> QED BY <1>0, <3>1, MayEnter
    <2>3. \/ /\ Elapsed(now, s.state_enter_time) > Config.spinup_timeout_ms
             /\ EnterFault("SPINUP", s, fuel, now)
          \/ /\ ~(Elapsed(now, s.state_enter_time) > Config.spinup_timeout_ms)
             /\ Proceed(s, fuel)
      BY <1>3 DEF Spinup
    <2> HIDE DEF s
    <2>4. /\ Elapsed(now, s.state_enter_time) \in Int
          /\ Config.spinup_timeout_ms \in Nat /\ Elapsed(now, now) = 0
      BY <2>2, TimeAssumption, TimeoutFacts, ElapsedSelf DEF Elapsed, SmState, Time, TimedPhase
    <2>5. CASE s = sm
      BY <1>0, <2>1, <2>3, <2>4, <2>5, FaultReached, TimeoutFacts, FaultOfFacts
      DEF EnterFault, Faultable, Expires, Proceed, Waits, TimedPhase
    <2>6. CASE s.current = "IGNITION" /\ s.state_enter_time = now
      BY <2>1, <2>3, <2>4, <2>6 DEF Proceed, Moves
    <2> QED BY <2>2, <2>5, <2>6
  <1>4. CASE Ignition(egt, dt, now)
    <2> DEFINE s == IF egt >= Config.egt_start_min
                    THEN Transition(sm, "RAMP", now) ELSE sm
               f == FuelCompute(Config.fuel_start_pct, MaxChange(dt),
                                Config.fuel_max_pct, fuel)
    <2>1. sm.current = "IGNITION"
      BY <1>4 DEF Ignition
    <2>2. /\ s \in SmState
          /\ s = sm \/ (s.current = "RAMP" /\ s.state_enter_time = now)
      <3>1. /\ "RAMP" \in EcuState /\ "RAMP" # sm.current
            /\ <<sm.current, "RAMP">> \in ValidTransitions
        BY <2>1 DEF ValidTransitions, EcuState
      <3> QED BY <1>0, <3>1, MayEnter
    <2>3. \/ /\ Elapsed(now, s.state_enter_time) > Config.ignition_timeout_ms
             /\ EnterFault("IGNITION", s, f, now)
          \/ /\ ~(Elapsed(now, s.state_enter_time) > Config.ignition_timeout_ms)
             /\ Proceed(s, f)
      BY <1>4 DEF Ignition
    <2> HIDE DEF s, f
    <2>4. /\ Elapsed(now, s.state_enter_time) \in Int
          /\ Config.ignition_timeout_ms \in Nat /\ Elapsed(now, now) = 0
      BY <2>2, TimeAssumption, TimeoutFacts, ElapsedSelf DEF Elapsed, SmState, Time, TimedPhase
    <2>5. CASE s = sm
      BY <1>0, <2>1, <2>3, <2>4, <2>5, FaultReached, TimeoutFacts, FaultOfFacts
      DEF EnterFault, Faultable, Expires, Proceed, Waits, TimedPhase
    <2>6. CASE s.current = "RAMP" /\ s.state_enter_time = now
      BY <2>1, <2>3, <2>4, <2>6 DEF Proceed, Moves
    <2> QED BY <2>2, <2>5, <2>6
  <1>5. CASE Ramp(rpm, egt, dt, now) \/ Run(rpm, egt, throttle, dt, now)
    <2>1. sm.current \in {"RAMP", "RUN"} /\ sm'.current \in {"RAMP", "RUN", "COOLDOWN", "FAULT"}
      <3>1. Effect(dt)
        BY HandleEffect
      <3> QED BY <1>5, <3>1 DEF Ramp, Run, Effect, IdleEffect, FiringEffect, CutEffect,
                                FaultEffect, Faultable
    <2>2. fault_code' \subseteq fault_code \cup {"OVERSPEED", "OVERTEMP"}
      BY <1>5 DEF Ramp, Run, Protect, Tripped, EnterFault, Burn, Proceed
    <2> QED BY <2>1, <2>2 DEF Untimed, TimedPhase
  <1>6. CASE Cooldown(egt, now) \/ Shutdown(now) \/ Fault
    <2>1. sm.current \in {"COOLDOWN", "SHUTDOWN", "FAULT"} /\ fault_code' = fault_code
      BY <1>6 DEF Cooldown, Shutdown, Fault, Proceed
    <2>2. sm'.current \in {"COOLDOWN", "SHUTDOWN", "FAULT", "OFF"}
      <3>1. Effect(dt)
        BY HandleEffect
      <3> QED BY <2>1, <3>1 DEF Effect, IdleEffect, FiringEffect, CutEffect, FaultEffect,
                                Faultable
    <2>3. sm.current = "FAULT" => sm'.current = "FAULT"
      BY <1>6 DEF Cooldown, Shutdown, Fault, Proceed
    <2> QED BY <2>1, <2>2, <2>3 DEF Untimed, TimedPhase
  <1> QED BY <1>1, <1>2, <1>3, <1>4, <1>5, <1>6 DEF Handle

LEMMA StepTimed ==
  ASSUME TypeOK, NEW in \in Inputs, NEW dt \in Dts, Step(in, dt)
  PROVE  /\ Waits(time_ms') \/ Expires(time_ms') \/ Moves(time_ms') \/ Untimed
         /\ time_ms' = After(time_ms, Ms(dt))
  <1>1. PICK valid \in BOOLEAN, throttle \in Int :
          Handle(valid, rpm_sensor'.last_value, egt_sensor'.last_value,
                 throttle, dt, time_ms')
    BY StepHandles
  <1>2. /\ time_ms' = After(time_ms, Ms(dt)) /\ time_ms' \in Time
        /\ rpm_sensor'.last_value \in Int /\ egt_sensor'.last_value \in Int
    BY StepHandles DEF SensorState
  <1> QED BY <1>1, <1>2, TimedStep

-----------------------------------------------------------------------------
(* The inductive invariant of the timed phases: the time the handlers      *)
(* compute from the wrapping clock is the time really spent.               *)
ClockExact ==
  /\ dwell \in Nat
  /\ sm.current \in TimedPhase =>
       /\ dwell = Elapsed(time_ms, sm.state_enter_time)
       /\ dwell <= TimeoutOf(sm.current)

LEMMA DwellStep ==
  ASSUME TypeOK, FaultLatched, ClockExact, NoEarlyTimeout,
         NEW in \in Inputs, NEW dt \in Dts, Step(in, dt), Watch(in, dt)
  PROVE  ClockExact' /\ NoEarlyTimeout'
  <1> DEFINE now == time_ms'
  <1>1. Ms(dt) \in Nat
    BY ConfigFacts DEF Ms
  <1>2. TypeOK' /\ now \in Time
    BY NextEffect DEF Next, TypeOK
  <1>3. CASE sm.current \in TimedPhase
    <2>1. /\ dwell = Elapsed(time_ms, sm.state_enter_time) /\ dwell \in Nat
          /\ dwell <= TimeoutOf(sm.current)
          /\ TimeoutOf(sm.current) \in Nat /\ TimeoutOf(sm.current) + Ms(dt) < TimeMod
      BY <1>3, TimeoutFacts, TimingAssumption DEF ClockExact
    <2>2. Elapsed(now, sm.state_enter_time) = dwell + Ms(dt)
      <3>1. /\ time_ms \in Time /\ sm.state_enter_time \in Time /\ TimeMod \in Nat
            /\ Elapsed(time_ms, sm.state_enter_time) + Ms(dt) < TimeMod
        BY <1>1, <2>1, TimeAssumption DEF TypeOK, SmState
      <3> QED BY <1>1, <2>1, <3>1, StepTimed, ElapsedAdds
    <2>2a. Spent(Ms(dt)) = dwell + Ms(dt)
      BY <1>1, <2>1, TimeAssumption DEF Spent
    <2>3. fault_code = {}
      BY <1>3 DEF FaultLatched, TimedPhase
    <2>4. CASE Waits(now)
      <3>1. dwell' = dwell + Ms(dt) /\ sm' = sm /\ fault_code' = {}
        BY <1>3, <2>2a, <2>3, <2>4 DEF Watch, Waits
      <3>2. dwell' <= TimeoutOf(sm.current)
        BY <2>2, <2>4, <3>1 DEF Waits
      <3> QED BY <1>1, <2>1, <2>2, <3>1, <3>2 DEF ClockExact, NoEarlyTimeout
    <2>5. CASE Expires(now)
      <3>1. /\ dwell' = dwell + Ms(dt) /\ sm'.current \notin TimedPhase
            /\ fault_code' = {FaultOf(sm.current)}
        BY <1>3, <2>2a, <2>3, <2>5 DEF Watch, Expires, TimedPhase
      <3>2. dwell' > TimeoutOf(sm.current)
        BY <2>2, <2>5, <3>1 DEF Expires
      <3>3. \A phase \in TimedPhase :
              FaultOf(phase) = FaultOf(sm.current) => phase = sm.current
        BY <1>3, FaultOfFacts DEF TimedPhase
      <3> QED BY <1>1, <2>1, <3>1, <3>2, <3>3 DEF ClockExact, NoEarlyTimeout
    <2>6. CASE Moves(now)
      <3>1. /\ dwell' = 0 /\ fault_code' = {} /\ sm'.state_enter_time = now
        BY <1>3, <2>3, <2>6 DEF Watch, Moves, TimedPhase
      <3>2. Elapsed(now, now) = 0
        BY <1>2, ElapsedSelf
      <3> QED BY <3>1, <3>2, TimeoutFacts DEF ClockExact, NoEarlyTimeout
    <2> QED BY <1>3, <2>4, <2>5, <2>6, StepTimed DEF Untimed
  <1>4. CASE sm.current = "FAULT"
    <2>1. sm'.current = "FAULT" /\ fault_code' = fault_code
      BY <1>4, StepTimed DEF Waits, Expires, Moves, Untimed, TimedPhase
    <2>2. dwell' = dwell
      BY <1>4, <2>1 DEF Watch, TimedPhase
    <2> QED BY <2>1, <2>2 DEF ClockExact, NoEarlyTimeout, TimedPhase
  <1>5. CASE sm.current \notin TimedPhase /\ sm.current # "FAULT"
    <2>1. dwell' = 0 /\ fault_code = {}
      BY <1>5 DEF Watch, FaultLatched
    <2>2. fault_code' \subseteq {"OVERSPEED", "OVERTEMP"}
      BY <1>5, <2>1, StepTimed DEF Waits, Expires, Moves, Untimed
    <2>3. NoEarlyTimeout'
      BY <2>2, FaultOfFacts DEF NoEarlyTimeout, TimedPhase
    <2>4. ASSUME sm'.current \in TimedPhase PROVE sm'.state_enter_time = now
      BY <1>5, <2>4, StepTimed DEF Waits, Expires, Moves, Untimed
    <2>5. Elapsed(now, now) = 0
      BY <1>2, ElapsedSelf
    <2> QED BY <2>1, <2>3, <2>4, <2>5, TimeoutFacts DEF ClockExact
  <1> QED BY <1>3, <1>4, <1>5

LEMMA Timing == MonitorSpec => [](ClockExact /\ NoEarlyTimeout)
  <1>1. MonitorInit => ClockExact /\ NoEarlyTimeout
    BY DEF MonitorInit, Init, SmInit, ClockExact, NoEarlyTimeout, TimedPhase
  <1>2. TypeOK /\ FaultLatched /\ ClockExact /\ NoEarlyTimeout /\ [MonitorNext]_allVars
          => ClockExact' /\ NoEarlyTimeout'
    <2> SUFFICES ASSUME TypeOK, FaultLatched, ClockExact, NoEarlyTimeout,
                        [MonitorNext]_allVars
                 PROVE  ClockExact' /\ NoEarlyTimeout'
      OBVIOUS
    <2>1. CASE MonitorNext
      BY <2>1, DwellStep DEF MonitorNext
    <2>2. CASE UNCHANGED allVars
      BY <2>2 DEF allVars, vars, history, ClockExact, NoEarlyTimeout
    <2> QED BY <2>1, <2>2
  <1> QED BY <1>1, <1>2, MonitorIsCore, CoreTypeCorrect, CoreFaultLatched, PTL
          DEF MonitorSpec

(* A timed phase is never outlived, whatever the width of the clock.       *)
THEOREM MonitorDeadlineHonoured == MonitorSpec => []DeadlineHonoured
  <1>1. ClockExact => DeadlineHonoured
    BY DEF ClockExact, DeadlineHonoured
  <1> QED BY <1>1, Timing, PTL

(* A timeout fault means that the time was really spent.                   *)
THEOREM MonitorNoEarlyTimeout == MonitorSpec => []NoEarlyTimeout
  BY Timing, PTL

-----------------------------------------------------------------------------
(* Overspeed.  While the raw speed is too high and no fault is raised, the *)
(* tracked speed climbs by the rate limit at every step, and it stays      *)
(* within rpm_max.                                                         *)
ClimbTracked ==
  /\ overspeed \in Nat
  /\ rpm_sensor.last_value \in 0 .. RpmSensorCfg.range_max
  /\ overspeed * RpmRateLimit <= rpm_sensor.last_value
  /\ overspeed > 0 => rpm_sensor.last_value <= Config.rpm_max

(* A step that stays under power has found no limit exceeded.              *)
LEMMA PoweredBelowLimit ==
  ASSUME TypeOK, NEW in \in Inputs, NEW dt \in Dts, Step(in, dt),
         sm.current \in Protected, sm'.current \in Protected
  PROVE  /\ rpm_sensor'.last_value <= Config.rpm_max
         /\ ~(egt_sensor'.last_value > EgtLimit(rpm_sensor'.last_value))
  <1> DEFINE rpm == rpm_sensor'.last_value
             egt == egt_sensor'.last_value
  <1>1. PICK valid \in BOOLEAN, throttle \in Int :
          Handle(valid, rpm, egt, throttle, dt, time_ms')
    BY StepHandles
  <1>2. rpm \in Int /\ egt \in Int /\ time_ms' \in Time
    BY StepHandles DEF SensorState
  <1> HIDE DEF rpm, egt
  <1>3. Ramp(rpm, egt, dt, time_ms') \/ Run(rpm, egt, throttle, dt, time_ms')
    BY <1>1 DEF Handle, Protected, Off, Prestart, Spinup, Ignition, Cooldown, Shutdown, Fault
  <1>4. ~Protect(rpm, egt, time_ms')
    BY <1>2, ProtectFacts DEF Protected, Faultable, FaultEffect
  <1>5. Tripped(rpm, egt) = {}
    BY <1>3, <1>4 DEF Ramp, Run
  <1>6. ~(rpm > Config.rpm_max) /\ ~(egt > EgtLimit(rpm))
    BY <1>5 DEF Tripped
  <1> QED BY <1>2, <1>6, ConfigFacts DEF rpm, egt

LEMMA ClimbStep ==
  ASSUME TypeOK, ClimbTracked, NEW in \in Inputs, NEW dt \in Dts,
         Step(in, dt), Watch(in, dt)
  PROVE  ClimbTracked'
  <1> DEFINE last == rpm_sensor.last_value
             last2 == rpm_sensor'.last_value
  <1>1. /\ in.rpm \in Int /\ rpm_sensor \in SensorState
        /\ RpmSensorCfg \in SensorConfig /\ RpmSensorCfg.range_min = 0
        /\ RpmSensorCfg.range_min <= RpmSensorCfg.range_max
        /\ RpmSensorCfg.rate_limit = RpmRateLimit
        /\ RpmRateLimit \in Nat /\ RpmRateLimit > 0
    <2>1. RpmRateLimit \in Nat /\ RpmRateLimit > 0
      BY CoreAssumption
    <2>2. in.rpm \in Int /\ rpm_sensor \in SensorState
      BY ConfigFacts DEF Inputs, TypeOK
    <2>3. RpmSensorCfg.range_min = 0 /\ RpmSensorCfg.rate_limit = RpmRateLimit
      BY DEF RpmSensorCfg
    <2> QED BY <2>1, <2>2, <2>3, SensorConfigs
  <1>2. rpm_sensor' = Validate(in.rpm, RpmSensorCfg, rpm_sensor).state
    BY DEF Step
  <1>3. last2 \in 0 .. RpmSensorCfg.range_max
    BY <1>1, <1>2, ValidateInRange DEF ClimbTracked
  <1>4. CASE /\ sm.current \in Protected /\ sm'.current \in Protected
             /\ in.rpm > Config.rpm_max
    <2>1. overspeed' = overspeed + 1
      BY <1>4 DEF Watch
    <2>2. last2 <= Config.rpm_max /\ Config.rpm_max \in Int
      BY <1>4, PoweredBelowLimit, ConfigFacts
    <2>3. last2 = last + RpmRateLimit
      BY <1>1, <1>2, <1>4, <2>2, ProtectionAssumption, ValidateClimb
    <2>4. overspeed' * RpmRateLimit = overspeed * RpmRateLimit + RpmRateLimit
      BY <2>1, <1>1 DEF ClimbTracked
    <2>5. overspeed * RpmRateLimit <= last /\ overspeed * RpmRateLimit \in Int /\ last \in Int
      BY <1>1 DEF ClimbTracked
    <2>6. overspeed' * RpmRateLimit <= last2
      BY <2>3, <2>4, <2>5, <1>1
    <2> QED BY <1>3, <2>1, <2>2, <2>6 DEF ClimbTracked
  <1>5. CASE ~(/\ sm.current \in Protected /\ sm'.current \in Protected
               /\ in.rpm > Config.rpm_max)
    <2>1. overspeed' = 0
      BY <1>5 DEF Watch
    <2> QED BY <1>1, <1>3, <2>1 DEF ClimbTracked
  <1> QED BY <1>4, <1>5

LEMMA ClimbInvariant == MonitorSpec => []ClimbTracked
  <1>1. MonitorInit => ClimbTracked
    <2>1. RpmSensorCfg.range_max \in Nat /\ RpmRateLimit \in Nat
      BY SensorConfigs, CoreAssumption DEF RpmSensorCfg, SensorConfig
    <2> QED BY <2>1 DEF MonitorInit, Init, SensorInit, ClimbTracked
  <1>2. TypeOK /\ ClimbTracked /\ [MonitorNext]_allVars => ClimbTracked'
    <2> SUFFICES ASSUME TypeOK, ClimbTracked, [MonitorNext]_allVars PROVE ClimbTracked'
      OBVIOUS
    <2>1. CASE MonitorNext
      BY <2>1, ClimbStep DEF MonitorNext
    <2>2. CASE UNCHANGED allVars
      BY <2>2 DEF allVars, vars, history, ClimbTracked
    <2> QED BY <2>1, <2>2
  <1> QED BY <1>1, <1>2, MonitorIsCore, CoreTypeCorrect, PTL DEF MonitorSpec

(* A raw overspeed is caught within the steps the limiter needs to climb   *)
(* from zero to rpm_max.                                                   *)
THEOREM MonitorOverspeedCaught == MonitorSpec => []OverspeedCaught
  <1>1. ClimbTracked => OverspeedCaught
    <2> SUFFICES ASSUME ClimbTracked PROVE overspeed * RpmRateLimit <= Config.rpm_max
      BY DEF OverspeedCaught
    <2>1. /\ RpmRateLimit \in Nat /\ Config.rpm_max \in Nat
          /\ overspeed \in Nat /\ rpm_sensor.last_value \in Int
      <3>1. RpmRateLimit \in Nat
        BY CoreAssumption
      <3>2. RpmSensorCfg.range_max \in Int
        BY SensorConfigs DEF SensorConfig
      <3> QED BY <3>1, <3>2, ConfigFacts DEF ClimbTracked
    <2>2. CASE overspeed = 0
      BY <2>1, <2>2
    <2>3. CASE overspeed > 0
      <3>1. overspeed * RpmRateLimit \in Int
        BY <2>1
      <3> QED BY <2>1, <2>3, <3>1 DEF ClimbTracked
    <2> QED BY <2>1, <2>2, <2>3
  <1> QED BY <1>1, ClimbInvariant, PTL

-----------------------------------------------------------------------------
(* Overtemperature.  The limit of a speed is a number, so there is a       *)
(* hottest one among those of the speeds the channel can show.             *)

LEMMA LookupInt ==
  ASSUME NEW map \in Seq(Point), NEW x \in Int PROVE Lookup(map, x) \in Int
  <1> DEFINE n == Len(map)
             Holds(i) == map[i].x <= x /\ x <= map[i + 1].x
             S == {i \in 1 .. n - 1 : Holds(i)}
             first == CHOOSE i \in 1 .. n - 1 : Holds(i) /\ \A j \in 1 .. i - 1 : ~Holds(j)
  <1>1. n \in Nat /\ \A i \in 1 .. n : map[i].x \in Int /\ map[i].y \in Int
    <2>1. n \in Nat /\ \A i \in 1 .. n : map[i] \in Point
      OBVIOUS
    <2>2. \A p \in Point : p.x \in Int /\ p.y \in Int
      BY DEF Point
    <2> QED BY <2>1, <2>2
  <1>2. ASSUME S # {}
        PROVE  first \in 1 .. n - 1 /\ Holds(first)
    <2>1. S \subseteq Nat
      BY <1>1
    <2>2. PICK i \in S : \A j \in S : i <= j
      BY <1>2, <2>1, LeastNumber
    <2>3. i \in 1 .. n - 1 /\ Holds(i)
      OBVIOUS
    <2>4. \A j \in 1 .. i - 1 : ~Holds(j)
      <3> SUFFICES ASSUME NEW j \in 1 .. i - 1, Holds(j) PROVE FALSE
        OBVIOUS
      <3>1. j \in S
        BY <1>1, <2>3
      <3> HIDE DEF S
      <3> QED BY <1>1, <2>2, <2>3, <3>1
    <2> HIDE DEF Holds
    <2> QED BY <2>3, <2>4
  <1>3. ASSUME NEW i \in 1 .. n - 1, Holds(i)
        PROVE  Interpolate(map[i], map[i + 1], x) \in Int
    <2>1. i \in 1 .. n /\ i + 1 \in 1 .. n
      BY <1>1
    <2> DEFINE d == map[i + 1].x - map[i].x
               e == (x - map[i].x) * (map[i + 1].y - map[i].y)
    <2>2. d \in Nat /\ e \in Int /\ map[i].y \in Int
      <3>1. d \in Nat /\ map[i].y \in Int
        BY <1>1, <1>3, <2>1
      <3>2. x - map[i].x \in Int /\ map[i + 1].y - map[i].y \in Int
        BY <1>1, <2>1
      <3>3. \A a, b \in Int : a * b \in Int
        OBVIOUS
      <3> QED BY <3>1, <3>2, <3>3
    <2>3. d # 0 => e \div d \in Int
      <3> HIDE DEF d, e
      <3> QED BY <2>2
    <2>4. map[i + 1].x # map[i].x => d # 0
      BY <1>1, <2>1
    <2> QED BY <2>2, <2>3, <2>4 DEF Interpolate
  <1>4. CASE n = 0 \/ x <= map[1].x \/ x >= map[n].x \/ S = {}
    <2>1. n # 0 => map[1].y \in Int /\ map[n].y \in Int
      BY <1>1
    <2>2. S = {} => ~\E i \in 1 .. n - 1 : Holds(i)
      OBVIOUS
    <2>3. Lookup(map, x) =
            IF n = 0 THEN 0 ELSE IF x <= map[1].x THEN map[1].y
            ELSE IF x >= map[n].x THEN map[n].y
            ELSE IF \E i \in 1 .. n - 1 : Holds(i)
                 THEN Interpolate(map[first], map[first + 1], x) ELSE map[n].y
      BY DEF Lookup
    <2> HIDE DEF n, S, Holds, first
    <2> QED BY <1>4, <2>1, <2>2, <2>3
  <1>5. CASE n # 0 /\ ~(x <= map[1].x) /\ ~(x >= map[n].x) /\ S # {}
    <2>1. Lookup(map, x) = Interpolate(map[first], map[first + 1], x)
      BY <1>5 DEF Lookup
    <2>2. first \in 1 .. n - 1 /\ Holds(first)
      BY <1>2, <1>5
    <2> HIDE DEF first, Holds
    <2> QED BY <1>3, <2>1, <2>2
  <1> QED BY <1>4, <1>5

LEMMA EgtLimitInt == \A rpm \in Int : EgtLimit(rpm) \in Int
  <1> SUFFICES ASSUME NEW rpm \in Int PROVE EgtLimit(rpm) \in Int
    OBVIOUS
  <1>1. EgtLimitMap \in Seq(Point)
    BY CoreAssumption
  <1>2. Lookup(EgtLimitMap, rpm) \in Int
    BY <1>1, LookupInt
  <1> QED BY <1>2, ConfigFacts DEF EgtLimit

LEMMA HottestFacts ==
  /\ HottestLimit \in Int
  /\ \A rpm \in 0 .. RpmSensorCfg.range_max : EgtLimit(rpm) <= HottestLimit
  <1> DEFINE n == RpmSensorCfg.range_max
             f == [rpm \in 0 .. n |-> EgtLimit(rpm)]
             limits == {EgtLimit(rpm) : rpm \in 0 .. n}
  <1>1. n \in Nat
    BY SensorConfigs DEF RpmSensorCfg, SensorConfig
  <1> HIDE DEF n
  <1>2. \A i \in 0 .. n : f[i] \in Int
    BY <1>1, EgtLimitInt
  <1>3. PICK i \in 0 .. n : \A j \in 0 .. n : f[j] <= f[i]
    <2> HIDE DEF f
    <2> QED BY <1>1, <1>2, HighestValue
  <1>4. f[i] \in limits /\ \A m \in limits : m <= f[i]
    BY <1>3
  <1>5. HottestLimit \in limits /\ \A m \in limits : m <= HottestLimit
    BY <1>4 DEF HottestLimit, n
  <1>6. \A m \in limits : m \in Int
    BY <1>1, EgtLimitInt
  <1> HIDE DEF f
  <1>7. \A rpm \in 0 .. n : EgtLimit(rpm) \in limits
    OBVIOUS
  <1> HIDE DEF limits
  <1> QED BY <1>5, <1>6, <1>7 DEF n

(* While the raw temperature is above every limit and no fault is raised,  *)
(* the tracked one climbs by the rate limit, and stays below the hottest   *)
(* limit.  The channel is in use once the engine has left OFF.             *)
HeatTracked ==
  /\ overtemp \in Nat
  /\ egt_sensor.initialized \/ (sm.current = "OFF" /\ overtemp = 0)
  /\ egt_sensor.initialized =>
       /\ egt_sensor.last_value \in EgtRangeMin .. EgtSensorCfg.range_max
       /\ overtemp * EgtRateLimit <= egt_sensor.last_value - EgtRangeMin
  /\ overtemp > 0 => egt_sensor.last_value <= HottestLimit

LEMMA HeatStep ==
  ASSUME TypeOK, HeatTracked, ClimbTracked, NEW in \in Inputs, NEW dt \in Dts,
         Step(in, dt), Watch(in, dt)
  PROVE  HeatTracked'
  <1> DEFINE last == egt_sensor.last_value
             last2 == egt_sensor'.last_value
  <1>1. /\ in.egt \in Int /\ egt_sensor \in SensorState
        /\ EgtSensorCfg \in SensorConfig /\ EgtSensorCfg.range_min = EgtRangeMin
        /\ EgtSensorCfg.range_min <= EgtSensorCfg.range_max
        /\ EgtSensorCfg.rate_limit = EgtRateLimit
        /\ EgtRateLimit \in Nat /\ EgtRateLimit > 0 /\ EgtRangeMin \in Int
    <2>1. EgtRateLimit \in Nat /\ EgtRateLimit > 0 /\ EgtRangeMin \in Int
      BY CoreAssumption
    <2>2. in.egt \in Int /\ egt_sensor \in SensorState
      BY ConfigFacts DEF Inputs, TypeOK
    <2>3. EgtSensorCfg.range_min = EgtRangeMin /\ EgtSensorCfg.rate_limit = EgtRateLimit
      BY DEF EgtSensorCfg
    <2> QED BY <2>1, <2>2, <2>3, SensorConfigs
  <1>2. egt_sensor' = Validate(in.egt, EgtSensorCfg, egt_sensor).state
    BY DEF Step
  <1>3. last2 \in EgtRangeMin .. EgtSensorCfg.range_max /\ egt_sensor'.initialized
    BY <1>1, <1>2, ValidateInRange DEF HeatTracked
  <1>4. CASE /\ sm.current \in Protected /\ sm'.current \in Protected
             /\ in.egt > HottestLimit
    <2>1. overtemp' = overtemp + 1 /\ overtemp \in Nat
      BY <1>4 DEF Watch, HeatTracked
    <2>2. last2 <= HottestLimit
      <3>1. rpm_sensor'.last_value \in 0 .. RpmSensorCfg.range_max
        BY ClimbStep DEF ClimbTracked
      <3>2. /\ EgtLimit(rpm_sensor'.last_value) <= HottestLimit
            /\ EgtLimit(rpm_sensor'.last_value) \in Int
        BY <3>1, HottestFacts, EgtLimitInt
      <3>3. ~(last2 > EgtLimit(rpm_sensor'.last_value))
        BY <1>4, PoweredBelowLimit
      <3> QED BY <1>1, <1>3, <3>2, <3>3, HottestFacts DEF SensorConfig
    <2>3. last2 = last + EgtRateLimit
      BY <1>1, <1>2, <1>4, <2>2, HottestFacts, ProtectionAssumption, ValidateClimb
    <2>4. egt_sensor.initialized
      BY <1>4 DEF HeatTracked, Protected
    <2>5. overtemp' * EgtRateLimit = overtemp * EgtRateLimit + EgtRateLimit
      BY <2>1, <1>1
    <2>6. overtemp * EgtRateLimit <= last - EgtRangeMin
          /\ overtemp * EgtRateLimit \in Int /\ last \in Int
      BY <1>1, <2>1, <2>4 DEF HeatTracked, SensorState
    <2>7. overtemp' * EgtRateLimit <= last2 - EgtRangeMin
      BY <2>3, <2>5, <2>6, <1>1
    <2> QED BY <1>3, <2>1, <2>2, <2>7 DEF HeatTracked
  <1>5. CASE ~(/\ sm.current \in Protected /\ sm'.current \in Protected
               /\ in.egt > HottestLimit)
    <2>1. overtemp' = 0
      BY <1>5 DEF Watch
    <2>2. overtemp' * EgtRateLimit <= last2 - EgtRangeMin
      BY <1>1, <1>3, <2>1 DEF SensorConfig
    <2> QED BY <1>3, <2>1, <2>2 DEF HeatTracked
  <1> QED BY <1>4, <1>5

(* A raw overtemperature is caught within the steps the limiter needs to   *)
(* climb from the foot of the range to the hottest limit, whatever the     *)
(* map and the speed (core/ecu_core.c:35-42, 62-79).                       *)
THEOREM MonitorOvertempCaught == MonitorSpec => []OvertempCaught
  <1>1. MonitorInit => HeatTracked
    BY DEF MonitorInit, Init, SensorInit, SmInit, HeatTracked
  <1>2. TypeOK /\ ClimbTracked /\ HeatTracked /\ [MonitorNext]_allVars => HeatTracked'
    <2> SUFFICES ASSUME TypeOK, ClimbTracked, HeatTracked, [MonitorNext]_allVars
                 PROVE  HeatTracked'
      OBVIOUS
    <2>1. CASE MonitorNext
      BY <2>1, HeatStep DEF MonitorNext
    <2>2. CASE UNCHANGED allVars
      BY <2>2 DEF allVars, vars, history, HeatTracked
    <2> QED BY <2>1, <2>2
  <1>3. TypeOK /\ HeatTracked => OvertempCaught
    <2> SUFFICES ASSUME TypeOK, HeatTracked
                 PROVE  overtemp * EgtRateLimit <= HottestLimit - EgtRangeMin
      BY DEF OvertempCaught
    <2>1. /\ EgtRateLimit \in Nat /\ EgtRangeMin \in Int /\ HottestLimit \in Int
          /\ overtemp \in Nat /\ HottestLimit >= EgtRangeMin
          /\ egt_sensor.last_value \in Int
      BY CoreAssumption, HottestFacts, ProtectionAssumption
      DEF HeatTracked, TypeOK, SensorState
    <2>2. CASE overtemp = 0
      BY <2>1, <2>2
    <2>3. CASE overtemp > 0
      <3>1. overtemp * EgtRateLimit \in Int
        BY <2>1
      <3>2. overtemp * EgtRateLimit <= egt_sensor.last_value - EgtRangeMin
        BY <2>1, <2>3 DEF HeatTracked
      <3> QED BY <2>1, <2>3, <3>1, <3>2 DEF HeatTracked
    <2> QED BY <2>1, <2>2, <2>3
  <1> QED BY <1>1, <1>2, <1>3, ClimbInvariant, MonitorIsCore, CoreTypeCorrect, PTL
          DEF MonitorSpec

(* The histories are natural numbers, and the controller stays in its      *)
(* types under observation.                                                *)
THEOREM MonitorTypeCorrect == MonitorSpec => []MonitorTypeOK
  <1>1. MonitorInit => dwell \in Nat /\ overspeed \in Nat /\ overtemp \in Nat
    BY DEF MonitorInit
  <1>2. TypeOK /\ (dwell \in Nat /\ overspeed \in Nat /\ overtemp \in Nat)
          /\ [MonitorNext]_allVars
          => (dwell \in Nat /\ overspeed \in Nat /\ overtemp \in Nat)'
    <2> SUFFICES ASSUME dwell \in Nat, overspeed \in Nat, overtemp \in Nat,
                        [MonitorNext]_allVars
                 PROVE  dwell' \in Nat /\ overspeed' \in Nat /\ overtemp' \in Nat
      OBVIOUS
    <2>1. CASE MonitorNext
      <3>1. PICK in \in Inputs, dt \in Dts : Watch(in, dt)
        BY <2>1 DEF MonitorNext
      <3>2. Ms(dt) \in Nat /\ TimeMod \in Nat
        BY ConfigFacts, TimeAssumption DEF Ms
      <3>3. Spent(Ms(dt)) \in Nat
        BY <3>2 DEF Spent
      <3> QED BY <3>1, <3>3 DEF Watch
    <2>2. CASE UNCHANGED allVars
      BY <2>2 DEF allVars, history
    <2> QED BY <2>1, <2>2
  <1>3. TypeOK /\ (dwell \in Nat /\ overspeed \in Nat /\ overtemp \in Nat)
          => MonitorTypeOK
    BY DEF MonitorTypeOK
  <1> QED BY <1>1, <1>2, <1>3, MonitorIsCore, CoreTypeCorrect, PTL DEF MonitorSpec
=============================================================================
