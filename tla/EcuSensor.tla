----------------------------- MODULE EcuSensor -----------------------------
(***************************************************************************)
(* Validation of one sensor channel (core/ecu_sensor.c).  A raw sample     *)
(* goes through a range check, a rate-of-change check and a stuck-at       *)
(* check; the state kept between samples is the last validated value and   *)
(* the number of consecutive samples that hardly moved.                    *)
(*                                                                         *)
(* Readings are integers: the float values of the code on a grid chosen    *)
(* by the model, together with the limits they are compared with.          *)
(***************************************************************************)
EXTENDS Integers

CONSTANTS
  StuckCap,   \* greatest value of the stuck_count the model distinguishes
  AfterCap    \* what stuck_count++ yields at StuckCap

(* With StuckCap = INT_MAX and AfterCap = INT_MIN the counter is the       *)
(* wrapping int of the build; with AfterCap = StuckCap it is the counter   *)
(* of a run too short to overflow it, large counts being identified.       *)
ASSUME CounterAssumption ==
  StuckCap \in Nat /\ AfterCap \in Int /\ AfterCap <= StuckCap

SensorFaults == {"RANGE", "RATE", "STUCK"}

SensorConfig ==
  [range_min : Int, range_max : Int, rate_limit : Int,
   stuck_tolerance : Int, stuck_count_limit : Int]

SensorState == [last_value : Int, stuck_count : Int, initialized : BOOLEAN]

Reading == [raw : Int, value : Int, valid : BOOLEAN, faults : SUBSET SensorFaults]

SensorInit == [last_value |-> 0, stuck_count |-> 0, initialized |-> FALSE]

Clamp(val, lo, hi) ==
  IF val < lo THEN lo ELSE IF val > hi THEN hi ELSE val

Magnitude(x) == IF x < 0 THEN -x ELSE x

-----------------------------------------------------------------------------
(* The checks.                                                             *)

(* The operators called ...Faulty, here and in the other modules, are      *)
(* plausible mistakes in the definition that follows them.  No              *)
(* specification uses them: they show that the properties can tell.        *)
OutOfRangeFaulty(val, cfg) == val > cfg.range_max

OutOfRange(val, cfg) == val < cfg.range_min \/ val > cfg.range_max

RateExceededFaulty(val, cfg, last) ==
  cfg.rate_limit > 0 /\ val - last > cfg.rate_limit

RateExceeded(val, cfg, last) ==
  cfg.rate_limit > 0 /\ Magnitude(val - last) > cfg.rate_limit

RateHeldFaulty(val, cfg, last) ==
  IF ~RateExceeded(val, cfg, last) THEN val ELSE last

(* A change faster than the limit is followed at the limit.                *)
RateLimited(val, cfg, last) ==
  IF ~RateExceeded(val, cfg, last) THEN val
  ELSE IF val > last THEN last + cfg.rate_limit
  ELSE last - cfg.rate_limit

Increment(count) == IF count = StuckCap THEN AfterCap ELSE count + 1

StuckCountFaulty(val, cfg, st) ==
  IF /\ cfg.stuck_count_limit > 0
     /\ Magnitude(val - st.last_value) < cfg.stuck_tolerance
  THEN Increment(st.stuck_count) ELSE st.stuck_count

StuckCount(val, cfg, st) ==
  IF cfg.stuck_count_limit <= 0 THEN st.stuck_count
  ELSE IF Magnitude(val - st.last_value) < cfg.stuck_tolerance
       THEN Increment(st.stuck_count)
       ELSE 0

Stuck(count, cfg) == cfg.stuck_count_limit > 0 /\ count >= cfg.stuck_count_limit

(* ecu_sensor_validate: the first sample after init is only range checked. *)
Validate(raw, cfg, st) ==
  LET ranged == Clamp(raw, cfg.range_min, cfg.range_max)
      range  == IF OutOfRange(raw, cfg) THEN {"RANGE"} ELSE {}
      value  == IF st.initialized
                THEN RateLimited(ranged, cfg, st.last_value) ELSE ranged
      rate   == IF st.initialized /\ RateExceeded(ranged, cfg, st.last_value)
                THEN {"RATE"} ELSE {}
      count  == IF st.initialized THEN StuckCount(value, cfg, st) ELSE 0
      stuck  == IF st.initialized /\ Stuck(count, cfg) THEN {"STUCK"} ELSE {}
  IN [reading |-> [raw    |-> raw,
                   value  |-> value,
                   valid  |-> range \cup stuck = {},
                   faults |-> range \cup rate \cup stuck],
      state   |-> [last_value  |-> value,
                   stuck_count |-> count,
                   initialized |-> TRUE]]
=============================================================================
