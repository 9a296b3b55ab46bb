-------------------------- MODULE EcuSensorChannel --------------------------
(***************************************************************************)
(* One sensor channel in use: a caller feeds raw samples, one at a time,   *)
(* to ecu_sensor_validate (core/ecu_sensor.c) and keeps its state.         *)
(***************************************************************************)
EXTENDS EcuSensor, Sequences

CONSTANTS
  Cfg,        \* the channel's configuration
  Raw,        \* the raw samples the converter may produce
  HeldBound   \* the model counts repeated samples up to this many

ASSUME ChannelAssumption ==
  /\ Cfg \in SensorConfig
  /\ Cfg.range_min <= Cfg.range_max /\ Cfg.stuck_count_limit >= 0
  /\ Raw \subseteq Int
  /\ HeldBound \in Nat \ {0}

VARIABLES
  state,      \* ecu_sensor_state_t
  reading,    \* the last ecu_sensor_reading_t returned
  (* History variables, read by the properties only.                       *)
  held,       \* samples in a row equal to the last one, up to HeldBound
  quiet       \* for each of the last samples: did the value hardly move?

channelVars == <<state, reading, held, quiet>>

ChannelInit ==
  /\ state = SensorInit
  /\ reading = [raw |-> 0, value |-> 0, valid |-> TRUE, faults |-> {}]
  /\ held = 0
  /\ quiet = <<>>

(* The history a sample leaves: quiet keeps one entry per compared sample  *)
(* and forgets all but the last stuck_count_limit.                         *)
Observe(raw, value) ==
  LET still == Magnitude(value - state.last_value) < Cfg.stuck_tolerance
      long  == IF state.initialized THEN Append(quiet, still) ELSE quiet
  IN /\ held' = IF state.initialized /\ raw = reading.raw
                THEN IF held < HeldBound THEN held + 1 ELSE held
                ELSE 1
     /\ quiet' = IF Len(long) > Cfg.stuck_count_limit THEN Tail(long) ELSE long

Sample(raw) ==
  LET result == Validate(raw, Cfg, state)
  IN /\ state' = result.state
     /\ reading' = result.reading
     /\ Observe(raw, result.reading.value)

ChannelNext == \E raw \in Raw : Sample(raw)

ChannelSpec == ChannelInit /\ [][ChannelNext]_channelVars

-----------------------------------------------------------------------------
(* Properties.                                                             *)

ChannelTypeOK ==
  /\ state \in SensorState /\ state.stuck_count <= StuckCap
  /\ reading \in Reading
  /\ held \in 0 .. HeldBound
  /\ quiet \in Seq(BOOLEAN)

(* Once a sample has been taken the tracked value never leaves the         *)
(* channel's range, whatever the raw samples do: slewing at the rate limit *)
(* from inside the range towards a clamped target cannot overshoot it.     *)
TrackedInRange ==
  state.initialized => state.last_value \in Cfg.range_min .. Cfg.range_max

(* The value handed to the control loop never moves by more than the rate  *)
(* limit from one sample to the next, through range clamping and slewing.  *)
SlewBounded ==
  [][state.initialized /\ Cfg.rate_limit > 0 =>
       Magnitude(reading'.value - state.last_value) <= Cfg.rate_limit]_channelVars

(* A raw sample is never replaced by another value without a fault flag    *)
(* that says so, the flags surviving the checks that follow them.          *)
NoSilentAlteration ==
  reading.value # reading.raw => reading.faults \cap {"RANGE", "RATE"} # {}

(* Slewing terminates: an in-range sample repeated often enough for the    *)
(* limiter to cross the whole range is reported as it is.                  *)
ConvergesToHeldSample ==
  (/\ held * Cfg.rate_limit >= Cfg.range_max - Cfg.range_min
   /\ ~OutOfRange(reading.raw, Cfg))
  => reading.value = reading.raw

(* A reading is flagged stuck exactly when each of the last                *)
(* stuck_count_limit comparisons found a change below the tolerance: the   *)
(* counter is a faithful summary of that window.                           *)
WindowQuiet ==
  Len(quiet) = Cfg.stuck_count_limit /\ \A i \in DOMAIN quiet : quiet[i]

StuckIsQuietWindow ==
  Cfg.stuck_count_limit > 0 => ("STUCK" \in reading.faults <=> WindowQuiet)
=============================================================================
