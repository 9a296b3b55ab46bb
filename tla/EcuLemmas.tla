----------------------------- MODULE EcuLemmas -----------------------------
(***************************************************************************)
(* Facts several proofs rest on: induction over the natural numbers, times *)
(* on the wrapping clock (core/ecu_types.h), and ecu_sensor_validate for   *)
(* every configuration, every raw sample and every channel state.          *)
(***************************************************************************)
EXTENDS EcuSensor, EcuTime, WellFoundedInduction, TLAPS

-----------------------------------------------------------------------------
(* Induction, in terms of sets, from the well-foundedness of the natural   *)
(* numbers: a set of them has a least element.                             *)

LEMMA LeastNumber ==
  ASSUME NEW S \in SUBSET Nat, S # {}
  PROVE  \E n \in S : \A m \in S : n <= m
<1> DEFINE R == OpToRel(<, Nat)
<1>1. IsWellFoundedOn(R, Nat)
  BY NatLessThanWellFounded
<1>2. \A m \in S, n \in S : m < n => <<m, n>> \in R
  BY DEF OpToRel
<1> HIDE DEF R
<1>3. PICK n \in S : \A m \in S : ~(<<m, n>> \in R)
  BY <1>1, WFMin
<1>4. \A m \in S : ~(m < n)
  BY <1>2, <1>3, Zenon
<1>5. \A m \in S : m \in Nat
  OBVIOUS
<1> QED BY <1>4, <1>5

LEMMA Inductive ==
  ASSUME NEW S, 0 \in S, \A n \in Nat : n \in S => n + 1 \in S
  PROVE  Nat \subseteq S
<1> DEFINE T == Nat \ S
<1> SUFFICES ASSUME T # {} PROVE FALSE
  OBVIOUS
<1>1. PICK n \in T : \A m \in T : n <= m
  BY LeastNumber
<1>2. n - 1 \in Nat /\ n - 1 \notin T
  BY <1>1
<1> QED BY <1>1, <1>2

(* A finite table of integers has a highest entry.                         *)
LEMMA HighestValue ==
  ASSUME NEW n \in Nat, NEW f, \A i \in 0 .. n : f[i] \in Int
  PROVE  \E i \in 0 .. n : \A j \in 0 .. n : f[j] <= f[i]
<1> DEFINE S == {k \in Nat : k <= n => \E i \in 0 .. k : \A j \in 0 .. k : f[j] <= f[i]}
<1>1. 0 \in S
  OBVIOUS
<1>2. ASSUME NEW k \in Nat, k \in S PROVE k + 1 \in S
  <2> SUFFICES ASSUME k + 1 <= n
               PROVE  \E i \in 0 .. k + 1 : \A j \in 0 .. k + 1 : f[j] <= f[i]
    OBVIOUS
  <2>1. PICK i \in 0 .. k : \A j \in 0 .. k : f[j] <= f[i]
    BY <1>2
  <2>2. 0 .. k + 1 = (0 .. k) \cup {k + 1}
    BY <1>2
  <2>3. CASE f[k + 1] <= f[i]
    BY <2>1, <2>2, <2>3
  <2>4. CASE ~(f[k + 1] <= f[i])
    BY <2>1, <2>2, <2>4
  <2> QED BY <2>3, <2>4
<1> HIDE DEF S
<1>3. n \in S
  BY <1>1, <1>2, Inductive
<1> QED BY <1>3 DEF S

-----------------------------------------------------------------------------
(* The clock.                                                              *)

LEMMA ClockFacts ==
  /\ TimeMod \in Nat \ {0} /\ 0 \in Time /\ Time \subseteq Nat
  /\ \A t \in Time, d \in Nat : After(t, d) \in Time
  /\ \A t, u \in Time : Elapsed(t, u) \in Time
  /\ \A t \in Time : Elapsed(t, t) = 0
<1>1. TimeMod \in Nat \ {0}
  BY TimeAssumption
<1>2. \A n \in Int : n % TimeMod \in 0 .. TimeMod - 1
  BY <1>1
<1> QED BY <1>1, <1>2 DEF Time, After, Elapsed

(* Less than a turn of the clock adds up.                                  *)
LEMMA ElapsedAdds ==
  ASSUME NEW t \in Time, NEW since \in Time, NEW d \in Nat,
         Elapsed(t, since) + d < TimeMod
  PROVE  Elapsed(After(t, d), since) = Elapsed(t, since) + d
<1>1. TimeMod \in Nat \ {0} /\ t \in 0 .. TimeMod - 1 /\ since \in 0 .. TimeMod - 1
  BY ClockFacts DEF Time
<1>2. Elapsed(t, since) = IF t >= since THEN t - since ELSE t - since + TimeMod
  BY <1>1 DEF Elapsed
<1>3. d < TimeMod /\ t + d < 2 * TimeMod
  BY <1>1, <1>2
<1>4. After(t, d) = IF t + d < TimeMod THEN t + d ELSE t + d - TimeMod
  BY <1>1, <1>3 DEF After
<1> DEFINE u == After(t, d)
<1>5. u \in 0 .. TimeMod - 1
  BY <1>1, <1>3, <1>4
<1>6. Elapsed(u, since) = IF u >= since THEN u - since ELSE u - since + TimeMod
  <2> HIDE DEF u
  <2> QED BY <1>1, <1>5 DEF Elapsed
<1> QED BY <1>1, <1>2, <1>3, <1>4, <1>6

LEMMA ElapsedChain ==
  ASSUME NEW t \in Time, NEW u \in Time, NEW v \in Time,
         Elapsed(t, u) + Elapsed(u, v) < TimeMod
  PROVE  Elapsed(t, v) = Elapsed(t, u) + Elapsed(u, v)
<1>1. /\ TimeMod \in Nat \ {0} /\ t \in 0 .. TimeMod - 1
      /\ u \in 0 .. TimeMod - 1 /\ v \in 0 .. TimeMod - 1
  BY ClockFacts DEF Time
<1>2. /\ Elapsed(t, u) = IF t >= u THEN t - u ELSE t - u + TimeMod
      /\ Elapsed(u, v) = IF u >= v THEN u - v ELSE u - v + TimeMod
      /\ Elapsed(t, v) = IF t >= v THEN t - v ELSE t - v + TimeMod
  BY <1>1 DEF Elapsed
<1> QED BY <1>1, <1>2

-----------------------------------------------------------------------------
(* Sensor validation.                                                      *)

USE DEF Magnitude

LEMMA ClampInRange ==
  ASSUME NEW val \in Int, NEW lo \in Int, NEW hi \in Int, lo <= hi
  PROVE  Clamp(val, lo, hi) \in lo .. hi
  BY DEF Clamp

(* Following a target inside the range from inside the range stays inside, *)
(* moves by no more than the limit and never overshoots the target.        *)
LEMMA RateLimitedFacts ==
  ASSUME NEW cfg \in SensorConfig, NEW val \in Int, NEW last \in Int
  PROVE  /\ RateLimited(val, cfg, last) \in Int
         /\ cfg.rate_limit > 0 =>
              /\ RateLimited(val, cfg, last) - last \in -cfg.rate_limit .. cfg.rate_limit
              /\ val <= last => RateLimited(val, cfg, last) \in val .. last
              /\ val >= last => RateLimited(val, cfg, last) \in last .. val
         /\ cfg.rate_limit <= 0 => RateLimited(val, cfg, last) = val
  BY DEF RateLimited, RateExceeded, SensorConfig

LEMMA StuckCountInt ==
  ASSUME NEW cfg \in SensorConfig, NEW val \in Int, NEW st \in SensorState
  PROVE  StuckCount(val, cfg, st) \in Int
  BY CounterAssumption DEF StuckCount, Increment, SensorConfig, SensorState

(* The value is within the range if the state was, or was never set.       *)
LEMMA ValidateInRange ==
  ASSUME NEW cfg \in SensorConfig, cfg.range_min <= cfg.range_max,
         NEW raw \in Int, NEW st \in SensorState,
         st.initialized => st.last_value \in cfg.range_min .. cfg.range_max
  PROVE  LET v == Validate(raw, cfg, st)
         IN /\ v.reading.value \in cfg.range_min .. cfg.range_max
            /\ v.state.last_value = v.reading.value
            /\ v.state.initialized
  <1> DEFINE ranged == Clamp(raw, cfg.range_min, cfg.range_max)
             value  == IF st.initialized
                       THEN RateLimited(ranged, cfg, st.last_value) ELSE ranged
  <1>1. /\ cfg.range_min \in Int /\ cfg.range_max \in Int /\ cfg.rate_limit \in Int
        /\ st.last_value \in Int /\ st.initialized \in BOOLEAN
    BY DEF SensorConfig, SensorState
  <1>2. ranged \in cfg.range_min .. cfg.range_max
    BY <1>1, ClampInRange
  <1>3. value \in cfg.range_min .. cfg.range_max
    <2>1. CASE st.initialized
      BY <1>1, <1>2, <2>1, RateLimitedFacts
    <2>2. CASE ~st.initialized
      BY <1>2, <2>2
    <2> QED BY <2>1, <2>2
  <1> QED BY <1>3 DEF Validate

(* A channel in use moves by no more than the rate limit.                  *)
LEMMA ValidateSlew ==
  ASSUME NEW cfg \in SensorConfig, cfg.range_min <= cfg.range_max,
         cfg.rate_limit > 0, NEW raw \in Int, NEW st \in SensorState, st.initialized
  PROVE  Validate(raw, cfg, st).reading.value - st.last_value
           \in -cfg.rate_limit .. cfg.rate_limit
  <1>1. Clamp(raw, cfg.range_min, cfg.range_max) \in Int /\ st.last_value \in Int
    BY ClampInRange DEF SensorConfig, SensorState
  <1> QED BY <1>1, RateLimitedFacts DEF Validate

LEMMA ValidateType ==
  ASSUME NEW cfg \in SensorConfig, cfg.range_min <= cfg.range_max,
         NEW raw \in Int, NEW st \in SensorState
  PROVE  /\ Validate(raw, cfg, st).reading \in Reading
         /\ Validate(raw, cfg, st).state \in SensorState
  <1> DEFINE ranged == Clamp(raw, cfg.range_min, cfg.range_max)
             value  == IF st.initialized
                       THEN RateLimited(ranged, cfg, st.last_value) ELSE ranged
             count  == IF st.initialized THEN StuckCount(value, cfg, st) ELSE 0
  <1>1. ranged \in Int
    BY ClampInRange DEF SensorConfig
  <1>2. value \in Int
    BY <1>1, RateLimitedFacts DEF SensorState
  <1>3. count \in Int
    BY <1>2, StuckCountInt
  <1> HIDE DEF value, count
  <1>4. Validate(raw, cfg, st).state
          = [last_value |-> value, stuck_count |-> count, initialized |-> TRUE]
    BY DEF Validate, value, count
  <1>5. Validate(raw, cfg, st).state \in SensorState
    BY <1>2, <1>3, <1>4 DEF SensorState
  <1>6. /\ Validate(raw, cfg, st).reading.raw = raw
        /\ Validate(raw, cfg, st).reading.value = value
        /\ Validate(raw, cfg, st).reading.valid \in BOOLEAN
        /\ Validate(raw, cfg, st).reading.faults \in SUBSET SensorFaults
        /\ Validate(raw, cfg, st).reading \in
             [raw : {raw}, value : {value}, valid : BOOLEAN, faults : SUBSET SensorFaults]
    BY DEF Validate, value, SensorFaults
  <1>7. Validate(raw, cfg, st).reading \in Reading
    BY <1>2, <1>6 DEF Reading
  <1> QED BY <1>5, <1>7

LEMMA ValidateStuckCount ==
  ASSUME NEW cfg \in SensorConfig, NEW raw \in Int, NEW st \in SensorState,
         cfg.range_min <= cfg.range_max, st.stuck_count <= StuckCap
  PROVE  Validate(raw, cfg, st).state.stuck_count <= StuckCap
  <1> DEFINE ranged == Clamp(raw, cfg.range_min, cfg.range_max)
             value  == IF st.initialized
                       THEN RateLimited(ranged, cfg, st.last_value) ELSE ranged
             count  == IF st.initialized THEN StuckCount(value, cfg, st) ELSE 0
  <1>0. ranged \in Int
    BY ClampInRange DEF SensorConfig
  <1>1. value \in Int
    BY <1>0, RateLimitedFacts DEF SensorState
  <1> HIDE DEF value
  <1>2. count <= StuckCap
    BY <1>1, CounterAssumption DEF StuckCount, Increment, SensorConfig, SensorState
  <1>3. Validate(raw, cfg, st).state.stuck_count = count
    BY DEF Validate, value
  <1> QED BY <1>2, <1>3

(* A sample above a level within the range that is reported at or below it *)
(* was slewed up by the whole limit.                                       *)
LEMMA ValidateClimb ==
  ASSUME NEW cfg \in SensorConfig, cfg.range_min <= cfg.range_max, cfg.rate_limit > 0,
         NEW raw \in Int, NEW st \in SensorState, NEW level \in Int,
         raw > level, cfg.range_max > level,
         Validate(raw, cfg, st).state.last_value <= level
  PROVE  Validate(raw, cfg, st).state.last_value = st.last_value + cfg.rate_limit
  <1> DEFINE ranged == Clamp(raw, cfg.range_min, cfg.range_max)
  <1>1. /\ cfg.range_min \in Int /\ cfg.range_max \in Int /\ cfg.rate_limit \in Int
        /\ st.last_value \in Int
    BY DEF SensorConfig, SensorState
  <1>2. ranged \in Int /\ ranged > level
    BY <1>1 DEF Clamp
  <1>3. st.initialized /\ RateLimited(ranged, cfg, st.last_value) <= level
    BY <1>2, <1>1 DEF Validate
  <1>4. RateLimited(ranged, cfg, st.last_value) = st.last_value + cfg.rate_limit
    BY <1>1, <1>2, <1>3 DEF RateLimited, RateExceeded
  <1> QED BY <1>3, <1>4 DEF Validate
=============================================================================
