-------------------------- MODULE EcuSensorProofs --------------------------
(***************************************************************************)
(* The safety of one sensor channel in use, proved for every configuration *)
(* and every set of raw samples.                                           *)
(***************************************************************************)
EXTENDS EcuSensorChannel, EcuLemmas, SequenceTheorems

USE DEF Magnitude

(* The channel.                                                            *)

LEMMA Setting ==
  /\ Cfg \in SensorConfig /\ Cfg.range_min <= Cfg.range_max
  /\ Cfg.range_min \in Int /\ Cfg.range_max \in Int /\ Cfg.rate_limit \in Int
  /\ Cfg.stuck_count_limit \in Nat
  /\ Raw \subseteq Int
  BY ChannelAssumption DEF SensorConfig

LEMMA QuietType ==
  ASSUME ChannelTypeOK, NEW still \in BOOLEAN, NEW long,
         long = IF state.initialized THEN Append(quiet, still) ELSE quiet
  PROVE  (IF Len(long) > Cfg.stuck_count_limit THEN Tail(long) ELSE long) \in Seq(BOOLEAN)
  <1>1. long \in Seq(BOOLEAN)
    BY AppendProperties DEF ChannelTypeOK
  <1>2. CASE Len(long) > Cfg.stuck_count_limit
    <2>1. long # <<>>
      BY <1>1, <1>2, Setting
    <2> QED BY <1>1, <1>2, <2>1, HeadTailProperties
  <1>3. CASE ~(Len(long) > Cfg.stuck_count_limit)
    BY <1>1, <1>3
  <1> QED BY <1>2, <1>3

(* The variables keep their types, stuck_count within its counter.         *)
THEOREM ChannelTypeCorrect == ChannelSpec => []ChannelTypeOK
  <1>1. ChannelInit => ChannelTypeOK
    BY ChannelAssumption, CounterAssumption
    DEF ChannelInit, ChannelTypeOK, SensorInit, SensorState, Reading
  <1>2. ChannelTypeOK /\ [ChannelNext]_channelVars => ChannelTypeOK'
    <2> SUFFICES ASSUME ChannelTypeOK, [ChannelNext]_channelVars PROVE ChannelTypeOK'
      OBVIOUS
    <2>1. ASSUME NEW raw \in Raw, Sample(raw) PROVE ChannelTypeOK'
      <3>1. raw \in Int /\ state \in SensorState /\ state.stuck_count <= StuckCap
        BY Setting DEF ChannelTypeOK
      <3>2. state' \in SensorState /\ reading' \in Reading
        BY <2>1, <3>1, Setting, ValidateType DEF Sample
      <3>3. state'.stuck_count <= StuckCap
        BY <2>1, <3>1, Setting, ValidateStuckCount DEF Sample
      <3>4. held' \in 0 .. HeldBound
        BY <2>1, ChannelAssumption DEF Sample, Observe, ChannelTypeOK
      <3> DEFINE still == Magnitude(Validate(raw, Cfg, state).reading.value - state.last_value)
                            < Cfg.stuck_tolerance
                 long  == IF state.initialized THEN Append(quiet, still) ELSE quiet
      <3>5. quiet' = IF Len(long) > Cfg.stuck_count_limit THEN Tail(long) ELSE long
        BY <2>1 DEF Sample, Observe
      <3>6. still \in BOOLEAN
        OBVIOUS
      <3> HIDE DEF still
      <3>7. quiet' \in Seq(BOOLEAN)
        BY <3>5, <3>6, QuietType
      <3> QED BY <3>2, <3>3, <3>4, <3>7 DEF ChannelTypeOK
    <2>2. CASE UNCHANGED channelVars
      BY <2>2 DEF channelVars, ChannelTypeOK
    <2> QED BY <2>1, <2>2 DEF ChannelNext
  <1> QED BY <1>1, <1>2, PTL DEF ChannelSpec

(* What a sample of a channel whose tracked value is in range does.        *)
LEMMA SampleInRange ==
  ASSUME ChannelTypeOK, TrackedInRange, NEW raw \in Raw, Sample(raw)
  PROVE  /\ reading'.raw = raw
         /\ reading'.value = state'.last_value
         /\ state'.initialized
         /\ state'.last_value \in Cfg.range_min .. Cfg.range_max
  <1>1. raw \in Int /\ state \in SensorState
    BY Setting DEF ChannelTypeOK
  <1>2. reading'.raw = raw
    BY DEF Sample, Validate
  <1> QED BY <1>1, <1>2, Setting, ValidateInRange DEF Sample, TrackedInRange

(* The tracked value never leaves the range.                               *)
THEOREM ChannelInRange == ChannelSpec => []TrackedInRange
  <1>1. ChannelInit => TrackedInRange
    BY DEF ChannelInit, TrackedInRange, SensorInit
  <1>2. ChannelTypeOK /\ TrackedInRange /\ [ChannelNext]_channelVars => TrackedInRange'
    BY SampleInRange DEF ChannelNext, channelVars, TrackedInRange
  <1> QED BY <1>1, <1>2, ChannelTypeCorrect, PTL DEF ChannelSpec

(* The value handed to the control loop never jumps.                       *)
THEOREM ChannelSlewBounded == ChannelSpec => SlewBounded
  <1> DEFINE Slew == state.initialized /\ Cfg.rate_limit > 0 =>
                       Magnitude(reading'.value - state.last_value) <= Cfg.rate_limit
  <1>1. ChannelTypeOK /\ [ChannelNext]_channelVars => [Slew]_channelVars
    <2> SUFFICES ASSUME ChannelTypeOK, NEW raw \in Raw, Sample(raw),
                        state.initialized, Cfg.rate_limit > 0
                 PROVE  Magnitude(reading'.value - state.last_value) <= Cfg.rate_limit
      BY DEF ChannelNext
    <2>1. raw \in Int /\ state \in SensorState /\ Validate(raw, Cfg, state).reading \in Reading
      BY Setting, ValidateType DEF ChannelTypeOK
    <2>2. reading'.value - state.last_value \in -Cfg.rate_limit .. Cfg.rate_limit
      BY <2>1, Setting, ValidateSlew DEF Sample
    <2> QED BY <2>2, Setting
  <1> QED BY <1>1, ChannelTypeCorrect, PTL DEF ChannelSpec, SlewBounded

(* A value that differs from its raw sample was flagged.                   *)
THEOREM ChannelNoSilentAlteration == ChannelSpec => []NoSilentAlteration
  <1>1. ChannelInit => NoSilentAlteration
    BY DEF ChannelInit, NoSilentAlteration
  <1>2. ChannelTypeOK /\ NoSilentAlteration /\ [ChannelNext]_channelVars => NoSilentAlteration'
    <2>1. ASSUME ChannelTypeOK, NEW raw \in Raw, Sample(raw), reading'.value # raw
          PROVE  reading'.faults \cap {"RANGE", "RATE"} # {}
      <3>1. CASE OutOfRange(raw, Cfg)
        BY <2>1, <3>1 DEF Sample, Validate
      <3>2. CASE ~OutOfRange(raw, Cfg)
        <4>1. Clamp(raw, Cfg.range_min, Cfg.range_max) = raw
          BY <3>2, Setting DEF OutOfRange, Clamp
        <4>2. state.initialized /\ RateExceeded(raw, Cfg, state.last_value)
          BY <2>1, <4>1 DEF Sample, Validate, RateLimited
        <4> QED BY <2>1, <4>1, <4>2 DEF Sample, Validate
      <3> QED BY <3>1, <3>2
    <2>2. ASSUME NEW raw \in Raw, Sample(raw) PROVE reading'.raw = raw
      BY <2>2 DEF Sample, Validate
    <2> QED BY <2>1, <2>2 DEF ChannelNext, channelVars, NoSilentAlteration
  <1> QED BY <1>1, <1>2, ChannelTypeCorrect, PTL DEF ChannelSpec

-----------------------------------------------------------------------------
(* Convergence.  The distance still to slew shrinks by the rate limit with *)
(* every repetition of an in-range sample: what held samples have covered  *)
(* and what is left fit within the range.                                  *)
Span == Cfg.range_max - Cfg.range_min

Slewing ==
  ~OutOfRange(reading.raw, Cfg) =>
    \/ reading.value = reading.raw
    \/ /\ state.initialized /\ Cfg.rate_limit > 0
       /\ Magnitude(reading.value - reading.raw) + held * Cfg.rate_limit <= Span

(* One slewing step from a distance d leaves nothing or d less the limit.  *)
LEMMA SlewStep ==
  ASSUME NEW cfg \in SensorConfig, cfg.rate_limit > 0,
         NEW val \in Int, NEW last \in Int
  PROVE  \/ RateLimited(val, cfg, last) = val
         \/ Magnitude(RateLimited(val, cfg, last) - val)
              = Magnitude(last - val) - cfg.rate_limit
  BY DEF RateLimited, RateExceeded, SensorConfig

LEMMA SlewingStep ==
  ASSUME ChannelTypeOK, TrackedInRange, Slewing, NEW raw \in Raw, Sample(raw),
         state.initialized => reading.value = state.last_value
  PROVE  Slewing'
  <1> DEFINE r == Cfg.rate_limit
             last == state.last_value
             value == reading'.value
  <1> SUFFICES ASSUME ~OutOfRange(raw, Cfg), value # raw
               PROVE  /\ state'.initialized /\ r > 0
                      /\ Magnitude(value - raw) + held' * r <= Span
    BY SampleInRange DEF Slewing, Span
  <1>1. raw \in Int /\ last \in Int /\ r \in Int /\ Span \in Int
    BY Setting DEF ChannelTypeOK, SensorState, Span
  <1>2. raw \in Cfg.range_min .. Cfg.range_max
    BY <1>1, Setting DEF OutOfRange
  <1>3. Clamp(raw, Cfg.range_min, Cfg.range_max) = raw
    BY <1>2, Setting DEF Clamp
  <1>4. state.initialized /\ value = RateLimited(raw, Cfg, last)
    BY <1>3 DEF Sample, Validate
  <1>5. r > 0
    BY <1>1, <1>4, Setting, RateLimitedFacts
  <1>6. Magnitude(value - raw) = Magnitude(last - raw) - r
    BY <1>1, <1>4, <1>5, Setting, SlewStep
  <1>7. last \in Cfg.range_min .. Cfg.range_max
    BY <1>4 DEF TrackedInRange
  <1>8. Magnitude(last - raw) <= Span
    BY <1>2, <1>7, Setting DEF Span
  <1>9. value \in Int
    BY <1>1, <1>4, Setting, RateLimitedFacts
  <1>10. Magnitude(value - raw) + held' * r <= Span
    <2>1. CASE raw = reading.raw
      <3>1. Magnitude(last - raw) + held * r <= Span
        BY <1>4, <1>6, <1>9, <1>1, <1>5, <2>1 DEF Slewing
      <3>2. held' \in {held, held + 1} /\ held \in Int
        BY <1>4, <2>1 DEF Sample, Observe, ChannelTypeOK
      <3>3. held' * r <= held * r + r
        BY <3>2, <1>1, <1>5
      <3>4. held' * r \in Int /\ held * r \in Int
        BY <3>2, <1>1
      <3> HIDE DEF r, last, value
      <3> QED BY <3>1, <3>3, <3>4, <1>1, <1>6, <1>9
    <2>2. CASE raw # reading.raw
      <3>1. held' = 1
        BY <2>2 DEF Sample, Observe
      <3> QED BY <3>1, <1>6, <1>8, <1>1
    <2> QED BY <2>1, <2>2
  <1>11. state'.initialized
    BY DEF Sample, Validate
  <1> QED BY <1>5, <1>10, <1>11

(* An in-range sample held long enough is reported as it is.               *)
THEOREM ChannelConverges == ChannelSpec => []ConvergesToHeldSample
  <1> DEFINE Reported == state.initialized => reading.value = state.last_value
             IInv == Reported /\ Slewing
  <1>1. ChannelInit => IInv
    BY DEF ChannelInit, SensorInit, Slewing
  <1>2. ChannelTypeOK /\ TrackedInRange /\ IInv /\ [ChannelNext]_channelVars => IInv'
    <2> SUFFICES ASSUME ChannelTypeOK, TrackedInRange, IInv, [ChannelNext]_channelVars PROVE IInv'
      OBVIOUS
    <2>1. ASSUME NEW raw \in Raw, Sample(raw) PROVE IInv'
      BY <2>1, SampleInRange, SlewingStep
    <2>2. CASE UNCHANGED channelVars
      BY <2>2 DEF channelVars, Slewing, Span
    <2> QED BY <2>1, <2>2 DEF ChannelNext
  <1>3. ChannelTypeOK /\ IInv => ConvergesToHeldSample
    <2> SUFFICES ASSUME ChannelTypeOK, Slewing, ~OutOfRange(reading.raw, Cfg),
                        held * Cfg.rate_limit >= Span, reading.value # reading.raw
                 PROVE  FALSE
      BY DEF ConvergesToHeldSample, Span
    <2>1. /\ Magnitude(reading.value - reading.raw) > 0
          /\ Magnitude(reading.value - reading.raw) \in Int
      BY DEF ChannelTypeOK, Reading
    <2>2. held * Cfg.rate_limit \in Int /\ Span \in Int
      BY Setting DEF ChannelTypeOK, Span
    <2> QED BY <2>1, <2>2 DEF Slewing
  <1> QED BY <1>1, <1>2, <1>3, ChannelTypeCorrect, ChannelInRange, PTL DEF ChannelSpec

-----------------------------------------------------------------------------
(* The stuck counter.  While it does not wrap, it is the number of samples *)
(* that hardly moved at the end of the window, up to the window's length.  *)
Limit == Cfg.stuck_count_limit

Trailing == IF state.stuck_count < Limit THEN state.stuck_count ELSE Limit

CountsQuiet ==
  /\ state.stuck_count >= 0 /\ Len(quiet) <= Limit
  /\ ~state.initialized => quiet = <<>> /\ state.stuck_count = 0
  /\ "STUCK" \in reading.faults <=> state.initialized /\ state.stuck_count >= Limit
  /\ Trailing <= Len(quiet)
  /\ \A i \in Len(quiet) - Trailing + 1 .. Len(quiet) : quiet[i]
  /\ Trailing < Limit => Trailing = Len(quiet) \/ ~quiet[Len(quiet) - Trailing]

(* What a sample of an initialized channel makes of the window: it drops   *)
(* the d oldest comparisons.                                               *)
Window(still) ==
  IF Len(Append(quiet, still)) > Limit THEN Tail(Append(quiet, still))
  ELSE Append(quiet, still)

LEMMA WindowMoves ==
  ASSUME ChannelTypeOK, Len(quiet) <= Limit, NEW still \in BOOLEAN
  PROVE  \E d \in {0, 1} :
           /\ d = 1 <=> Len(quiet) = Limit
           /\ Len(Window(still)) = Len(quiet) + 1 - d
           /\ \A i \in 1 .. Len(quiet) - d : Window(still)[i] = quiet[i + d]
           /\ Window(still)[Len(quiet) + 1 - d] = still \/ Len(Window(still)) = 0
  <1> DEFINE long == Append(quiet, still)
             window == Window(still)
             n == Len(quiet)
  <1>1. n \in Nat /\ Limit \in Nat /\ quiet \in Seq(BOOLEAN)
    BY Setting, LenProperties DEF ChannelTypeOK, Limit
  <1>2. /\ long \in Seq(BOOLEAN) /\ Len(long) = n + 1 /\ long[n + 1] = still
        /\ \A i \in 1 .. n : long[i] = quiet[i]
    BY <1>1, AppendProperties
  <1> HIDE DEF long, n, window
  <1>3. CASE n + 1 > Limit
    <2>1. long # <<>>
      BY <1>1, <1>2
    <2>2. window = Tail(long) /\ n = Limit
      BY <1>1, <1>2, <1>3 DEF long, n, window, Window
    <2>3. Len(Tail(long)) = n /\ \A i \in 1 .. n : Tail(long)[i] = long[i + 1]
      BY <1>1, <1>2, <2>1, HeadTailProperties
    <2>4. ASSUME NEW i \in 1 .. n - 1 PROVE window[i] = quiet[i + 1]
      <3>1. i \in 1 .. n /\ i + 1 \in 1 .. n
        BY <1>1
      <3> QED BY <1>2, <2>2, <2>3, <3>1
    <2>5. n = 0 \/ window[n] = still
      BY <1>1, <1>2, <2>2, <2>3
    <2>6. Len(window) = n + 1 - 1 /\ n + 1 - 1 = n
      BY <1>1, <2>2, <2>3
    <2>7. window[n + 1 - 1] = still \/ Len(window) = 0
      BY <2>5, <2>6
    <2> QED BY <2>2, <2>4, <2>6, <2>7 DEF n, window
  <1>4. CASE ~(n + 1 > Limit)
    <2>1. window = long /\ n # Limit
      BY <1>1, <1>2, <1>4 DEF long, n, window, Window
    <2> QED BY <1>1, <1>2, <2>1 DEF n, window
  <1> QED BY <1>3, <1>4

LEMMA CountsQuietStep ==
  ASSUME ChannelTypeOK, CountsQuiet, AfterCap = StuckCap, Limit > 0, Limit <= StuckCap,
         NEW raw \in Raw, Sample(raw)
  PROVE  CountsQuiet'
  <1> DEFINE value == Validate(raw, Cfg, state).reading.value
             still == Magnitude(value - state.last_value) < Cfg.stuck_tolerance
             count == state.stuck_count
             n == Len(quiet)
  <1>1. /\ n \in Nat /\ Limit \in Nat /\ StuckCap \in Nat
        /\ count \in Nat /\ count <= StuckCap /\ still \in BOOLEAN
    BY Setting, CounterAssumption, LenProperties
    DEF ChannelTypeOK, Limit, SensorState, CountsQuiet
  <1>2. /\ state'.initialized /\ quiet' \in Seq(BOOLEAN)
        /\ state'.stuck_count = IF state.initialized THEN StuckCount(value, Cfg, state) ELSE 0
    <2>1. state'.initialized
      BY DEF Sample, Validate
    <2>2. state'.stuck_count = IF state.initialized THEN StuckCount(value, Cfg, state) ELSE 0
      BY DEF Sample, Validate
    <2> DEFINE long == IF state.initialized THEN Append(quiet, still) ELSE quiet
    <2>3. quiet' = IF Len(long) > Limit THEN Tail(long) ELSE long
      BY DEF Sample, Observe, Limit
    <2> HIDE DEF still
    <2>4. quiet' \in Seq(BOOLEAN)
      BY <1>1, <2>3, QuietType DEF Limit
    <2> QED BY <2>1, <2>2, <2>4
  <1>3. "STUCK" \in reading'.faults <=> state.initialized /\ Stuck(state'.stuck_count, Cfg)
    BY DEF Sample, Validate
  <1>4. quiet' = LET long == IF state.initialized THEN Append(quiet, still) ELSE quiet
                 IN IF Len(long) > Limit THEN Tail(long) ELSE long
    BY DEF Sample, Observe, Limit
  <1>5. CASE ~state.initialized
    <2>1. quiet' = <<>> /\ state'.stuck_count = 0
      BY <1>1, <1>2, <1>4, <1>5 DEF CountsQuiet
    <2> QED BY <1>2, <1>3, <1>5, <2>1, Setting DEF CountsQuiet, Trailing, Limit
  <1>6. CASE state.initialized
    <2>1. PICK d \in {0, 1} :
            /\ d = 1 <=> n = Limit
            /\ Len(quiet') = n + 1 - d
            /\ \A i \in 1 .. n - d : quiet'[i] = quiet[i + d]
            /\ quiet'[n + 1 - d] = still \/ Len(quiet') = 0
      <3> HIDE DEF still
      <3>1. quiet' = Window(still)
        BY <1>4, <1>6 DEF Window
      <3>2. Len(quiet) <= Limit
        BY DEF CountsQuiet
      <3>3. still \in BOOLEAN
        BY <1>1
      <3> QED BY <3>1, <3>2, <3>3, WindowMoves
    <2>2. state'.stuck_count = IF ~still THEN 0
                               ELSE IF count = StuckCap THEN StuckCap ELSE count + 1
      <3> HIDE DEF value
      <3>1. ~(Cfg.stuck_count_limit <= 0)
        BY <1>1 DEF Limit
      <3> QED BY <1>1, <1>2, <1>6, <3>1 DEF StuckCount, Increment
    <2>3. "STUCK" \in reading'.faults <=> state'.stuck_count >= Limit
      BY <1>3, <1>6 DEF Stuck, Limit
    <2>4. n <= Limit /\ Trailing <= n /\ Trailing \in Nat
      BY <1>1 DEF CountsQuiet, Trailing
    <2>5. Limit' = Limit
      BY DEF Limit
    <2> DEFINE m == Len(quiet')
               c == Trailing
    <2>6. m = n + 1 - d /\ m <= Limit /\ m > 0 /\ quiet'[m] = still
      BY <1>1, <2>1, <2>4
    <2>7. Trailing' = IF still THEN c + 1 - (IF c = Limit THEN 1 ELSE 0) ELSE 0
      BY <1>1, <2>2, <2>5 DEF Trailing
    <2>8. \A i \in n - c + 1 .. n : quiet[i]
      BY DEF CountsQuiet
    <2>9. c < Limit => c = n \/ ~quiet[n - c]
      BY DEF CountsQuiet
    <2>10. \A i \in 1 .. m - 1 : quiet'[i] = quiet[i + d]
      BY <1>1, <2>1
    <2> HIDE DEF n, still, count, m, c
    <2>11. Trailing' <= m /\ Trailing' \in Nat
      BY <1>1, <2>1, <2>4, <2>6, <2>7 DEF c
    <2>12. \A i \in m - Trailing' + 1 .. m : quiet'[i]
      <3> SUFFICES ASSUME still, NEW i \in m - Trailing' + 1 .. m, i # m PROVE quiet'[i]
        BY <1>1, <2>6, <2>7, <2>11
      <3>1. i \in 1 .. m - 1 /\ i + d \in n - c + 1 .. n
        BY <1>1, <2>1, <2>4, <2>6, <2>7, <2>11 DEF c
      <3> QED BY <3>1, <2>8, <2>10
    <2>13. Trailing' < Limit => Trailing' = m \/ ~quiet'[m - Trailing']
      <3>1. CASE ~still
        BY <1>1, <2>6, <2>7, <3>1
      <3>2. CASE still /\ Trailing' < Limit /\ Trailing' # m
        <4>1. c < Limit /\ Trailing' = c + 1
          BY <1>1, <2>4, <2>7, <3>2 DEF c
        <4>2. m - Trailing' \in 1 .. m - 1 /\ (m - Trailing') + d = n - c
          BY <1>1, <2>1, <2>4, <2>6, <2>11, <3>2, <4>1 DEF c
        <4>3. c # n
          BY <1>1, <2>1, <2>6, <4>1, <4>2
        <4> QED BY <2>9, <2>10, <4>1, <4>2, <4>3
      <3> QED BY <3>1, <3>2
    <2>14. state'.stuck_count >= 0
      BY <1>1, <2>2
    <2> QED BY <1>1, <1>2, <2>3, <2>5, <2>6, <2>11, <2>12, <2>13, <2>14 DEF CountsQuiet, m
  <1> QED BY <1>5, <1>6

(* A reading is flagged stuck exactly when the whole window was quiet, in  *)
(* a run too short for the counter to overflow.                            *)
THEOREM ChannelStuckIsQuietWindow ==
  ASSUME AfterCap = StuckCap, Cfg.stuck_count_limit <= StuckCap
  PROVE  ChannelSpec => []StuckIsQuietWindow
  <1> DEFINE IInv == Limit > 0 => CountsQuiet
  <1>1. ChannelInit => IInv
    <2> SUFFICES ASSUME ChannelInit, Limit > 0 PROVE CountsQuiet
      OBVIOUS
    <2>1. /\ state.stuck_count = 0 /\ ~state.initialized /\ quiet = <<>>
          /\ "STUCK" \notin reading.faults /\ Len(quiet) = 0 /\ Limit \in Nat
      BY Setting DEF ChannelInit, SensorInit, Limit
    <2>2. Trailing = 0
      BY <2>1 DEF Trailing
    <2> QED BY <2>1, <2>2 DEF CountsQuiet
  <1>2. ChannelTypeOK /\ IInv /\ [ChannelNext]_channelVars => IInv'
    <2> SUFFICES ASSUME ChannelTypeOK, IInv, [ChannelNext]_channelVars, Limit > 0 PROVE CountsQuiet'
      BY DEF Limit
    <2>1. ASSUME NEW raw \in Raw, Sample(raw) PROVE CountsQuiet'
      BY <2>1, CountsQuietStep DEF Limit
    <2>2. CASE UNCHANGED channelVars
      BY <2>2 DEF channelVars, CountsQuiet, Trailing, Limit
    <2> QED BY <2>1, <2>2 DEF ChannelNext
  <1>3. ChannelTypeOK /\ IInv => StuckIsQuietWindow
    <2> SUFFICES ASSUME ChannelTypeOK, CountsQuiet, Limit > 0
                 PROVE  "STUCK" \in reading.faults <=> WindowQuiet
      BY DEF StuckIsQuietWindow, Limit
    <2>1. /\ Len(quiet) \in Nat /\ DOMAIN quiet = 1 .. Len(quiet)
          /\ Limit \in Nat /\ state.stuck_count \in Nat
      BY Setting, LenProperties DEF ChannelTypeOK, Limit, SensorState, CountsQuiet
    <2>2. CASE state.stuck_count >= Limit
      <3>1. state.initialized /\ Trailing = Limit /\ Len(quiet) = Limit
        BY <2>1, <2>2 DEF CountsQuiet, Trailing
      <3> QED BY <2>1, <2>2, <3>1 DEF CountsQuiet, WindowQuiet, Limit
    <2>3. CASE ~(state.stuck_count >= Limit)
      <3>1. Trailing = state.stuck_count /\ Trailing < Limit
        BY <2>1, <2>3 DEF Trailing
      <3> QED BY <2>1, <2>3, <3>1 DEF CountsQuiet, WindowQuiet, Limit
    <2> QED BY <2>2, <2>3
  <1> QED BY <1>1, <1>2, <1>3, ChannelTypeCorrect, PTL DEF ChannelSpec
=============================================================================
