---------------------------- MODULE BlockProofs ----------------------------
(* Proofs about the building blocks of the control core: the filters, the  *)
(* governor of the fuel valve, the state machine with callbacks and the    *)
(* two-dimensional lookup tables.                                          *)
EXTENDS EcuDsp, EcuGovernor, EcuMachine, EcuMap2D, EcuLemmas, SequenceTheorems

-----------------------------------------------------------------------------
(* The filters, for all coefficients and samples.                          *)


(* The delay line holds what past samples contribute to the next output    *)
(* (s1) and to the one after it, except through the next output (s2).      *)
DelayLine ==
  /\ biquad.s2 = Coef.b2 * x[3] - Coef.a2 * y[3]
  /\ biquad.s1 = Coef.b1 * x[3] - Coef.a1 * y[3] + Coef.b2 * x[2] - Coef.a2 * y[2]

(* The median filter holds the last two samples, once it has seen them.    *)
LastTwo ==
  /\ median.filled = IF Len(seen) < 2 THEN Len(seen) ELSE 2
  /\ Len(seen) >= 1 => median.x1 = seen[Len(seen)]
  /\ Len(seen) >= 2 => median.x0 = seen[Len(seen) - 1]

DspInv == DspTypeOK /\ DelayLine /\ FollowsEquation /\ LastTwo /\ MedianOfWindow

(* ecu_median3_step selects a median of the samples it compares.           *)
LEMMA MiddleIsMedian ==
  ASSUME NEW a \in Int, NEW b \in Int, NEW c \in Int
  PROVE  IsMedian(Middle(a, b, c), <<a, b, c>>)
<1> DEFINE s == <<a, b, c>>
<1> HIDE DEF s
<1>0. s[1] = a /\ s[2] = b /\ s[3] = c
  BY DEF s
<1>1. \A i, j, k \in 1 .. 3 :
        {i, j, k} = 1 .. 3 /\ s[i] <= s[j] /\ s[j] <= s[k] => IsMedian(s[j], s)
  BY DEF IsMedian
<1>2. {1, 2, 3} = 1 .. 3 /\ {1, 3, 2} = 1 .. 3 /\ {3, 1, 2} = 1 .. 3
      /\ {2, 1, 3} = 1 .. 3 /\ {2, 3, 1} = 1 .. 3 /\ {3, 2, 1} = 1 .. 3
  OBVIOUS
<1>3. CASE a <= b /\ b <= c
  BY <1>0, <1>1, <1>2, <1>3 DEF Middle, s
<1>4. CASE a <= b /\ ~(b <= c) /\ a <= c
  BY <1>0, <1>1, <1>2, <1>4 DEF Middle, s
<1>5. CASE a <= b /\ ~(b <= c) /\ ~(a <= c)
  BY <1>0, <1>1, <1>2, <1>5 DEF Middle, s
<1>6. CASE ~(a <= b) /\ a <= c
  BY <1>0, <1>1, <1>2, <1>6 DEF Middle, s
<1>7. CASE ~(a <= b) /\ ~(a <= c) /\ b <= c
  BY <1>0, <1>1, <1>2, <1>7 DEF Middle, s
<1>8. CASE ~(a <= b) /\ ~(a <= c) /\ ~(b <= c)
  BY <1>0, <1>1, <1>2, <1>8 DEF Middle, s
<1> QED BY <1>3, <1>4, <1>5, <1>6, <1>7, <1>8

LEMMA DspInitial == DspInit => DspInv
<1> SUFFICES ASSUME DspInit PROVE DspInv
  OBVIOUS
<1>0. Coef \in BiquadCoef /\ MaxFed \in Nat
  BY DspAssumption
<1>1. DspTypeOK
  BY <1>0 DEF DspInit, DspTypeOK, BiquadInit, MedianInit, Silence, Window
<1>2. DelayLine /\ FollowsEquation
  BY <1>0 DEF DspInit, DelayLine, FollowsEquation, BiquadInit, Silence, BiquadCoef
<1>3. LastTwo /\ MedianOfWindow
  BY DEF DspInit, LastTwo, MedianOfWindow, MedianInit
<1> QED BY <1>1, <1>2, <1>3 DEF DspInv

LEMMA BiquadKeeps ==
  ASSUME DspInv, NEW in \in Samples, BiquadStep(in)
  PROVE  DspInv'
<1> USE DEF DspInv
<1>0. Coef \in BiquadCoef /\ MaxFed \in Nat /\ in \in Int
  BY DspAssumption
<1>1. x' = <<x[2], x[3], in>> /\ y' = <<y[2], y[3], Output(biquad, in)>>
  BY DEF BiquadStep, Shift
<1> DEFINE out == Output(biquad, in)
<1>2. /\ biquad.s1 \in Int /\ biquad.s2 \in Int
      /\ x[1] \in Int /\ x[2] \in Int /\ x[3] \in Int
      /\ y[1] \in Int /\ y[2] \in Int /\ y[3] \in Int
      /\ Coef.b0 * in \in Int /\ Coef.b1 * in \in Int /\ Coef.b2 * in \in Int
  <2>1. biquad.s1 \in Int /\ biquad.s2 \in Int
    BY DEF DspTypeOK
  <2>2. /\ x[1] \in Int /\ x[2] \in Int /\ x[3] \in Int
        /\ y[1] \in Int /\ y[2] \in Int /\ y[3] \in Int
    BY DEF DspTypeOK, Window
  <2>3. Coef.b0 * in \in Int /\ Coef.b1 * in \in Int /\ Coef.b2 * in \in Int
    BY <1>0 DEF BiquadCoef
  <2> QED BY <2>1, <2>2, <2>3
<1>3. out \in Int /\ Coef.a1 * out \in Int /\ Coef.a2 * out \in Int
  BY <1>0, <1>2 DEF Output, BiquadCoef
<1>4. /\ biquad'.s1 = Coef.b1 * in - Coef.a1 * out + biquad.s2
      /\ biquad'.s2 = Coef.b2 * in - Coef.a2 * out
      /\ biquad' \in [s1 : Int, s2 : Int]
  BY <1>2, <1>3 DEF BiquadStep, Delay
<1>5. DspTypeOK'
  BY <1>0, <1>1, <1>2, <1>3, <1>4 DEF DspTypeOK, Window, BiquadStep, medianVars
<1>6. /\ Coef.b2 * x[3] \in Int /\ Coef.a2 * y[3] \in Int
      /\ Coef.b1 * x[3] \in Int /\ Coef.a1 * y[3] \in Int
      /\ Coef.b2 * x[2] \in Int /\ Coef.a2 * y[2] \in Int
  BY <1>0, <1>2 DEF BiquadCoef
<1>7. x'[2] = x[3] /\ x'[3] = in /\ y'[2] = y[3] /\ y'[3] = out
      /\ x'[1] = x[2] /\ y'[1] = y[2]
  BY <1>1
<1>8. DelayLine'
  <2>1. biquad'.s2 = Coef.b2 * x'[3] - Coef.a2 * y'[3]
    BY <1>4, <1>7
  <2>2. biquad'.s1 = Coef.b1 * in - Coef.a1 * out + (Coef.b2 * x[3] - Coef.a2 * y[3])
    BY <1>4 DEF DelayLine
  <2>3. biquad'.s1 = Coef.b1 * in - Coef.a1 * out + Coef.b2 * x[3] - Coef.a2 * y[3]
    <3> DEFINE p == Coef.b1 * in   q == Coef.a1 * out
               r == Coef.b2 * x[3]  t == Coef.a2 * y[3]
    <3>1. p \in Int /\ q \in Int /\ r \in Int /\ t \in Int
      BY <1>2, <1>3, <1>6
    <3>2. biquad'.s1 = p - q + (r - t)
      BY <2>2
    <3> HIDE DEF p, q, r, t
    <3>3. biquad'.s1 = p - q + r - t
      BY <3>1, <3>2
    <3> QED BY <3>3 DEF p, q, r, t
  <2> QED BY <2>1, <2>3, <1>7 DEF DelayLine
<1>9. FollowsEquation'
  <2> DEFINE n == Coef.b0 * in
             p == Coef.b1 * x[3]  q == Coef.a1 * y[3]
             r == Coef.b2 * x[2]  t == Coef.a2 * y[2]
  <2>1. n \in Int /\ p \in Int /\ q \in Int /\ r \in Int /\ t \in Int
    BY <1>2, <1>6
  <2>2. out = n + (p - q + r - t)
    BY DEF Output, DelayLine
  <2> HIDE DEF n, p, q, r, t
  <2>3. out = n + p + r - q - t
    BY <2>1, <2>2
  <2> QED BY <2>3, <1>7 DEF FollowsEquation, n, p, q, r, t
<1>10. LastTwo' /\ MedianOfWindow'
  BY DEF BiquadStep, medianVars, LastTwo, MedianOfWindow
<1> QED BY <1>5, <1>8, <1>9, <1>10

LEMMA MedianKeeps ==
  ASSUME DspInv, NEW in \in Samples, MedianStep(in)
  PROVE  DspInv'
<1> USE DEF DspInv
<1>0. in \in Int
  BY DspAssumption
<1>1. DelayLine' /\ FollowsEquation'
  BY DEF MedianStep, biquadVars, DelayLine, FollowsEquation
<1>2. /\ median'.x0 = median.x1 /\ median'.x1 = in
      /\ median'.filled = Filled(median.filled)
  BY DEF MedianStep
<1>3. /\ seen \in Seq(Int) /\ Len(seen) \in Nat /\ Len(seen) <= 3
      /\ \A i \in 1 .. Len(seen) : seen[i] \in Int
  <2>1. seen \in Seq(Int) /\ Len(seen) <= 3
    BY DEF DspTypeOK
  <2> QED BY <2>1
<1>9. median.filled \in 0 .. 2 /\ median.x0 \in Int /\ median.x1 \in Int
  BY DEF DspTypeOK
<1>4. CASE Len(seen) < 3
  <2>1. seen' = Append(seen, in)
    BY <1>4 DEF MedianStep
  <2>2. seen' \in Seq(Int) /\ Len(seen') = Len(seen) + 1 /\ seen'[Len(seen')] = in
    BY <2>1, <1>0, <1>3
  <2>3. \A i \in 1 .. Len(seen) : seen'[i] = seen[i]
    BY <2>1, <1>0, <1>3
  <2>4. LastTwo'
    BY <2>2, <2>3, <1>2, <1>3, <1>4 DEF LastTwo, Filled
  <2>5. MedianOfWindow'
    <3>1. CASE Len(seen) < 2
      BY <3>1, <2>2, <1>3 DEF LastTwo, MedianStep, MedianOfWindow
    <3>2. CASE Len(seen) = 2
      <4>1. med' = Middle(seen[1], seen[2], in)
        BY <3>2 DEF LastTwo, MedianStep
      <4>2. seen[1] \in Int /\ seen[2] \in Int
        BY <3>2, <1>3
      <4>3. seen' = <<seen[1], seen[2], in>>
        <5>1. Len(seen') = 3 /\ seen'[1] = seen[1] /\ seen'[2] = seen[2] /\ seen'[3] = in
          BY <3>2, <2>2, <2>3
        <5>2. seen' \in Seq(Int)
          BY <2>2
        <5> QED BY <5>1, <5>2, <4>2, <1>0
      <4>4. IsMedian(med', seen')
        BY <4>1, <4>2, <4>3, <1>0, MiddleIsMedian
      <4>5. Len(seen') = 3
        BY <3>2, <2>2
      <4> QED BY <4>4, <4>5 DEF MedianOfWindow
    <3>3. Len(seen) < 2 \/ Len(seen) = 2
      <4> DEFINE n == Len(seen)
      <4>1. n \in Nat /\ n < 3
        BY <1>3, <1>4
      <4> HIDE DEF n
      <4>2. n < 2 \/ n = 2
        BY <4>1
      <4> QED BY <4>2 DEF n
    <3> QED BY <3>1, <3>2, <3>3
  <2>6. DspTypeOK'
    <3>1. median' \in [x0 : Int, x1 : Int, filled : 0 .. 2]
      BY <1>0, <1>9 DEF MedianStep, Filled
    <3>2. med' \in Int
      BY <1>0, <1>9 DEF MedianStep, Middle
    <3> QED BY <3>1, <3>2, <2>2, <1>3, <1>4 DEF DspTypeOK, MedianStep, biquadVars
  <2> QED BY <1>1, <2>4, <2>5, <2>6
<1>5. CASE Len(seen) = 3
  <2>1. seen' = <<seen[2], seen[3], in>>
    BY <1>5 DEF MedianStep, Shift
  <2>2. seen[2] \in Int /\ seen[3] \in Int
    BY <1>5, <1>3
  <2>3. seen' \in Seq(Int) /\ Len(seen') = 3 /\ seen'[2] = seen[3] /\ seen'[3] = in
    BY <2>1, <2>2, <1>0
  <2>4. LastTwo'
    BY <2>3, <1>2, <1>5 DEF LastTwo, Filled
  <2>5. med' = Middle(seen[2], seen[3], in)
    BY <1>5 DEF LastTwo, MedianStep
  <2>6. IsMedian(med', seen')
    BY <2>5, <2>1, <2>2, <1>0, MiddleIsMedian
  <2>7. Len(seen') = 3
    BY <2>3
  <2>8. MedianOfWindow'
    BY <2>6, <2>7 DEF MedianOfWindow
  <2>9. DspTypeOK'
    <3>1. median' \in [x0 : Int, x1 : Int, filled : 0 .. 2]
      BY <1>0, <1>9 DEF MedianStep, Filled
    <3>2. med' \in Int
      BY <2>5, <2>2, <1>0 DEF Middle
    <3>3. Len(seen') <= 3 /\ seen' \in Seq(Int)
      BY <2>3
    <3> QED BY <3>1, <3>2, <3>3 DEF DspTypeOK, MedianStep, biquadVars
  <2> QED BY <1>1, <2>4, <2>8, <2>9
<1>6. Len(seen) < 3 \/ Len(seen) = 3
  <2>1. Len(seen) \in Nat /\ Len(seen) <= 3
    BY <1>3
  <2> HIDE DEF DspInv
  <2> DEFINE n == Len(seen)
  <2> HIDE DEF n
  <2>2. n \in Nat /\ n <= 3
    BY <2>1 DEF n
  <2>3. n < 3 \/ n = 3
    BY <2>2
  <2> QED BY <2>3 DEF n
<1> QED BY <1>4, <1>5, <1>6

LEMMA DspInductive == DspInv /\ [DspNext]_dspVars => DspInv'
<1> SUFFICES ASSUME DspInv, [DspNext]_dspVars PROVE DspInv'
  OBVIOUS
<1> USE DEF DspInv
<1>0. Coef \in BiquadCoef /\ MaxFed \in Nat
  BY DspAssumption
<1>1. ASSUME NEW in \in Samples, BiquadStep(in) PROVE DspInv'
  BY <1>1, BiquadKeeps
<1>2. ASSUME NEW in \in Samples, MedianStep(in) PROVE DspInv'
  BY <1>2, MedianKeeps
<1>3. CASE BiquadReset
  <2>1. DspTypeOK'
    BY <1>0, <1>3 DEF DspTypeOK, BiquadReset, BiquadInit, Silence, Window, medianVars
  <2>2. DelayLine' /\ FollowsEquation'
    BY <1>0, <1>3 DEF BiquadReset, DelayLine, FollowsEquation, BiquadInit, Silence,
                      BiquadCoef
  <2>3. LastTwo' /\ MedianOfWindow'
    BY <1>3 DEF BiquadReset, medianVars, LastTwo, MedianOfWindow
  <2> QED BY <2>1, <2>2, <2>3
<1>4. CASE MedianReset
  <2>1. DspTypeOK'
    BY <1>4 DEF DspTypeOK, MedianReset, MedianInit, biquadVars
  <2>2. DelayLine' /\ FollowsEquation'
    BY <1>4 DEF MedianReset, biquadVars, DelayLine, FollowsEquation
  <2>3. LastTwo' /\ MedianOfWindow'
    BY <1>4 DEF MedianReset, MedianInit, LastTwo, MedianOfWindow
  <2> QED BY <2>1, <2>2, <2>3
<1>5. CASE UNCHANGED dspVars
  BY <1>5 DEF dspVars, biquadVars, medianVars, DspTypeOK, DelayLine, FollowsEquation,
              LastTwo, MedianOfWindow
<1> QED BY <1>1, <1>2, <1>3, <1>4, <1>5 DEF DspNext

LEMMA DspInvariant == DspSpec => []DspInv
BY DspInitial, DspInductive, PTL DEF DspSpec

(* Both filters keep their types, for all coefficients and samples.        *)
THEOREM DspTypeCorrect == DspSpec => []DspTypeOK
BY DspInvariant, PTL DEF DspInv

(* ecu_biquad_step computes the difference equation the header states, for *)
(* all coefficients and every sequence of samples.                         *)
THEOREM DspFollowsEquation == DspSpec => []FollowsEquation
BY DspInvariant, PTL DEF DspInv

(* ecu_median3_step returns a median of the last three samples, whatever   *)
(* they are.                                                               *)
THEOREM DspMedianOfWindow == DspSpec => []MedianOfWindow
BY DspInvariant, PTL DEF DspInv

-----------------------------------------------------------------------------
(* The governor of the fuel valve, for every configuration of the          *)
(* controller and every sequence of calls.                                 *)


(* Limiting yields a value within the bounds.                              *)
LEMMA LimitedInRange ==
  ASSUME NEW v \in Int, NEW lo \in Int, NEW hi \in Int, lo <= hi
  PROVE  Limited(v, lo, hi) \in lo .. hi
BY DEF Limited

(* The bound of the integral is never negative.                            *)
LEMMA ILimitNat == L \in Nat
<1>1. /\ PidCfg.integral_max \in Int /\ PidCfg.ki \in Nat
      /\ PidCfg.output_max \in Nat
  BY GovernorAssumption DEF PidConfig
<1>2. CASE PidCfg.integral_max > 0
  BY <1>1, <1>2 DEF L, ILimit
<1>3. CASE ~(PidCfg.integral_max > 0) /\ PidCfg.ki > 0
  <2>1. \A a, b \in Nat : b > 0 => a \div b \in Nat
    OBVIOUS
  <2>2. L = PidCfg.output_max \div PidCfg.ki
    BY <1>3 DEF L, ILimit
  <2> QED BY <1>1, <1>3, <2>1, <2>2
<1>4. CASE ~(PidCfg.integral_max > 0) /\ ~(PidCfg.ki > 0)
  BY <1>4 DEF L, ILimit
<1> QED BY <1>2, <1>3, <1>4

(* The derivative of integers is an integer.                               *)
LEMMA DerivativeInt ==
  ASSUME NEW p \in PidState, NEW error \in Int, NEW dt \in Nat
  PROVE  Derivative(p, error, dt) \in Int
<1>1. error - p.prev_error \in Int
  BY DEF PidState
<1>2. \A a \in Int, b \in Nat : b > 0 => a \div b \in Int
  OBVIOUS
<1> QED BY <1>1, <1>2 DEF Derivative

(* The output of the controller is an integer.                             *)
LEMMA PidOutputInt ==
  ASSUME NEW p \in PidState, NEW error \in Int, NEW dt \in Nat
  PROVE  PidOutput(PidCfg, p, error, dt) \in Int
<1>1. /\ PidCfg.kp \in Int /\ PidCfg.ki \in Int /\ PidCfg.kd \in Int
      /\ PidCfg.output_min \in Int /\ PidCfg.output_max \in Int
  BY GovernorAssumption DEF PidConfig
<1>2. \A a, b \in Int : a * b \in Int
  OBVIOUS
<1>3. Integrated(PidCfg, p, error, dt) \in Int
  <2>1. p.integral + error * dt \in Int
    BY <1>2 DEF PidState
  <2> QED BY <2>1, ILimitNat DEF Integrated, Limited, L
<1>4. Derivative(p, error, dt) \in Int
  BY DerivativeInt
<1>5. \A a, b, c \in Int : a + b + c \in Int
  OBVIOUS
<1>6. PidCfg.kp * error + PidCfg.ki * Integrated(PidCfg, p, error, dt)
        + PidCfg.kd * Derivative(p, error, dt) \in Int
  BY <1>1, <1>2, <1>3, <1>4, <1>5
<1> QED BY <1>1, <1>6 DEF PidOutput, Limited

(* A fuel computation stays in the range of the valve, rises no further    *)
(* than the ramp allows, and yields zero under a cutoff.                   *)
LEMMA ActualPctBounds ==
  ASSUME NEW target \in Int, NEW change \in Nat, NEW st \in FuelState,
         st.last_pct <= FuelMax
  PROVE  LET a == ActualPct(target, change, FuelMax, st)
         IN /\ a \in 0 .. FuelMax /\ a <= st.last_pct + change
            /\ st.cutoff_active => a = 0
<1>1. st.last_pct \in Nat /\ st.cutoff_active \in BOOLEAN
  BY DEF FuelState
<1>2. FuelMax \in Nat
  BY GovernorAssumption
<1> QED BY <1>1, <1>2 DEF ActualPct, ClampPct, Approach

(* The push of an update stays in its range.                               *)
LEMMA PushedInRange ==
  ASSUME NEW d \in Int, push \in -2 * L .. 2 * L
  PROVE  Pushed(d) \in -2 * L .. 2 * L
<1>1. L \in Nat
  BY ILimitNat
<1>2. push \in Int
  BY <1>1
<1> QED BY <1>1, <1>2 DEF Pushed, Limited

(* An update of the integral by d, seen by the history of the error.       *)
LEMMA UnwindStep ==
  ASSUME NEW i \in -L .. L, NEW d \in Int, push \in -2 * L .. 2 * L,
         push >= 0 => i >= push - L, push <= 0 => i <= push + L
  PROVE  LET j == Limited(i + d, -L, L)
             p == Pushed(d)
         IN /\ p >= 0 => j >= p - L
            /\ p <= 0 => j <= p + L
<1>1. L \in Nat
  BY ILimitNat
<1>2. push \in Int /\ i \in Int
  BY <1>1
<1>3. CASE SameSide(d)
  BY <1>1, <1>2, <1>3 DEF Pushed, Limited, SameSide
<1>4. CASE ~SameSide(d)
  BY <1>1, <1>2, <1>4 DEF Pushed, Limited, SameSide
<1> QED BY <1>3, <1>4

GovernorInv == GovernorTypeOK /\ WindupUnwinds /\ SoftRestart

LEMMA GovernorInitOK == GovernorInit => GovernorInv
<1>1. L \in Nat /\ FuelMax \in Nat /\ MaxGuards \in Nat
  BY ILimitNat, GovernorAssumption
<1>2. ASSUME GovernorInit PROVE GovernorInv
  <2>1. pid = [integral |-> 0, prev_error |-> 0, initialized |-> FALSE]
    BY <1>2 DEF GovernorInit, PidInit
  <2>2. fuel = [last_pct |-> 0, cutoff_active |-> FALSE]
    BY <1>2 DEF GovernorInit, FuelInit
  <2>3. guards = 0 /\ allowance = 0 /\ push = 0
    BY <1>2 DEF GovernorInit
  <2> QED BY <1>1, <2>1, <2>2, <2>3
          DEF GovernorInv, GovernorTypeOK, WindupUnwinds, SoftRestart,
              PidState, FuelState
<1> QED BY <1>2

(* An update preserves the invariant: the lemmas above, put together.      *)
LEMMA GovernOK ==
  ASSUME GovernorInv, NEW s \in Setpoints, NEW m \in Measures, NEW dt \in Steps,
         Govern(s, m, dt)
  PROVE  GovernorInv'
<1> DEFINE error == s - m
           d == error * dt
           change == RampRate * dt
           target == PidOutput(PidCfg, pid, error, dt)
<1>1. error \in Int /\ dt \in Nat
  BY GovernorAssumption
<1>2. d \in Int /\ change \in Nat
  <2>1. \A a, b \in Int : a * b \in Int
    OBVIOUS
  <2>2. \A a, b \in Nat : a * b \in Nat
    OBVIOUS
  <2>3. RampRate \in Nat
    BY GovernorAssumption
  <2> QED BY <1>1, <2>1, <2>2, <2>3
<1>3. L \in Nat /\ FuelMax \in Nat
  BY ILimitNat, GovernorAssumption
<1>4. /\ pid \in PidState /\ pid.integral \in -L .. L
      /\ fuel \in FuelState /\ fuel.last_pct <= FuelMax
      /\ allowance \in 0 .. FuelMax /\ push \in -2 * L .. 2 * L
  BY DEF GovernorInv, GovernorTypeOK
<1>5. target \in Int
  BY <1>1, <1>4, PidOutputInt
<1>6. /\ pid' = [integral |-> Limited(pid.integral + d, -L, L),
                 prev_error |-> error, initialized |-> TRUE]
      /\ push' = Pushed(d)
      /\ fuel' = [fuel EXCEPT !.last_pct = ActualPct(target, change, FuelMax, fuel)]
      /\ allowance' = IF fuel.cutoff_active THEN 0
                      ELSE Limited(allowance + change, 0, FuelMax)
      /\ guards' = guards
  BY DEF Govern, PidUpdate, Integrated, FuelCompute, L
<1> HIDE DEF error, d, change, target
<1>7. pid' \in PidState /\ pid'.integral \in -L .. L
  <2>1. pid.integral + d \in Int /\ -L \in Int /\ L \in Int /\ -L <= L
    BY <1>2, <1>3, <1>4
  <2>2. Limited(pid.integral + d, -L, L) \in -L .. L
    BY <2>1, LimitedInRange
  <2> QED BY <1>1, <1>3, <1>6, <2>2 DEF PidState
<1>8. push' \in -2 * L .. 2 * L
  BY <1>2, <1>4, <1>6, PushedInRange
<1>9. WindupUnwinds'
  <2>1. /\ push >= 0 => pid.integral >= push - L
        /\ push <= 0 => pid.integral <= push + L
    BY DEF GovernorInv, WindupUnwinds
  <2>2. LET j == Limited(pid.integral + d, -L, L)
        IN /\ Pushed(d) >= 0 => j >= Pushed(d) - L
           /\ Pushed(d) <= 0 => j <= Pushed(d) + L
    BY <1>2, <1>4, <2>1, UnwindStep
  <2>3. pid'.integral = Limited(pid.integral + d, -L, L)
    BY <1>6
  <2>4. L' = L
    BY DEF L
  <2> QED BY <1>6, <2>2, <2>3, <2>4 DEF WindupUnwinds
<1>10. LET a == ActualPct(target, change, FuelMax, fuel)
       IN /\ a \in 0 .. FuelMax /\ a <= fuel.last_pct + change
          /\ fuel.cutoff_active => a = 0
  BY <1>2, <1>4, <1>5, ActualPctBounds
<1>11. /\ fuel'.last_pct = ActualPct(target, change, FuelMax, fuel)
       /\ fuel'.cutoff_active = fuel.cutoff_active
       /\ fuel.cutoff_active \in BOOLEAN
       /\ fuel' \in FuelState
  BY <1>3, <1>4, <1>6, <1>10 DEF FuelState
<1>12. /\ allowance' \in 0 .. FuelMax
       /\ SoftRestart'
  <2>1. fuel.last_pct <= allowance
    BY DEF GovernorInv, SoftRestart
  <2>2. fuel.last_pct \in Nat
    BY <1>4 DEF FuelState
  <2>3. CASE fuel.cutoff_active
    BY <1>3, <1>6, <1>10, <1>11, <2>3 DEF SoftRestart
  <2>4. CASE ~fuel.cutoff_active
    <3>1. allowance' = Limited(allowance + change, 0, FuelMax)
      BY <1>6, <2>4
    <3>2. allowance' \in 0 .. FuelMax
      BY <1>2, <1>3, <1>4, <3>1 DEF Limited
    <3>3. fuel'.last_pct <= allowance'
      BY <1>2, <1>3, <1>4, <1>10, <1>11, <2>1, <2>2, <3>1 DEF Limited
    <3> QED BY <1>11, <2>4, <3>2, <3>3 DEF SoftRestart
  <2> QED BY <2>3, <2>4
<1>13. GovernorTypeOK'
  <2>1. guards' \in 0 .. MaxGuards
    BY <1>6 DEF GovernorInv, GovernorTypeOK
  <2>2. fuel'.last_pct <= FuelMax
    BY <1>3, <1>10, <1>11
  <2>3. L' = L
    BY DEF L
  <2> QED BY <1>7, <1>8, <1>11, <1>12, <2>1, <2>2, <2>3 DEF GovernorTypeOK
<1> QED BY <1>9, <1>12, <1>13 DEF GovernorInv

LEMMA GovernorNextOK == GovernorInv /\ [GovernorNext]_governorVars => GovernorInv'
<1> SUFFICES ASSUME GovernorInv, [GovernorNext]_governorVars PROVE GovernorInv'
  OBVIOUS
<1> USE DEF GovernorInv
<1>1. L \in Nat /\ FuelMax \in Nat /\ MaxGuards \in Nat
  BY ILimitNat, GovernorAssumption
<1>2. CASE Update
  BY <1>2, GovernOK DEF Update
<1>3. CASE ResetPid
  <2>1. pid' = [integral |-> 0, prev_error |-> 0, initialized |-> FALSE] /\ push' = 0
    BY <1>3 DEF ResetPid, PidInit
  <2>2. fuel' = fuel /\ guards' = guards /\ allowance' = allowance
    BY <1>3 DEF ResetPid
  <2> QED BY <1>1, <2>1, <2>2
          DEF GovernorTypeOK, WindupUnwinds, SoftRestart, PidState
<1>4. ASSUME fuel' = FuelCutoff(fuel), allowance' = 0, guards' \in 0 .. MaxGuards,
             pid' = pid, push' = push
      PROVE  GovernorInv'
  <2>1. fuel' = [last_pct |-> 0, cutoff_active |-> TRUE]
    BY <1>4 DEF FuelCutoff, GovernorTypeOK, FuelState
  <2> QED BY <1>1, <1>4, <2>1
          DEF GovernorTypeOK, WindupUnwinds, SoftRestart, FuelState
<1>5. ASSUME fuel' = FuelRelease(fuel), guards' \in 0 .. MaxGuards,
             allowance' = allowance, pid' = pid, push' = push
      PROVE  GovernorInv'
  <2>1. fuel' = [last_pct |-> fuel.last_pct, cutoff_active |-> FALSE]
    BY <1>5 DEF FuelRelease, GovernorTypeOK, FuelState
  <2> QED BY <1>1, <1>5, <2>1
          DEF GovernorTypeOK, WindupUnwinds, SoftRestart, FuelState
<1>6. CASE Cutoff
  BY <1>4, <1>6 DEF Cutoff, GovernorTypeOK
<1>7. CASE Release
  BY <1>5, <1>7 DEF Release, GovernorTypeOK
<1>8. CASE EnterScope
  <2>1. guards' \in 0 .. MaxGuards
    BY <1>1, <1>8 DEF EnterScope, GovernorTypeOK
  <2> QED BY <1>4, <1>8, <2>1 DEF EnterScope
<1>9. CASE LeaveScope
  <2>1. guards' \in 0 .. MaxGuards
    BY <1>1, <1>9 DEF LeaveScope, GovernorTypeOK
  <2> QED BY <1>5, <1>9, <2>1 DEF LeaveScope
<1>10. CASE UNCHANGED governorVars
  BY <1>10 DEF governorVars, GovernorTypeOK, WindupUnwinds, SoftRestart, L
<1> QED BY <1>2, <1>3, <1>6, <1>7, <1>8, <1>9, <1>10 DEF GovernorNext

LEMMA GovernorInvariant == GovernorSpec => []GovernorInv
BY GovernorInitOK, GovernorNextOK, PTL DEF GovernorSpec

(* The controller and the fuel valve stay in their ranges (core/ecu_pid.c, *)
(* core/ecu_fuel.c), for every configuration.                              *)
THEOREM GovernorTypeCorrect == GovernorSpec => []GovernorTypeOK
<1>1. GovernorInv => GovernorTypeOK
  BY DEF GovernorInv
<1> QED BY <1>1, GovernorInvariant, PTL

(* A wound-up controller unwinds as soon as the error changes sign         *)
(* (core/ecu_pid.c:36-45), for every gain and every limit.                 *)
THEOREM WindupUnwindsAlways == GovernorSpec => []WindupUnwinds
<1>1. GovernorInv => WindupUnwinds
  BY DEF GovernorInv
<1> QED BY <1>1, GovernorInvariant, PTL

(* After a cutoff the fuel comes back along the ramp                       *)
(* (core/ecu_fuel.c:30-53), whatever the controller asks for.              *)
THEOREM SoftRestartAlways == GovernorSpec => []SoftRestart
<1>1. GovernorInv => SoftRestart
  BY DEF GovernorInv
<1> QED BY <1>1, GovernorInvariant, PTL
-----------------------------------------------------------------------------
(* The state machine with callbacks, for every depth of nesting.           *)

(* As long as less than a turn of the clock has passed, the difference of  *)
(* two timestamps is the time counted; a transition whose exit callback    *)
(* has not moved the machine still goes along an entry of the table.       *)
MachineInv ==
  /\ MachineTypeOK
  /\ armed = sm.timeout_ms
  /\ age < TimeMod => Elapsed(now, sm.state_enter_time) = age
  /\ \A i \in DOMAIN frames : frames[i].stage = "exit" =>
       /\ frames[i].waited < TimeMod => Elapsed(now, frames[i].at) = frames[i].waited
       /\ frames[i].overruled \/ <<sm.current, frames[i].next>> \in ValidTransitions

LEMMA OlderAdds ==
  ASSUME NEW w \in 0 .. TimeMod, NEW d \in Nat
  PROVE  /\ Older(w, d) \in 0 .. TimeMod
         /\ Older(w, d) < TimeMod => w < TimeMod /\ Older(w, d) = w + d /\ w + d < TimeMod
BY ClockFacts DEF Older

LEMMA FrameFields ==
  ASSUME NEW f \in Frame
  PROVE  /\ f.stage \in {"exit", "enter"} /\ f.next \in EcuState /\ f.at \in Time
         /\ f.waited \in 0 .. TimeMod /\ f.overruled \in BOOLEAN
BY DEF Frame

LEMMA FrameOverruled ==
  ASSUME NEW f \in Frame, NEW g, g = [f EXCEPT !.overruled = TRUE]
  PROVE  /\ g \in Frame /\ g.stage = f.stage /\ g.at = f.at
         /\ g.waited = f.waited /\ g.overruled
BY DEF Frame

LEMMA FrameWaited ==
  ASSUME NEW f \in Frame, NEW w \in 0 .. TimeMod, NEW g, g = [f EXCEPT !.waited = w]
  PROVE  /\ g \in Frame /\ g.stage = f.stage /\ g.at = f.at /\ g.next = f.next
         /\ g.waited = w /\ g.overruled = f.overruled
BY DEF Frame

(* Changing every element of a sequence leaves a sequence of its length.   *)
LEMMA MappedSeq ==
  ASSUME NEW S, NEW s \in Seq(S), NEW g, g = [i \in DOMAIN s |-> g[i]],
         \A i \in 1 .. Len(s) : g[i] \in S
  PROVE  g \in Seq(S) /\ Len(g) = Len(s) /\ DOMAIN g = 1 .. Len(s)
<1>1. DOMAIN s = 1 .. Len(s) /\ Len(s) \in Nat
  OBVIOUS
<1>2. g \in [1 .. Len(s) -> S]
  BY <1>1
<1> QED BY <1>1, <1>2

LEMMA OverruleTyped ==
  ASSUME NEW stack \in Seq(Frame)
  PROVE  /\ Overrule(stack) \in Seq(Frame) /\ Len(Overrule(stack)) = Len(stack)
         /\ \A i \in 1 .. Len(stack) :
              /\ Overrule(stack)[i].stage = stack[i].stage
              /\ Overrule(stack)[i].at = stack[i].at
              /\ Overrule(stack)[i].waited = stack[i].waited
              /\ stack[i].stage = "exit" => Overrule(stack)[i].overruled
<1> DEFINE over == Overrule(stack)
<1>1. over = [i \in 1 .. Len(stack) |->
                IF stack[i].stage = "exit"
                THEN [stack[i] EXCEPT !.overruled = TRUE] ELSE stack[i]]
  BY DEF Overrule
<1> HIDE DEF over
<1>2. \A i \in 1 .. Len(stack) :
        /\ over[i] \in Frame /\ over[i].stage = stack[i].stage
        /\ over[i].at = stack[i].at /\ over[i].waited = stack[i].waited
        /\ stack[i].stage = "exit" => over[i].overruled
  <2> SUFFICES ASSUME NEW i \in 1 .. Len(stack)
               PROVE  /\ over[i] \in Frame /\ over[i].stage = stack[i].stage
                      /\ over[i].at = stack[i].at
                      /\ over[i].waited = stack[i].waited
                      /\ stack[i].stage = "exit" => over[i].overruled
    OBVIOUS
  <2>1. stack[i] \in Frame /\ 0 \in 0 .. TimeMod
    BY ClockFacts
  <2>2. CASE stack[i].stage = "exit"
    <3>1. over[i] = [stack[i] EXCEPT !.overruled = TRUE]
      BY <1>1, <2>2
    <3> QED BY <2>1, <2>2, <3>1, FrameOverruled
  <2>3. CASE stack[i].stage # "exit"
    BY <1>1, <2>1, <2>3
  <2> QED BY <2>2, <2>3
<1>3. over \in Seq(Frame) /\ Len(over) = Len(stack)
  <2>1. over = [i \in DOMAIN stack |-> over[i]]
    BY <1>1
  <2> QED BY <1>2, <2>1, MappedSeq
<1> QED BY <1>2, <1>3 DEF over

LEMMA EnterFrameTyped == EnterFrame \in Frame /\ EnterFrame.stage = "enter"
<1>1. 0 \in Time /\ 0 \in 0 .. TimeMod /\ "OFF" \in EcuState
  BY ClockFacts DEF EcuState
<1> QED BY <1>1 DEF EnterFrame, Frame

LEMMA ExitFrameTyped ==
  ASSUME NEW n \in EcuState, now \in Time
  PROVE  /\ ExitFrame(n) \in Frame /\ ExitFrame(n).stage = "exit"
         /\ ExitFrame(n).waited = 0 /\ ExitFrame(n).at = now
         /\ ExitFrame(n).next = n
<1>1. 0 \in 0 .. TimeMod
  BY ClockFacts
<1> QED BY <1>1 DEF ExitFrame, Frame

(* The second half of a transition.                                        *)
LEMMA EnteredOK ==
  ASSUME MachineInv, NEW n \in EcuState, NEW at \in Time,
         NEW waited \in 0 .. TimeMod, NEW rest \in Seq(Frame),
         Len(rest) <= MaxDepth, on_enter => Len(rest) < MaxDepth,
         waited < TimeMod => Elapsed(now, at) = waited,
         \A i \in 1 .. Len(rest) : rest[i].stage = "exit" =>
           (rest[i].waited < TimeMod => Elapsed(now, rest[i].at) = rest[i].waited),
         Entered(n, at, waited, rest), UNCHANGED <<on_enter, on_exit, now>>
  PROVE  MachineInv'
<1> DEFINE over == Overrule(rest)
<1>1. /\ sm' = [current |-> n, state_enter_time |-> at, timeout_ms |-> 0]
      /\ armed' = 0 /\ age' = waited
      /\ frames' = IF on_enter THEN <<EnterFrame>> \o over ELSE over
      /\ now' = now /\ on_enter' = on_enter /\ on_exit' = on_exit
  BY DEF Entered
<1>2. /\ over \in Seq(Frame) /\ Len(over) = Len(rest)
      /\ \A i \in 1 .. Len(over) : over[i].stage = "exit" =>
           /\ over[i].waited < TimeMod => Elapsed(now, over[i].at) = over[i].waited
           /\ over[i].overruled
  BY OverruleTyped
<1> HIDE DEF over
<1>3. /\ frames' \in Seq(Frame) /\ Len(frames') <= MaxDepth
      /\ \A i \in DOMAIN frames' : frames'[i].stage = "exit" =>
           /\ frames'[i].waited < TimeMod => Elapsed(now, frames'[i].at) = frames'[i].waited
           /\ frames'[i].overruled
  <2>1. CASE ~on_enter
    BY <1>1, <1>2, <2>1
  <2>2. CASE on_enter
    <3>1. /\ frames' \in Seq(Frame) /\ Len(frames') = Len(over) + 1
          /\ frames'[1] = EnterFrame
          /\ \A i \in 1 .. Len(frames') : i > 1 =>
               i - 1 \in 1 .. Len(over) /\ frames'[i] = over[i - 1]
      BY <1>1, <1>2, <2>2, EnterFrameTyped
    <3>2. MaxDepth \in Nat
      BY MachineAssumption
    <3>3. frames'[1].stage # "exit"
      BY <3>1, EnterFrameTyped
    <3>4. \A i \in 1 .. Len(frames') : i > 1 /\ frames'[i].stage = "exit" =>
            /\ frames'[i].waited < TimeMod => Elapsed(now, frames'[i].at) = frames'[i].waited
            /\ frames'[i].overruled
      BY <1>2, <3>1
    <3>5. Len(frames') <= MaxDepth
      BY <1>2, <2>2, <3>1, <3>2
    <3>6. \A i \in 1 .. Len(frames') : i = 1 \/ i > 1
      BY <3>1
    <3> QED BY <3>1, <3>3, <3>4, <3>5, <3>6
  <2> QED BY <2>1, <2>2
<1>4. sm' \in SmState /\ armed' \in Time
  BY <1>1, ClockFacts DEF SmState
<1> QED BY <1>1, <1>3, <1>4 DEF MachineInv, MachineTypeOK

LEMMA RequestOK ==
  ASSUME MachineInv, NEW n \in EcuState, Request(n) PROVE MachineInv'
<1> USE DEF MachineInv, MachineTypeOK
<1>1. /\ Len(frames) < MaxDepth /\ <<sm.current, n>> \in ValidTransitions
      /\ now' = now /\ on_enter' = on_enter /\ on_exit' = on_exit
      /\ MaxDepth \in Nat /\ Len(frames) \in Nat
  BY MachineAssumption DEF Request, Listed
<1>2. CASE ~on_exit
  <2>1. Entered(n, now, 0, frames)
    BY <1>2 DEF Request
  <2>2. /\ 0 \in 0 .. TimeMod /\ Elapsed(now, now) = 0
        /\ now \in Time /\ frames \in Seq(Frame) /\ Len(frames) <= MaxDepth
        /\ \A i \in 1 .. Len(frames) : frames[i].stage = "exit" =>
             (frames[i].waited < TimeMod => Elapsed(now, frames[i].at) = frames[i].waited)
    <3>1. 0 \in 0 .. TimeMod /\ now \in Time /\ Elapsed(now, now) = 0
      BY ClockFacts
    <3>2. DOMAIN frames = 1 .. Len(frames)
      OBVIOUS
    <3>3. \A i \in 1 .. Len(frames) : frames[i].stage = "exit" =>
            (frames[i].waited < TimeMod => Elapsed(now, frames[i].at) = frames[i].waited)
      BY <3>2
    <3> QED BY <3>1, <3>3
  <2> HIDE DEF MachineInv, MachineTypeOK
  <2> QED BY <1>1, <2>1, <2>2, EnteredOK
<1>3. CASE on_exit
  <2>1. frames' = <<ExitFrame(n)>> \o frames /\ UNCHANGED <<sm, armed, age>>
    BY <1>3 DEF Request
  <2>2. /\ frames' \in Seq(Frame) /\ Len(frames') = Len(frames) + 1
        /\ frames'[1] = ExitFrame(n)
        /\ \A i \in 1 .. Len(frames') : i > 1 =>
             i - 1 \in 1 .. Len(frames) /\ frames'[i] = frames[i - 1]
    BY <2>1, ExitFrameTyped
  <2>3. Len(frames') <= MaxDepth
    BY <1>1, <2>2
  <2>4. /\ frames'[1].at = now /\ frames'[1].waited = 0 /\ frames'[1].next = n
        /\ Elapsed(now, now) = 0
    BY <2>2, ExitFrameTyped, ClockFacts
  <2>5. \A i \in 1 .. Len(frames') : frames'[i].stage = "exit" =>
          /\ frames'[i].waited < TimeMod => Elapsed(now, frames'[i].at) = frames'[i].waited
          /\ frames'[i].overruled \/ <<sm.current, frames'[i].next>> \in ValidTransitions
    <3> SUFFICES ASSUME NEW i \in 1 .. Len(frames'), frames'[i].stage = "exit"
                 PROVE  /\ frames'[i].waited < TimeMod =>
                             Elapsed(now, frames'[i].at) = frames'[i].waited
                        /\ \/ frames'[i].overruled
                           \/ <<sm.current, frames'[i].next>> \in ValidTransitions
      OBVIOUS
    <3>1. CASE i = 1
      BY <1>1, <2>4, <3>1
    <3>2. CASE i > 1
      <4>1. i - 1 \in DOMAIN frames /\ frames'[i] = frames[i - 1]
        BY <2>2, <3>2
      <4> QED BY <4>1
    <3> QED BY <2>2, <3>1, <3>2
  <2> QED BY <1>1, <2>1, <2>2, <2>3, <2>5
<1> QED BY <1>2, <1>3

LEMMA ExitReturnsOK == ASSUME MachineInv, ExitReturns PROVE MachineInv'
<1> USE DEF MachineInv, MachineTypeOK
<1> DEFINE f == Head(frames)  rest == Tail(frames)
<1>1. /\ frames # <<>> /\ f.stage = "exit" /\ Entered(f.next, f.at, f.waited, rest)
      /\ UNCHANGED <<on_enter, on_exit, now>>
  BY DEF ExitReturns
<1>2. /\ f = frames[1] /\ f \in Frame /\ rest \in Seq(Frame)
      /\ Len(rest) = Len(frames) - 1 /\ Len(frames) \in Nat /\ 1 \in DOMAIN frames
      /\ \A i \in 1 .. Len(rest) : i + 1 \in DOMAIN frames /\ rest[i] = frames[i + 1]
  BY <1>1
<1>3. MaxDepth \in Nat
  BY MachineAssumption
<1>4. f.next \in EcuState /\ f.at \in Time /\ f.waited \in 0 .. TimeMod
  BY <1>2, FrameFields
<1>5. Len(rest) < MaxDepth
  BY <1>2, <1>3
<1>6. f.waited < TimeMod => Elapsed(now, f.at) = f.waited
  BY <1>1, <1>2
<1>7. \A i \in 1 .. Len(rest) : rest[i].stage = "exit" =>
        (rest[i].waited < TimeMod => Elapsed(now, rest[i].at) = rest[i].waited)
  BY <1>2
<1> HIDE DEF f, rest, MachineInv, MachineTypeOK
<1>8. Len(rest) <= MaxDepth
  BY <1>2, <1>3, <1>5
<1> QED BY <1>1, <1>2, <1>4, <1>5, <1>6, <1>7, <1>8, EnteredOK

LEMMA PassOK == ASSUME MachineInv, NEW d \in Nat, Pass(d) PROVE MachineInv'
<1> USE DEF MachineInv, MachineTypeOK
<1>1. /\ now' = After(now, d) /\ age' = Older(age, d)
      /\ frames' = [i \in DOMAIN frames |->
                      IF frames[i].stage = "exit"
                      THEN [frames[i] EXCEPT !.waited = Older(@, d)] ELSE frames[i]]
      /\ UNCHANGED <<sm, on_enter, on_exit, armed>>
  BY DEF Pass
<1>2. now' \in Time /\ age' \in 0 .. TimeMod
  BY <1>1, ClockFacts, OlderAdds
<1>3. age' < TimeMod => Elapsed(now', sm.state_enter_time) = age'
  <2>1. sm.state_enter_time \in Time
    BY DEF SmState
  <2> QED BY <1>1, <2>1, OlderAdds, ElapsedAdds
<1>4. \A i \in 1 .. Len(frames) :
        /\ frames'[i] \in Frame /\ frames'[i].stage = frames[i].stage
        /\ frames[i].stage = "exit" =>
             /\ frames'[i].waited = Older(frames[i].waited, d)
             /\ frames'[i].at = frames[i].at /\ frames'[i].next = frames[i].next
             /\ frames'[i].overruled = frames[i].overruled
  <2> SUFFICES ASSUME NEW i \in 1 .. Len(frames)
               PROVE  /\ frames'[i] \in Frame /\ frames'[i].stage = frames[i].stage
                      /\ frames[i].stage = "exit" =>
                           /\ frames'[i].waited = Older(frames[i].waited, d)
                           /\ frames'[i].at = frames[i].at
                           /\ frames'[i].next = frames[i].next
                           /\ frames'[i].overruled = frames[i].overruled
    OBVIOUS
  <2>1. frames[i] \in Frame /\ Older(frames[i].waited, d) \in 0 .. TimeMod
    <3>1. frames[i] \in Frame
      OBVIOUS
    <3> QED BY <3>1, FrameFields, OlderAdds
  <2>2. frames'[i] = IF frames[i].stage = "exit"
                     THEN [frames[i] EXCEPT !.waited = Older(@, d)] ELSE frames[i]
    <3>1. i \in DOMAIN frames
      OBVIOUS
    <3> HIDE DEF MachineInv, MachineTypeOK
    <3> QED BY <1>1, <3>1
  <2>3. CASE frames[i].stage = "exit"
    <3> DEFINE w == Older(frames[i].waited, d)
    <3>1. frames'[i] = [frames[i] EXCEPT !.waited = w] /\ w \in 0 .. TimeMod
      BY <2>1, <2>2, <2>3
    <3> HIDE DEF w
    <3>2. /\ frames'[i] \in Frame /\ frames'[i].stage = frames[i].stage
          /\ frames'[i].waited = w /\ frames'[i].at = frames[i].at
          /\ frames'[i].next = frames[i].next
          /\ frames'[i].overruled = frames[i].overruled
      BY <2>1, <3>1, FrameWaited
    <3> QED BY <3>2 DEF w
  <2>4. CASE frames[i].stage # "exit"
    BY <2>1, <2>2, <2>4
  <2> QED BY <2>3, <2>4
<1>5. frames' \in Seq(Frame) /\ Len(frames') = Len(frames)
  <2>1. frames' = [i \in DOMAIN frames |-> frames'[i]] /\ frames \in Seq(Frame)
    BY <1>1
  <2> QED BY <1>4, <2>1, MappedSeq
<1>6. \A i \in 1 .. Len(frames) : frames'[i].stage = "exit" =>
        /\ frames'[i].waited < TimeMod => Elapsed(now', frames'[i].at) = frames'[i].waited
        /\ frames'[i].overruled \/ <<sm.current, frames'[i].next>> \in ValidTransitions
  <2> SUFFICES ASSUME NEW i \in 1 .. Len(frames), frames'[i].stage = "exit"
               PROVE  /\ frames'[i].waited < TimeMod =>
                           Elapsed(now', frames'[i].at) = frames'[i].waited
                      /\ \/ frames'[i].overruled
                         \/ <<sm.current, frames'[i].next>> \in ValidTransitions
    OBVIOUS
  <2>1. frames[i] \in Frame /\ frames[i].at \in Time /\ frames[i].waited \in 0 .. TimeMod
    BY FrameFields
  <2> QED BY <1>1, <1>4, <2>1, OlderAdds, ElapsedAdds
<1>7. /\ sm' = sm /\ armed' = armed /\ on_enter' = on_enter /\ on_exit' = on_exit
      /\ sm \in SmState /\ armed \in Time /\ armed = sm.timeout_ms
      /\ on_enter \in BOOLEAN /\ on_exit \in BOOLEAN /\ Len(frames) <= MaxDepth
  BY <1>1
<1>8. DOMAIN frames' = 1 .. Len(frames)
  BY <1>5
<1> HIDE DEF MachineInv, MachineTypeOK
<1>9. MachineTypeOK'
  BY <1>2, <1>5, <1>7 DEF MachineTypeOK
<1>10. armed' = sm'.timeout_ms /\ (age' < TimeMod => Elapsed(now', sm'.state_enter_time) = age')
  BY <1>3, <1>7
<1> QED BY <1>6, <1>7, <1>8, <1>9, <1>10 DEF MachineInv

LEMMA MachineNextOK == MachineInv /\ [MachineNext]_machineVars => MachineInv'
<1> SUFFICES ASSUME MachineInv, [MachineNext]_machineVars PROVE MachineInv'
  OBVIOUS
<1> USE DEF MachineInv, MachineTypeOK
<1>1. CASE UNCHANGED machineVars
  BY <1>1 DEF machineVars
<1>2. CASE Transit
  BY <1>2, RequestOK DEF Transit
<1>3. CASE EnterReturns
  <2>1. /\ frames # <<>> /\ frames' = Tail(frames)
        /\ UNCHANGED <<sm, on_enter, on_exit, now, armed, age>>
    BY <1>3 DEF EnterReturns
  <2>2. /\ frames' \in Seq(Frame) /\ Len(frames') = Len(frames) - 1
        /\ \A i \in 1 .. Len(frames') : i + 1 \in DOMAIN frames /\ frames'[i] = frames[i + 1]
    BY <2>1
  <2>3. Len(frames') <= MaxDepth
    BY <2>2, MachineAssumption
  <2> QED BY <2>1, <2>2, <2>3
<1>4. ASSUME NEW ms \in Timeouts, SetTimeout(ms) PROVE MachineInv'
  <2>1. ms \in Time
    BY MachineAssumption
  <2> QED BY <1>4, <2>1 DEF SetTimeout, SmState
<1>5. ASSUME NEW enter \in BOOLEAN, NEW exit \in BOOLEAN, SetCallbacks(enter, exit)
      PROVE  MachineInv'
  BY <1>5 DEF SetCallbacks
<1>6. ASSUME NEW d \in Delays, Pass(d) PROVE MachineInv'
  <2>1. d \in Nat
    BY MachineAssumption
  <2> QED BY <1>6, <2>1, PassOK
<1> QED BY <1>1, <1>2, <1>3, <1>4, <1>5, <1>6, ExitReturnsOK DEF MachineNext

LEMMA MachineInvariant == MachineSpec => []MachineInv
<1>1. MachineInit => MachineInv
  <2> SUFFICES ASSUME MachineInit PROVE MachineInv
    OBVIOUS
  <2>1. SmInit \in SmState /\ SmInit.state_enter_time = 0 /\ SmInit.timeout_ms = 0
    BY ClockFacts DEF SmInit, SmState, EcuState
  <2>2. 0 \in 0 .. TimeMod /\ Elapsed(0, 0) = 0 /\ 0 \in Time /\ MaxDepth \in Nat
    BY ClockFacts, MachineAssumption
  <2>3. /\ <<>> \in Seq(Frame) /\ Len(<<>>) = 0 /\ DOMAIN <<>> = {}
    OBVIOUS
  <2>4. MachineTypeOK
    <3>1. /\ sm \in SmState /\ on_enter \in BOOLEAN /\ on_exit \in BOOLEAN
          /\ now \in Time /\ armed \in Time /\ age \in 0 .. TimeMod
      BY <2>1, <2>2 DEF MachineInit
    <3>2. frames \in Seq(Frame) /\ Len(frames) <= MaxDepth
      BY <2>2, <2>3 DEF MachineInit
    <3> QED BY <3>1, <3>2 DEF MachineTypeOK
  <2> QED BY <2>1, <2>2, <2>3, <2>4 DEF MachineInit, MachineInv
<1> QED BY <1>1, MachineNextOK, PTL DEF MachineSpec

(* Type correctness of the machine and of its callbacks (core/ecu_sm.c).   *)
THEOREM MachineTypeCorrect == MachineSpec => []MachineTypeOK
<1>1. MachineInv => MachineTypeOK
  BY DEF MachineInv
<1> QED BY <1>1, MachineInvariant, PTL

(* The timeout test is exact although the clock wraps and callbacks take   *)
(* time (core/ecu_sm.c:48-52, 69-76), for every period of the clock.       *)
THEOREM MachineTimedOutExact == MachineSpec => []TimedOutExact
<1>1. MachineInv => TimedOutExact
  <2> SUFFICES ASSUME MachineInv, age < TimeMod
               PROVE  TimedOut <=> armed # 0 /\ age > armed
    BY DEF TimedOutExact
  <2> QED BY DEF MachineInv, TimedOut
<1> QED BY <1>1, MachineInvariant, PTL

(* Only a transition overtaken inside its exit callback leaves the table   *)
(* (core/ecu_sm.c:60-69), for every depth of nesting.                      *)
THEOREM MachineListed == MachineSpec => ListedUnlessOverruled
<1>1. MachineInv /\ [MachineNext]_machineVars =>
        [sm'.current # sm.current =>
           \/ <<sm.current, sm'.current>> \in ValidTransitions
           \/ frames # <<>> /\ Head(frames).overruled]_machineVars
  <2> SUFFICES ASSUME MachineInv, MachineNext, sm'.current # sm.current
               PROVE  \/ <<sm.current, sm'.current>> \in ValidTransitions
                      \/ frames # <<>> /\ Head(frames).overruled
    OBVIOUS
  <2>1. CASE Transit
    BY <2>1 DEF Transit, Request, Entered, Listed
  <2>2. CASE ExitReturns
    <3>1. frames # <<>> /\ Head(frames).stage = "exit" /\ sm'.current = Head(frames).next
      BY <2>2 DEF ExitReturns, Entered
    <3>2. 1 \in DOMAIN frames /\ Head(frames) = frames[1]
      BY <3>1 DEF MachineInv, MachineTypeOK
    <3> QED BY <3>1, <3>2 DEF MachineInv
  <2>3. CASE EnterReturns
    BY <2>3 DEF EnterReturns
  <2>4. ASSUME NEW ms \in Timeouts, SetTimeout(ms) PROVE sm'.current = sm.current
    BY <2>4 DEF SetTimeout, MachineInv, MachineTypeOK, SmState
  <2>5. ASSUME NEW enter \in BOOLEAN, NEW exit \in BOOLEAN, SetCallbacks(enter, exit)
        PROVE  sm' = sm
    BY <2>5 DEF SetCallbacks
  <2>6. ASSUME NEW d \in Delays, Pass(d) PROVE sm' = sm
    BY <2>6 DEF Pass
  <2> QED BY <2>1, <2>2, <2>3, <2>4, <2>5, <2>6 DEF MachineNext
<1> QED BY <1>1, MachineInvariant, PTL DEF MachineSpec, ListedUnlessOverruled

-----------------------------------------------------------------------------
(* The lookup tables.                                                      *)

(* Quotients.                                                              *)
LEMMA Multiple ==
  ASSUME NEW b \in Nat \ {0}, NEW z \in Int
  PROVE  /\ z >= 1 => b * z >= b
         /\ z <= -1 => b * z <= -b
         /\ b * z \in Int
OBVIOUS

LEMMA Quotient ==
  ASSUME NEW b \in Nat \ {0}, NEW a \in Int
  PROVE  /\ a \div b \in Int
         /\ b * (a \div b) \in Int
         /\ b * (a \div b) <= a /\ a < b * (a \div b) + b
OBVIOUS

LEMMA DivUnique ==
  ASSUME NEW b \in Nat \ {0}, NEW a \in Int, NEW q \in Int, b * q <= a, a < b * q + b
  PROVE  a \div b = q
<1> DEFINE p == a \div b
<1>1. /\ p \in Int /\ b * p \in Int /\ b * p <= a /\ a < b * p + b
  BY Quotient
<1> HIDE DEF p
<1>2. b * (p - q) = b * p - b * q /\ p - q \in Int /\ b * q \in Int
  BY <1>1
<1>3. ~(p - q >= 1)
  <2> SUFFICES ASSUME p - q >= 1 PROVE FALSE
    OBVIOUS
  <2>1. b * (p - q) >= b
    BY <1>2, Multiple
  <2> QED BY <1>1, <1>2, <2>1
<1>4. ~(p - q <= -1)
  <2> SUFFICES ASSUME p - q <= -1 PROVE FALSE
    OBVIOUS
  <2>1. b * (p - q) <= -b
    BY <1>2, Multiple
  <2> QED BY <1>1, <1>2, <2>1
<1>5. p = q
  BY <1>1, <1>3, <1>4
<1> QED BY <1>5 DEF p

LEMMA DivCancel ==
  ASSUME NEW d \in Nat \ {0}, NEW b \in Nat \ {0}, NEW a \in Int
  PROVE  (d * a) \div (d * b) = a \div b
<1> DEFINE q == a \div b
           m == d * b
<1>1. /\ q \in Int /\ b * q \in Int /\ b * q <= a /\ a < b * q + b
  BY Quotient
<1> HIDE DEF q
<1>2. /\ d * (b * q) <= d * a /\ d * a < d * (b * q + b)
  <2> DEFINE c == b * q
  <2>1. c \in Int /\ c <= a /\ a - c < b
    BY <1>1
  <2> HIDE DEF c
  <2>2. d * c <= d * a /\ d * a < d * (c + b)
    BY <2>1
  <2> QED BY <2>2 DEF c
<1>3. d * (b * q) = m * q /\ d * (b * q + b) = m * q + m
  BY <1>1
<1>4. m \in Nat \ {0} /\ d * a \in Int
  <2>1. m >= d
    OBVIOUS
  <2> QED BY <2>1
<1> HIDE DEF m
<1>5. (d * a) \div m = q
  <2> DEFINE e == d * a
  <2>1. m * q <= e /\ e < m * q + m /\ e \in Int
    BY <1>2, <1>3, <1>4
  <2> HIDE DEF e
  <2>2. e \div m = q
    BY <1>1, <1>4, <2>1, DivUnique
  <2> QED BY <2>2 DEF e
<1> QED BY <1>5 DEF q, m

LEMMA DivAdd ==
  ASSUME NEW b \in Nat \ {0}, NEW a \in Int, NEW m \in Int
  PROVE  (b * a + m) \div b = a + m \div b
<1> DEFINE q == m \div b
           s == b * a + m
<1>1. /\ q \in Int /\ b * q \in Int /\ b * q <= m /\ m < b * q + b
  BY Quotient
<1> HIDE DEF q
<1>2. b * (a + q) = b * a + b * q /\ b * a \in Int /\ a + q \in Int
  BY <1>1
<1>3. b * (a + q) <= s /\ s < b * (a + q) + b /\ s \in Int
  BY <1>1, <1>2
<1> HIDE DEF s
<1>4. s \div b = a + q
  BY <1>2, <1>3, DivUnique
<1> QED BY <1>4 DEF s, q

-----------------------------------------------------------------------------
(* The interval a key falls into.                                          *)
Holding(keys, k, i) == keys[i] <= k /\ k <= keys[i + 1]

First(keys, k, i) ==
  /\ i \in 1 .. Len(keys) - 1 /\ Holding(keys, k, i)
  /\ \A j \in 1 .. i - 1 : ~Holding(keys, k, j)

LEMMA IntervalCases ==
  ASSUME NEW keys \in Seq(Int), NEW k \in Int, Len(keys) # 0
  PROVE  \/ Interval(keys, k) = At(1) /\ (Len(keys) = 1 \/ k <= keys[1])
         \/ /\ Interval(keys, k) = At(Len(keys))
            /\ Len(keys) # 1 /\ ~(k <= keys[1])
            /\ k >= keys[Len(keys)] \/ \A i \in 1 .. Len(keys) - 1 : ~Holding(keys, k, i)
         \/ /\ Len(keys) # 1 /\ ~(k <= keys[1]) /\ ~(k >= keys[Len(keys)])
            /\ \E i \in 1 .. Len(keys) - 1 :
                 First(keys, k, i) /\ Interval(keys, k) = Between(keys, i, k)
<1> DEFINE n == Len(keys)
           holds == {i \in 1 .. n - 1 : keys[i] <= k /\ k <= keys[i + 1]}
           least == CHOOSE i \in holds : \A j \in holds : i <= j
<1>1. n \in Nat \ {0} /\ (n < 2 <=> n = 1)
  <2>1. n \in Nat /\ n # 0
    BY LenProperties
  <2> HIDE DEF n
  <2> QED BY <2>1
<1>2. Interval(keys, k) = IF n < 2 \/ k <= keys[1] THEN At(1)
                          ELSE IF k >= keys[n] \/ holds = {} THEN At(n)
                          ELSE Between(keys, least, k)
  BY DEF Interval
<1>3. holds = {} <=> \A i \in 1 .. n - 1 : ~Holding(keys, k, i)
  BY DEF Holding
<1>4. ASSUME holds # {} PROVE First(keys, k, least)
  <2>1. holds \in SUBSET Nat
    OBVIOUS
  <2>2. \A i \in holds : i \in 1 .. n - 1 /\ Holding(keys, k, i)
    BY DEF Holding
  <2>3. \A i \in 1 .. n - 1 : Holding(keys, k, i) => i \in holds
    BY DEF Holding
  <2> HIDE DEF holds
  <2>4. \E i \in holds : \A j \in holds : i <= j
    BY <1>4, <2>1, LeastNumber
  <2>5. least \in holds /\ \A j \in holds : least <= j
    BY <2>4
  <2> HIDE DEF least, n
  <2>6. ASSUME NEW j \in 1 .. least - 1 PROVE ~Holding(keys, k, j)
    <3>1. least \in 1 .. n - 1
      BY <2>2, <2>5
    <3>2. j \in 1 .. n - 1 /\ ~(least <= j)
      BY <1>1, <3>1
    <3> QED BY <2>3, <2>5, <3>2
  <2> QED BY <2>2, <2>5, <2>6 DEF First, n
<1> HIDE DEF holds, least, n
<1>5. CASE n < 2 \/ k <= keys[1]
  BY <1>1, <1>2, <1>5 DEF n
<1>6. CASE ~(n < 2 \/ k <= keys[1]) /\ (k >= keys[n] \/ holds = {})
  BY <1>1, <1>2, <1>3, <1>6 DEF n
<1>7. CASE ~(n < 2 \/ k <= keys[1]) /\ ~(k >= keys[n] \/ holds = {})
  <2>1. First(keys, k, least) /\ Interval(keys, k) = Between(keys, least, k)
    BY <1>2, <1>4, <1>7
  <2>2. least \in 1 .. Len(keys) - 1
    BY <2>1 DEF First
  <2> QED BY <1>1, <1>7, <2>1, <2>2 DEF n
<1> QED BY <1>5, <1>6, <1>7

LEMMA IntervalFacts ==
  ASSUME NEW keys \in Seq(Int), NEW k \in Int, Len(keys) # 0
  PROVE  LET v == Interval(keys, k)
         IN v.lo \in DOMAIN keys /\ v.hi \in DOMAIN keys /\ v.num \in Int /\ v.den \in Nat \ {0}
<1> DEFINE n == Len(keys)
           v == Interval(keys, k)
<1>1. n \in Nat \ {0} /\ DOMAIN keys = 1 .. n /\ \A i \in 1 .. n : keys[i] \in Int
  BY LenProperties, ElementOfSeq
<1> HIDE DEF n
<1>2. ASSUME NEW m \in 1 .. n, v = At(m)
      PROVE  v.lo \in 1 .. n /\ v.hi \in 1 .. n /\ v.num \in Int /\ v.den \in Nat \ {0}
  BY <1>2 DEF At
<1>3. ASSUME NEW i \in 1 .. n - 1, v = Between(keys, i, k)
      PROVE  v.lo \in 1 .. n /\ v.hi \in 1 .. n /\ v.num \in Int /\ v.den \in Nat \ {0}
  <2>1. i \in 1 .. n /\ i + 1 \in 1 .. n
    BY <1>1
  <2>2. keys[i] \in Int /\ keys[i + 1] \in Int
    BY <1>1, <2>1
  <2> QED BY <1>3, <2>1, <2>2 DEF Between
<1>4. 1 \in 1 .. n /\ n \in 1 .. n
  BY <1>1
<1>5. v = At(1) \/ v = At(n) \/ \E i \in 1 .. n - 1 : v = Between(keys, i, k)
  BY IntervalCases DEF n
<1> QED BY <1>1, <1>2, <1>3, <1>4, <1>5

LEMMA LookupIs ==
  ASSUME NEW map, NEW k
  PROVE  LET n == Len(map)
             Meets(i) == map[i].x <= k /\ k <= map[i + 1].x
             place == CHOOSE i \in 1 .. n - 1 : Meets(i) /\ \A j \in 1 .. i - 1 : ~Meets(j)
         IN Lookup(map, k) = IF n = 0 THEN 0
                             ELSE IF k <= map[1].x THEN map[1].y
                             ELSE IF k >= map[n].x THEN map[n].y
                             ELSE IF \E i \in 1 .. n - 1 : Meets(i)
                                  THEN Interpolate(map[place], map[place + 1], k)
                                  ELSE map[n].y
BY DEF Lookup

(* The linear lookup by the same cases.                                    *)
LEMMA LookupCases ==
  ASSUME NEW keys \in Seq(Int), NEW k \in Int, Len(keys) # 0, NEW vals
  PROVE  LET map == [i \in DOMAIN keys |-> [x |-> keys[i], y |-> vals[i]]]
         IN /\ (Len(keys) = 1 \/ k <= keys[1]) => Lookup(map, k) = vals[1]
            /\ /\ Len(keys) # 1 /\ ~(k <= keys[1])
               /\ k >= keys[Len(keys)] \/ \A i \in 1 .. Len(keys) - 1 : ~Holding(keys, k, i)
               => Lookup(map, k) = vals[Len(keys)]
            /\ \A i \in 1 .. Len(keys) - 1 :
                 (First(keys, k, i) /\ ~(k <= keys[1]) /\ ~(k >= keys[Len(keys)]))
                 => Lookup(map, k) = Interpolate([x |-> keys[i], y |-> vals[i]],
                                                 [x |-> keys[i + 1], y |-> vals[i + 1]], k)
<1> DEFINE map == [i \in DOMAIN keys |-> [x |-> keys[i], y |-> vals[i]]]
           n == Len(map)
           Meets(i) == map[i].x <= k /\ k <= map[i + 1].x
           place == CHOOSE i \in 1 .. n - 1 : Meets(i) /\ \A j \in 1 .. i - 1 : ~Meets(j)
<1>0. n = Len(keys)
  <2>1. Len(keys) \in Nat /\ DOMAIN keys = 1 .. Len(keys)
    BY LenProperties
  <2> QED BY <2>1
<1>1. n \in Nat \ {0} /\ DOMAIN keys = 1 .. n /\ \A i \in 1 .. n : keys[i] \in Int
  <2> HIDE DEF n
  <2> QED BY <1>0, LenProperties, ElementOfSeq
<1>3. \A i \in 1 .. n : map[i] = [x |-> keys[i], y |-> vals[i]]
  BY <1>1
<1>4. Lookup(map, k) = IF n = 0 THEN 0
                       ELSE IF k <= map[1].x THEN map[1].y
                       ELSE IF k >= map[n].x THEN map[n].y
                       ELSE IF \E i \in 1 .. n - 1 : Meets(i)
                            THEN Interpolate(map[place], map[place + 1], k)
                            ELSE map[n].y
  BY LookupIs, Zenon
<1> HIDE DEF n, map, Meets, place
<1>5. \A i \in 1 .. n : map[i].x = keys[i] /\ map[i].y = vals[i]
  <2> SUFFICES ASSUME NEW i \in 1 .. n PROVE map[i].x = keys[i] /\ map[i].y = vals[i]
    OBVIOUS
  <2> DEFINE p == [x |-> keys[i], y |-> vals[i]]
  <2>1. map[i] = p /\ p.x = keys[i] /\ p.y = vals[i]
    BY <1>3
  <2> QED BY <2>1, Zenon
<1> USE DEF Meets, place
<1>6. 1 \in 1 .. n /\ n \in 1 .. n /\ \A i \in 1 .. n - 1 : i \in 1 .. n /\ i + 1 \in 1 .. n
  BY <1>1
<1>7. \A i \in 1 .. n - 1 : Meets(i) <=> Holding(keys, k, i)
  BY <1>5, <1>6 DEF Holding
<1>8. ASSUME n = 1 \/ k <= keys[1] PROVE Lookup(map, k) = vals[1]
  <2>1. CASE k <= keys[1]
    BY <1>1, <1>4, <1>5, <1>6, <2>1
  <2>2. CASE n = 1 /\ ~(k <= keys[1])
    <3>1. k >= keys[1] /\ n # 0
      BY <1>1, <1>6, <2>2
    <3>2. map[1].x = keys[1] /\ map[1].y = vals[1]
      BY <1>5, <1>6
    <3> QED BY <1>4, <2>2, <3>1, <3>2
  <2> QED BY <1>8, <2>1, <2>2
<1>9. ASSUME ~(k <= keys[1]),
             k >= keys[n] \/ \A i \in 1 .. n - 1 : ~Holding(keys, k, i)
      PROVE  Lookup(map, k) = vals[n]
  <2>1. /\ map[1].x = keys[1] /\ map[n].x = keys[n] /\ map[n].y = vals[n] /\ n # 0
    BY <1>1, <1>5, <1>6
  <2>2. k >= keys[n] \/ ~(\E i \in 1 .. n - 1 : Meets(i))
    BY <1>7, <1>9
  <2> HIDE DEF Meets, place
  <2> QED BY <1>4, <1>9, <2>1, <2>2
<1>10. ASSUME NEW i \in 1 .. n - 1, First(keys, k, i), ~(k <= keys[1]), ~(k >= keys[n])
       PROVE  Lookup(map, k) = Interpolate([x |-> keys[i], y |-> vals[i]],
                                           [x |-> keys[i + 1], y |-> vals[i + 1]], k)
  <2>1. Meets(i) /\ \A j \in 1 .. i - 1 : ~Meets(j)
    <3>1. \A j \in 1 .. i - 1 : j \in 1 .. n - 1
      BY <1>1
    <3> HIDE DEF Meets
    <3> QED BY <1>7, <1>10, <3>1 DEF First
  <2>2. \A j \in 1 .. n - 1 : (Meets(j) /\ \A h \in 1 .. j - 1 : ~Meets(h)) => j = i
    <3> HIDE DEF Meets
    <3> SUFFICES ASSUME NEW j \in 1 .. n - 1, Meets(j), \A h \in 1 .. j - 1 : ~Meets(h),
                        j # i
                 PROVE  FALSE
      OBVIOUS
    <3>1. j \in 1 .. i - 1 \/ i \in 1 .. j - 1
      BY <1>1
    <3> QED BY <2>1, <3>1
  <2> HIDE DEF Meets
  <2>3. place = i
    BY <2>1, <2>2
  <2>4. /\ map[1].x = keys[1] /\ map[n].x = keys[n] /\ n # 0
    BY <1>1, <1>5, <1>6
  <2>5. map[i] = [x |-> keys[i], y |-> vals[i]] /\ map[i + 1] = [x |-> keys[i + 1], y |-> vals[i + 1]]
    BY <1>3, <1>6
  <2> HIDE DEF place
  <2> QED BY <1>4, <1>10, <2>1, <2>3, <2>4, <2>5
<1> QED BY <1>0, <1>8, <1>9, <1>10 DEF map

(* Blending two neighbours is linear interpolation between them.           *)
LEMMA LinearBlend ==
  ASSUME NEW keys \in Seq(Int), NEW k \in Int, Len(keys) # 0,
         NEW vals, \A i \in DOMAIN keys : vals[i] \in Int
  PROVE  LET v == Interval(keys, k)
         IN Blend(v, vals[v.lo], vals[v.hi]) \div v.den
              = Lookup([i \in DOMAIN keys |-> [x |-> keys[i], y |-> vals[i]]], k)
<1> DEFINE n == Len(keys)
           v == Interval(keys, k)
           answer == Lookup([i \in DOMAIN keys |-> [x |-> keys[i], y |-> vals[i]]], k)
<1>1. /\ n \in Nat \ {0} /\ \A i \in 1 .. n : keys[i] \in Int
      /\ \A i \in 1 .. n : vals[i] \in Int
  BY LenProperties, ElementOfSeq
<1>2. ASSUME NEW m \in 1 .. n, v = At(m) PROVE Blend(v, vals[v.lo], vals[v.hi]) \div v.den = vals[m]
  <2> DEFINE a == vals[m]
  <2>1. v.lo = m /\ v.hi = m /\ v.num = 0 /\ v.den = 1
    BY <1>2 DEF At
  <2>2. a \in Int
    BY <1>1
  <2> HIDE DEF a, v
  <2>3. Blend(v, a, a) = a
    BY <2>1, <2>2 DEF Blend
  <2>4. a \div 1 = a
    BY <2>2
  <2> QED BY <2>1, <2>3, <2>4 DEF a
<1>3. ASSUME NEW i \in 1 .. n - 1, v = Between(keys, i, k), First(keys, k, i)
      PROVE  Blend(v, vals[v.lo], vals[v.hi]) \div v.den
               = Interpolate([x |-> keys[i], y |-> vals[i]],
                             [x |-> keys[i + 1], y |-> vals[i + 1]], k)
  <2> DEFINE p == keys[i]
             q == keys[i + 1]
             a == vals[i]
             b == vals[i + 1]
  <2>1. i \in 1 .. n /\ i + 1 \in 1 .. n
    BY <1>1
  <2>2. p \in Int /\ q \in Int /\ a \in Int /\ b \in Int /\ p <= k /\ k <= q
    BY <1>1, <1>3, <2>1 DEF First, Holding
  <2>3. v = IF q > p THEN [lo |-> i, hi |-> i + 1, num |-> k - p, den |-> q - p]
            ELSE [lo |-> i, hi |-> i + 1, num |-> 0, den |-> 1]
    BY <1>3 DEF Between
  <2> HIDE DEF p, q, a, b, v
  <2>4. vals[v.lo] = a /\ vals[v.hi] = b
    BY <2>3 DEF a, b
  <2>5. Interpolate([x |-> p, y |-> a], [x |-> q, y |-> b], k)
          = IF q = p THEN a ELSE a + ((k - p) * (b - a)) \div (q - p)
    BY DEF Interpolate
  <2>6. CASE q = p
    <3>1. v.num = 0 /\ v.den = 1
      BY <2>2, <2>3, <2>6
    <3>2. Blend(v, a, b) = a
      BY <2>2, <3>1 DEF Blend
    <3>3. a \div 1 = a
      BY <2>2
    <3> QED BY <2>4, <2>5, <2>6, <3>1, <3>2, <3>3 DEF p, q, a, b
  <2>7. CASE q # p
    <3> DEFINE d == q - p
               c == k - p
               m == c * (b - a)
    <3>1. v.num = c /\ v.den = d /\ d \in Nat \ {0} /\ c \in Int
      BY <2>2, <2>3, <2>7
    <3>2. m \in Int
      BY <2>2, <3>1
    <3>3. Blend(v, a, b) = (d - c) * a + c * b
      BY <3>1 DEF Blend
    <3> HIDE DEF c, d
    <3>4. (d - c) * a + c * b = d * a + m
      BY <2>2, <3>1
    <3> HIDE DEF m
    <3>5. (d * a + m) \div d = a + m \div d
      BY <2>2, <3>1, <3>2, DivAdd
    <3>6. Interpolate([x |-> p, y |-> a], [x |-> q, y |-> b], k) = a + m \div d
      BY <2>5, <2>7 DEF m, c, d
    <3> QED BY <2>4, <3>1, <3>3, <3>4, <3>5, <3>6 DEF p, q, a, b
  <2> QED BY <2>6, <2>7
<1>4. 1 \in 1 .. n /\ n \in 1 .. n
  BY <1>1
<1> DEFINE both == Blend(v, vals[v.lo], vals[v.hi]) \div v.den
<1>9. /\ (n = 1 \/ k <= keys[1]) => answer = vals[1]
      /\ /\ n # 1 /\ ~(k <= keys[1])
         /\ k >= keys[n] \/ \A i \in 1 .. n - 1 : ~Holding(keys, k, i)
         => answer = vals[n]
      /\ \A i \in 1 .. n - 1 :
           (First(keys, k, i) /\ ~(k <= keys[1]) /\ ~(k >= keys[n]))
           => answer = Interpolate([x |-> keys[i], y |-> vals[i]],
                                 [x |-> keys[i + 1], y |-> vals[i + 1]], k)
  BY LookupCases, Zenon
<1> SUFFICES both = answer
  OBVIOUS
<1> HIDE DEF v, answer, n, both
<1>5. CASE v = At(1) /\ (n = 1 \/ k <= keys[1])
  BY <1>2, <1>4, <1>5, <1>9 DEF both
<1>6. CASE /\ v = At(n) /\ n # 1 /\ ~(k <= keys[1])
           /\ k >= keys[n] \/ \A i \in 1 .. n - 1 : ~Holding(keys, k, i)
  BY <1>2, <1>4, <1>6, <1>9 DEF both
<1>7. ASSUME ~(k <= keys[1]), ~(k >= keys[n]), NEW i \in 1 .. n - 1, First(keys, k, i),
             v = Between(keys, i, k)
      PROVE  both = answer
  BY <1>3, <1>7, <1>9 DEF both
<1>8. \/ v = At(1) /\ (n = 1 \/ k <= keys[1])
      \/ /\ v = At(n) /\ n # 1 /\ ~(k <= keys[1])
         /\ k >= keys[n] \/ \A i \in 1 .. n - 1 : ~Holding(keys, k, i)
      \/ /\ ~(k <= keys[1]) /\ ~(k >= keys[n])
         /\ \E i \in 1 .. n - 1 : First(keys, k, i) /\ v = Between(keys, i, k)
  BY IntervalCases DEF v, n
<1> QED BY <1>5, <1>6, <1>7, <1>8

(* Keys in the order core/ecu_map.h:32-33 asks for.                        *)
Ascending(keys) == \A i, j \in DOMAIN keys : i <= j => keys[i] <= keys[j]

SettledOn(keys, k) ==
  \/ \E r \in DOMAIN keys : keys[r] = k
  \/ \A r \in DOMAIN keys : keys[r] < k
  \/ \A r \in DOMAIN keys : keys[r] > k

(* On a key, and outside of all of them, one row alone counts.             *)
LEMMA Settles ==
  ASSUME NEW keys \in Seq(Int), NEW k \in Int, Len(keys) # 0, Ascending(keys), SettledOn(keys, k)
  PROVE  LET v == Interval(keys, k)
         IN (v.num = 0 /\ v.den = 1 /\ v.hi = v.lo) \/ v.num = v.den
<1> DEFINE n == Len(keys)
           v == Interval(keys, k)
<1>1. n \in Nat \ {0} /\ DOMAIN keys = 1 .. n /\ \A i \in 1 .. n : keys[i] \in Int
  BY LenProperties, ElementOfSeq
<1>2. \A m : v = At(m) => v.num = 0 /\ v.den = 1 /\ v.hi = v.lo
  BY DEF At
<1> HIDE DEF n, v
<1>3. ASSUME ~(k <= keys[1]), ~(k >= keys[n]), NEW i \in 1 .. n - 1, First(keys, k, i),
             v = Between(keys, i, k)
      PROVE  v.num = v.den
  <2>1. 1 \in 1 .. n /\ n \in 1 .. n /\ i \in 1 .. n /\ i + 1 \in 1 .. n
    BY <1>1
  <2>2. keys[i] <= k /\ k <= keys[i + 1] /\ \A j \in 1 .. i - 1 : ~Holding(keys, k, j)
    BY <1>3 DEF First, Holding
  <2>3. PICK r \in 1 .. n : keys[r] = k
    <3>1. keys[1] < k /\ keys[n] > k /\ keys[1] \in Int /\ keys[n] \in Int
      BY <1>1, <1>3, <2>1
    <3>2. ~(keys[n] < k) /\ ~(keys[1] > k)
      BY <3>1
    <3> QED BY <1>1, <2>1, <3>2 DEF SettledOn
  <2>4. keys[i] # k
    <3> SUFFICES ASSUME keys[i] = k PROVE FALSE
      OBVIOUS
    <3>1. i # 1
      BY <1>1, <1>3, <2>1
    <3>2. i - 1 \in 1 .. i - 1 /\ i - 1 \in 1 .. n /\ i - 1 <= i /\ (i - 1) + 1 = i
      BY <1>1, <3>1
    <3>3. keys[i - 1] <= k
      BY <1>1, <2>1, <3>2 DEF Ascending
    <3>4. Holding(keys, k, i - 1)
      BY <2>2, <3>2, <3>3 DEF Holding
    <3> QED BY <2>2, <3>2, <3>4
  <2>5. r >= i + 1
    <3> SUFFICES ASSUME ~(r >= i + 1) PROVE FALSE
      OBVIOUS
    <3>1. r <= i
      BY <1>1
    <3>2. keys[r] <= keys[i]
      BY <1>1, <2>1, <3>1 DEF Ascending
    <3> QED BY <1>1, <2>1, <2>2, <2>3, <2>4, <3>2
  <2>6. keys[i + 1] <= k
    BY <1>1, <2>1, <2>3, <2>5 DEF Ascending
  <2>7. keys[i + 1] = k /\ keys[i + 1] > keys[i]
    BY <1>1, <2>1, <2>2, <2>4, <2>6
  <2> QED BY <1>3, <2>7 DEF Between
<1>4. v = At(1) \/ v = At(n) \/
      /\ ~(k <= keys[1]) /\ ~(k >= keys[n])
      /\ \E i \in 1 .. n - 1 : First(keys, k, i) /\ v = Between(keys, i, k)
  BY IntervalCases DEF v, n
<1> QED BY <1>2, <1>3, <1>4 DEF v

-----------------------------------------------------------------------------
(* The tables.                                                             *)

TableInv ==
  /\ table.rowKeys \in Seq(Int) /\ table.colKeys \in Seq(Int)
  /\ table.values \in [DOMAIN table.rowKeys -> [DOMAIN table.colKeys -> Int]]

AnswerInv ==
  query # <<>> =>
    /\ query[1] \in Int /\ query[2] \in Int
    /\ result = Lookup2(table, query[1], query[2])

LEMMA FirstNFacts ==
  ASSUME NEW s \in Seq(Int), NEW m \in Nat
  PROVE  /\ FirstN(s, m) \in Seq(Int)
         /\ \A i \in DOMAIN FirstN(s, m) : i \in DOMAIN s /\ FirstN(s, m)[i] = s[i]
<1> DEFINE n == Len(s)
           k == IF n < m THEN n ELSE m
           f == SubSeq(s, 1, k)
<1>1. n \in Nat /\ DOMAIN s = 1 .. n
  BY LenProperties
<1>2. k \in 0 .. n /\ \A i \in 1 .. k : i \in 1 .. n
  <2> HIDE DEF n
  <2> QED BY <1>1
<1>3. FirstN(s, m) = f
  BY DEF FirstN
<1> HIDE DEF k, n
<1>4. f \in Seq(Int) /\ Len(f) = k /\ \A i \in 1 .. k : f[i] = s[i]
  <2>1. k \in Nat /\ 1 \in 1 .. n + 1 /\ k \in 1 - 1 .. n /\ (k - 1) + 1 = k
    BY <1>1, <1>2
  <2>2. /\ f \in Seq(Int) /\ Len(f) = (k - 1) + 1
        /\ \A i \in 1 .. (k - 1) + 1 : f[i] = s[(1 + i) - 1]
    BY <2>1, SubSeqProperties DEF n
  <2>3. \A i \in 1 .. k : (1 + i) - 1 = i
    BY <2>1
  <2> HIDE DEF f
  <2> QED BY <2>1, <2>2, <2>3
<1>5. DOMAIN f = 1 .. k
  <2> HIDE DEF f
  <2> QED BY <1>4, LenProperties
<1> QED BY <1>1, <1>2, <1>3, <1>4, <1>5

LEMMA TablesTyped ==
  TableInv /\ AnswerInv /\ [MapNext]_mapVars => TableInv' /\ AnswerInv'
<1> SUFFICES ASSUME TableInv, AnswerInv, [MapNext]_mapVars PROVE TableInv' /\ AnswerInv'
  OBVIOUS
<1>1. ASSUME NEW t \in Tables, Build(t) PROVE TableInv' /\ AnswerInv'
  <2> DEFINE rows == FirstN(t.rowKeys, MaxRows)
             cols == FirstN(t.colKeys, MaxCols)
  <2>1. rows \in Seq(Int) /\ cols \in Seq(Int)
    BY FirstNFacts, Map2DAssumption
  <2>2. /\ table' = [rowKeys |-> rows, colKeys |-> cols,
                     values |-> [r \in DOMAIN rows |->
                                  [c \in DOMAIN cols |-> Cell(t.values, r, c)]]]
        /\ query' = <<>>
    BY <1>1 DEF Build
  <2>3. \A r, c : Cell(t.values, r, c) \in Int
    <3> SUFFICES ASSUME NEW r, NEW c, r \in DOMAIN t.values, c \in DOMAIN t.values[r]
                 PROVE  t.values[r][c] \in Int
      BY DEF Cell
    <3>1. t.values[r] \in Seq(Int)
      BY Map2DAssumption, ElementOfSeq, LenProperties
    <3> QED BY <3>1, ElementOfSeq, LenProperties
  <2> HIDE DEF rows, cols
  <2> QED BY <2>1, <2>2, <2>3 DEF TableInv, AnswerInv
<1>2. ASSUME NEW row \in Queries, NEW col \in Queries, Look(row, col)
      PROVE  TableInv' /\ AnswerInv'
  <2>1. row \in Int /\ col \in Int
    BY Map2DAssumption
  <2>2. query' = <<row, col>> /\ result' = Lookup2(table, row, col) /\ table' = table
    BY <1>2 DEF Look
  <2>3. query'[1] = row /\ query'[2] = col
    BY <2>2
  <2> QED BY <2>1, <2>2, <2>3 DEF TableInv, AnswerInv
<1>3. CASE UNCHANGED mapVars
  BY <1>3 DEF mapVars, TableInv, AnswerInv
<1> QED BY <1>1, <1>2, <1>3 DEF MapNext

LEMMA TableInvariant == MapSpec => [](TableInv /\ AnswerInv)
<1>1. MapInit => TableInv /\ AnswerInv
  BY DEF MapInit, Empty, TableInv, AnswerInv
<1> QED BY <1>1, TablesTyped, PTL DEF MapSpec

(* What a lookup returns, in terms of the intervals.                       *)
LEMMA Lookup2Is ==
  ASSUME NEW t, NEW row, NEW col, t.rowKeys # <<>>, t.colKeys # <<>>
  PROVE  LET r == Interval(t.rowKeys, row)
             c == Interval(t.colKeys, col)
             Line(i) == Blend(c, t.values[i][c.lo], t.values[i][c.hi])
         IN Lookup2(t, row, col) = [num |-> Blend(r, Line(r.lo), Line(r.hi)),
                                    den |-> r.den * c.den]
BY DEF Lookup2

LEMMA BlendSwaps ==
  ASSUME NEW r, NEW c, r.num \in Int, r.den \in Int, c.num \in Int, c.den \in Int,
         NEW v11 \in Int, NEW v12 \in Int, NEW v21 \in Int, NEW v22 \in Int
  PROVE  Blend(r, Blend(c, v11, v12), Blend(c, v21, v22))
           = Blend(c, Blend(r, v11, v21), Blend(r, v12, v22))
<1> DEFINE d == c.den - c.num
           n == c.num
           e == r.den - r.num
           m == r.num
<1>1. d \in Int /\ n \in Int /\ e \in Int /\ m \in Int
  OBVIOUS
<1> SUFFICES e * (d * v11 + n * v12) + m * (d * v21 + n * v22)
               = d * (e * v11 + m * v21) + n * (e * v12 + m * v22)
  BY DEF Blend
<1> HIDE DEF d, n, e, m
<1> QED BY <1>1

LEMMA AnswerTyped ==
  ASSUME TableInv, AnswerInv, query # <<>>, table.rowKeys # <<>>, table.colKeys # <<>>
  PROVE  LET r == Interval(table.rowKeys, query[1])
             c == Interval(table.colKeys, query[2])
         IN /\ Len(table.rowKeys) # 0 /\ Len(table.colKeys) # 0
            /\ query[1] \in Int /\ query[2] \in Int
            /\ r.lo \in DOMAIN table.rowKeys /\ r.hi \in DOMAIN table.rowKeys
            /\ c.lo \in DOMAIN table.colKeys /\ c.hi \in DOMAIN table.colKeys
            /\ r.num \in Int /\ r.den \in Nat \ {0} /\ c.num \in Int /\ c.den \in Nat \ {0}
            /\ \A i \in DOMAIN table.rowKeys, j \in DOMAIN table.colKeys : table.values[i][j] \in Int
<1>1. table.rowKeys \in Seq(Int) /\ table.colKeys \in Seq(Int) /\ query[1] \in Int /\ query[2] \in Int
  BY DEF TableInv, AnswerInv
<1>2. Len(table.rowKeys) # 0 /\ Len(table.colKeys) # 0
  BY <1>1, EmptySeq
<1>3. \A i \in DOMAIN table.rowKeys, j \in DOMAIN table.colKeys : table.values[i][j] \in Int
  BY DEF TableInv
<1> QED BY <1>1, <1>2, <1>3, IntervalFacts

LEMMA TransposeAgrees ==
  ASSUME TableInv, AnswerInv
  PROVE  Symmetric
<1> SUFFICES ASSUME query # <<>>
             PROVE  LET other == Lookup2(Transposed(table), query[2], query[1])
                    IN result.num * other.den = other.num * result.den
  BY DEF Symmetric
<1> DEFINE t == Transposed(table)
           other == Lookup2(t, query[2], query[1])
           r == Interval(table.rowKeys, query[1])
           c == Interval(table.colKeys, query[2])
           v == table.values
<1>1. t.rowKeys = table.colKeys /\ t.colKeys = table.rowKeys /\ result = Lookup2(table, query[1], query[2])
  BY DEF Transposed, AnswerInv
<1>2. CASE table.rowKeys = <<>> \/ table.colKeys = <<>>
  <2>1. result = Zero /\ other = Zero
    BY <1>1, <1>2 DEF Lookup2
  <2> QED BY <2>1 DEF Zero
<1>3. CASE table.rowKeys # <<>> /\ table.colKeys # <<>>
  <2>1. /\ r.lo \in DOMAIN table.rowKeys /\ r.hi \in DOMAIN table.rowKeys
        /\ c.lo \in DOMAIN table.colKeys /\ c.hi \in DOMAIN table.colKeys
        /\ r.num \in Int /\ r.den \in Nat \ {0} /\ c.num \in Int /\ c.den \in Nat \ {0}
        /\ \A i \in DOMAIN table.rowKeys, j \in DOMAIN table.colKeys : v[i][j] \in Int
    BY <1>3, AnswerTyped
  <2>2. result = [num |-> Blend(r, Blend(c, v[r.lo][c.lo], v[r.lo][c.hi]),
                                   Blend(c, v[r.hi][c.lo], v[r.hi][c.hi])),
                  den |-> r.den * c.den]
    BY <1>1, <1>3, Lookup2Is
  <2>3. other = [num |-> Blend(c, Blend(r, t.values[c.lo][r.lo], t.values[c.lo][r.hi]),
                                  Blend(r, t.values[c.hi][r.lo], t.values[c.hi][r.hi])),
                 den |-> c.den * r.den]
    BY <1>1, <1>3, Lookup2Is
  <2>4. \A i \in DOMAIN table.rowKeys, j \in DOMAIN table.colKeys : t.values[j][i] = v[i][j]
    BY DEF Transposed
  <2> HIDE DEF t, r, c, v, other
  <2>5. result.num = other.num
    <3>1. /\ t.values[c.lo][r.lo] = v[r.lo][c.lo] /\ t.values[c.lo][r.hi] = v[r.hi][c.lo]
          /\ t.values[c.hi][r.lo] = v[r.lo][c.hi] /\ t.values[c.hi][r.hi] = v[r.hi][c.hi]
      BY <2>1, <2>4
    <3> QED BY <2>1, <2>2, <2>3, <3>1, BlendSwaps
  <2>6. result.den = other.den
    BY <2>1, <2>2, <2>3
  <2> QED BY <2>5, <2>6 DEF other, t
<1> QED BY <1>2, <1>3

(* A blend with all its weight on one side.                                *)
LEMMA OneSided ==
  ASSUME NEW r, r.num \in Int, r.den \in Nat \ {0},
         (r.num = 0 /\ r.den = 1 /\ r.hi = r.lo) \/ r.num = r.den,
         NEW f, f[r.lo] \in Int, f[r.hi] \in Int
  PROVE  Blend(r, f[r.lo], f[r.hi]) = r.den * f[r.hi]
<1> DEFINE a == f[r.lo]
           b == f[r.hi]
           d == r.den
<1>1. a \in Int /\ b \in Int /\ d \in Nat
  OBVIOUS
<1>2. CASE r.num = 0 /\ r.den = 1 /\ r.hi = r.lo
  BY <1>1, <1>2 DEF Blend
<1>3. CASE r.num = r.den
  <2>1. Blend(r, a, b) = (d - d) * a + d * b
    BY <1>3 DEF Blend
  <2> HIDE DEF a, b, d
  <2>2. (d - d) * a + d * b = d * b
    BY <1>1
  <2> QED BY <2>1, <2>2 DEF a, b, d
<1> QED BY <1>2, <1>3

LEMMA RowAlone ==
  ASSUME TableInv, AnswerInv, Ascending(table.rowKeys)
  PROVE  RowsAgree
<1> DEFINE keys == table.rowKeys
           cols == table.colKeys
           r == Interval(keys, query[1])
           c == Interval(cols, query[2])
           v == table.values
           row == Lookup([i \in DOMAIN keys |-> [x |-> keys[i], y |-> i]], query[1])
<1> SUFFICES ASSUME query # <<>>, keys # <<>>, SettledOn(keys, query[1])
             PROVE  result.num \div result.den = Lookup(RowMap(row), query[2])
  BY DEF RowsAgree, SettledOn
<1>1. keys \in Seq(Int) /\ cols \in Seq(Int) /\ result = Lookup2(table, query[1], query[2])
  BY DEF TableInv, AnswerInv
<1>2. CASE cols = <<>>
  <2>1. result = Zero
    BY <1>1, <1>2 DEF Lookup2
  <2>2. 0 \div 1 = 0
    OBVIOUS
  <2>3. Len(RowMap(row)) = 0
    <3> HIDE DEF row
    <3> QED BY <1>2 DEF RowMap
  <2>4. Lookup(RowMap(row), query[2]) = 0
    <3> HIDE DEF row
    <3> QED BY <2>3 DEF Lookup
  <2> QED BY <2>1, <2>2, <2>4 DEF Zero
<1>3. CASE cols # <<>>
  <2>1. /\ Len(keys) # 0 /\ Len(cols) # 0
        /\ query[1] \in Int /\ query[2] \in Int
        /\ r.lo \in DOMAIN keys /\ r.hi \in DOMAIN keys
        /\ c.lo \in DOMAIN cols /\ c.hi \in DOMAIN cols
        /\ r.num \in Int /\ r.den \in Nat \ {0} /\ c.num \in Int /\ c.den \in Nat \ {0}
        /\ \A i \in DOMAIN keys, j \in DOMAIN cols : v[i][j] \in Int
    BY <1>3, AnswerTyped
  <2>2. (r.num = 0 /\ r.den = 1 /\ r.hi = r.lo) \/ r.num = r.den
    BY <1>1, <2>1, Settles
  <2>3. DOMAIN keys \subseteq Int
    BY <1>1, LenProperties
  <2>4. row = r.hi
    <3> DEFINE id == [i \in DOMAIN keys |-> i]
    <3>1. [i \in DOMAIN keys |-> [x |-> keys[i], y |-> id[i]]]
            = [i \in DOMAIN keys |-> [x |-> keys[i], y |-> i]]
      OBVIOUS
    <3>2. \A i \in DOMAIN keys : id[i] \in Int
      BY <2>3
    <3>3. id[r.lo] \in Int /\ id[r.hi] = r.hi /\ r.hi \in Int
      BY <2>1, <2>3
    <3> HIDE DEF id
    <3>4. Blend(r, id[r.lo], id[r.hi]) \div r.den
            = Lookup([i \in DOMAIN keys |-> [x |-> keys[i], y |-> id[i]]], query[1])
      BY <1>1, <2>1, <3>2, LinearBlend
    <3>5. row = Blend(r, id[r.lo], id[r.hi]) \div r.den
      BY <3>1, <3>4
    <3> HIDE DEF row, r
    <3>6. Blend(r, id[r.lo], id[r.hi]) = r.den * r.hi
      BY <2>1, <2>2, <3>3, OneSided
    <3>7. (r.den * r.hi) \div r.den = r.hi
      <4> DEFINE d == r.den
                 h == r.hi
      <4>1. d \in Nat \ {0} /\ h \in Int
        BY <2>1, <3>3
      <4> HIDE DEF d, h
      <4>2. d * h <= d * h /\ d * h < d * h + d /\ d * h \in Int
        BY <4>1
      <4>3. (d * h) \div d = h
        BY <4>1, <4>2, DivUnique
      <4> QED BY <4>3 DEF d, h
    <3> QED BY <3>5, <3>6, <3>7
  <2> DEFINE f == [i \in DOMAIN keys |-> Blend(c, v[i][c.lo], v[i][c.hi])]
             w == [j \in DOMAIN cols |-> v[r.hi][j]]
             line == f[r.hi]
  <2>5. \A i \in DOMAIN keys : f[i] \in Int
    <3> SUFFICES ASSUME NEW i \in DOMAIN keys PROVE Blend(c, v[i][c.lo], v[i][c.hi]) \in Int
      OBVIOUS
    <3>1. v[i][c.lo] \in Int /\ v[i][c.hi] \in Int
      BY <2>1
    <3> HIDE DEF c, v
    <3> QED BY <2>1, <3>1 DEF Blend
  <2>6. result = [num |-> Blend(r, f[r.lo], f[r.hi]), den |-> r.den * c.den]
    BY <1>1, <1>3, <2>1, Lookup2Is
  <2>7. line \div c.den = Lookup(RowMap(r.hi), query[2])
    <3>1. RowMap(r.hi) = [j \in DOMAIN cols |-> [x |-> cols[j], y |-> w[j]]]
      BY DEF RowMap
    <3>2. \A j \in DOMAIN cols : w[j] \in Int
      BY <2>1
    <3>3. line = Blend(c, w[c.lo], w[c.hi])
      BY <2>1
    <3> HIDE DEF w, line
    <3>4. Blend(c, w[c.lo], w[c.hi]) \div c.den
            = Lookup([j \in DOMAIN cols |-> [x |-> cols[j], y |-> w[j]]], query[2])
      BY <1>1, <2>1, <3>2, LinearBlend
    <3> QED BY <3>1, <3>3, <3>4
  <2> HIDE DEF f, r, c, row
  <2>8. Blend(r, f[r.lo], f[r.hi]) = r.den * line
    BY <2>1, <2>2, <2>5, OneSided
  <2>9. (r.den * line) \div (r.den * c.den) = line \div c.den
    BY <2>1, <2>5, DivCancel
  <2> QED BY <2>4, <2>6, <2>7, <2>8, <2>9
<1> QED BY <1>2, <1>3

(* Rows and columns are treated alike, whatever the order of the keys      *)
(* (core/ecu_map.c:33-66).                                                 *)
THEOREM MapSymmetric == MapSpec => []Symmetric
<1> QED BY TableInvariant, TransposeAgrees, PTL

(* The bilinear lookup is pinned to the linear one for every table whose   *)
(* row keys ascend (core/ecu_map.c:3-66).                                  *)
THEOREM MapLookupsAgree ==
  ASSUME \A t \in Tables : Ascending(t.rowKeys)
  PROVE  MapSpec => []LookupsAgree
<1>1. MapInit => Ascending(table.rowKeys)
  BY DEF MapInit, Empty, Ascending
<1>2. Ascending(table.rowKeys) /\ [MapNext]_mapVars => Ascending(table.rowKeys)'
  <2> SUFFICES ASSUME Ascending(table.rowKeys), [MapNext]_mapVars
               PROVE  Ascending(table.rowKeys)'
    OBVIOUS
  <2>1. ASSUME NEW t \in Tables, Build(t) PROVE Ascending(table.rowKeys)'
    <3> DEFINE rows == FirstN(t.rowKeys, MaxRows)
    <3>1. table'.rowKeys = rows
      BY <2>1 DEF Build
    <3>2. \A i \in DOMAIN rows : i \in DOMAIN t.rowKeys /\ rows[i] = t.rowKeys[i]
      BY FirstNFacts, Map2DAssumption
    <3> HIDE DEF rows
    <3> QED BY <3>1, <3>2 DEF Ascending
  <2>2. ASSUME UNCHANGED table PROVE Ascending(table.rowKeys)'
    BY <2>2 DEF Ascending
  <2> QED BY <2>1, <2>2 DEF MapNext, Look, mapVars
<1>3. TableInv /\ AnswerInv /\ Ascending(table.rowKeys) => LookupsAgree
  BY RowAlone, TransposeAgrees DEF LookupsAgree
<1> QED BY <1>1, <1>2, <1>3, TableInvariant, PTL DEF MapSpec
=============================================================================
