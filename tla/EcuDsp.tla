------------------------------- MODULE EcuDsp -------------------------------
(***************************************************************************)
(* The filters that condition a sensor signal (core/ecu_dsp.c): a biquad   *)
(* section in transposed direct form II and a running median of three.     *)
(* Samples and coefficients are integers: sums and products are exact, and *)
(* the rounding of floats is left out.                                     *)
(***************************************************************************)
EXTENDS Integers, Sequences

CONSTANTS
  Coef,        \* the coefficients of the section, however designed
  Samples,     \* what may be fed to the filters
  MaxFed       \* samples fed to the section between two resets

BiquadCoef == [b0 : Int, b1 : Int, b2 : Int, a1 : Int, a2 : Int]

ASSUME DspAssumption ==
  Coef \in BiquadCoef /\ Samples \subseteq Int /\ MaxFed \in Nat

VARIABLES
  biquad,     \* s1 and s2 of ecu_biquad_t
  median,     \* ecu_median3_t
  (* History variables, read by the properties only.                       *)
  x, y,       \* the last three inputs and outputs of the section, 0 before
  fed,        \* samples fed to the section since it was reset
  seen,       \* the last three samples fed to the median since it was reset
  med         \* its last output

biquadVars == <<biquad, x, y, fed>>
medianVars == <<median, seen, med>>
dspVars == <<biquadVars, medianVars>>

BiquadInit == [s1 |-> 0, s2 |-> 0]
MedianInit == [x0 |-> 0, x1 |-> 0, filled |-> 0]

Silence == <<0, 0, 0>>

DspInit ==
  /\ biquad = BiquadInit /\ x = Silence /\ y = Silence /\ fed = 0
  /\ median = MedianInit /\ seen = <<>> /\ med = 0

-----------------------------------------------------------------------------
Output(f, in) == Coef.b0 * in + f.s1

DelayFaulty(f, in) ==
  LET out == Output(f, in)
      s2  == Coef.b2 * in - Coef.a2 * out
  IN [s1 |-> Coef.b1 * in - Coef.a1 * out + s2, s2 |-> s2]

(* The delay line a sample leaves; s1 takes the old s2.  DelayFaulty swaps *)
(* the two assignments; no specification uses it.                          *)
Delay(f, in) ==
  LET out == Output(f, in)
  IN [s1 |-> Coef.b1 * in - Coef.a1 * out + f.s2,
      s2 |-> Coef.b2 * in - Coef.a2 * out]

Shift(window, in) == <<window[2], window[3], in>>

(* ecu_biquad_step.                                                        *)
BiquadStep(in) ==
  /\ fed < MaxFed
  /\ biquad' = Delay(biquad, in)
  /\ x' = Shift(x, in) /\ y' = Shift(y, Output(biquad, in))
  /\ fed' = fed + 1
  /\ UNCHANGED medianVars

(* ecu_biquad_reset.                                                       *)
BiquadReset ==
  /\ biquad' = BiquadInit /\ x' = Silence /\ y' = Silence /\ fed' = 0
  /\ UNCHANGED medianVars

MiddleFaulty(a, b, c) ==
  IF a <= b
  THEN IF b <= c THEN b ELSE IF a <= c THEN c ELSE a
  ELSE IF a <= c THEN a ELSE IF b <= c THEN b ELSE c

(* The comparisons of ecu_median3_step.  MiddleFaulty swaps the last two   *)
(* results; no specification uses it.                                      *)
Middle(a, b, c) ==
  IF a <= b
  THEN IF b <= c THEN b ELSE IF a <= c THEN c ELSE a
  ELSE IF a <= c THEN a ELSE IF b <= c THEN c ELSE b

(* The count of primed samples.                                            *)
Filled(filled) == IF filled < 2 THEN filled + 1 ELSE filled

(* ecu_median3_step.                                                       *)
MedianStep(in) ==
  /\ median' = [x0 |-> median.x1, x1 |-> in, filled |-> Filled(median.filled)]
  /\ med' = IF median.filled < 2 THEN in ELSE Middle(median.x0, median.x1, in)
  /\ seen' = IF Len(seen) < 3 THEN Append(seen, in) ELSE Shift(seen, in)
  /\ UNCHANGED biquadVars

(* ecu_median3_init, which also resets.                                    *)
MedianReset ==
  /\ median' = MedianInit /\ seen' = <<>> /\ med' = 0
  /\ UNCHANGED biquadVars

DspNext ==
  \/ \E in \in Samples : BiquadStep(in) \/ MedianStep(in)
  \/ BiquadReset
  \/ MedianReset

DspSpec == DspInit /\ [][DspNext]_dspVars

-----------------------------------------------------------------------------
(* Properties.                                                             *)

Window == Int \X Int \X Int

DspTypeOK ==
  /\ biquad \in [s1 : Int, s2 : Int]
  /\ median \in [x0 : Int, x1 : Int, filled : 0 .. 2]
  /\ x \in Window /\ y \in Window /\ fed \in 0 .. MaxFed
  /\ seen \in Seq(Int) /\ Len(seen) <= 3 /\ med \in Int

(* The section computes the difference equation of core/ecu_dsp.h:39-40,   *)
(* of which the transposed form keeps only two mixed terms, for every      *)
(* sequence of samples and from every reset on.                            *)
FollowsEquation ==
  y[3] = Coef.b0 * x[3] + Coef.b1 * x[2] + Coef.b2 * x[1]
           - Coef.a1 * y[2] - Coef.a2 * y[1]

(* Once primed the median filter returns a median of the last three        *)
(* samples: one of them, and neither below nor above two of them, so that  *)
(* a spike of one sample never comes through.  Before, it passes samples   *)
(* on (core/ecu_dsp.c:111-117).                                            *)
IsMedian(m, s) ==
  \E i, j, k \in 1 .. 3 : {i, j, k} = 1 .. 3 /\ m = s[j] /\ s[i] <= m /\ m <= s[k]

MedianOfWindow ==
  /\ Len(seen) = 3 => IsMedian(med, seen)
  /\ Len(seen) \in {1, 2} => med = seen[Len(seen)]
=============================================================================
