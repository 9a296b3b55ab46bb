------------------------------ MODULE EcuTime ------------------------------
(***************************************************************************)
(* Timestamps in milliseconds on the wrapping ecu_time_t clock.            *)
(***************************************************************************)
EXTENDS Integers

CONSTANT TimeMod   \* the clock counts modulo TimeMod (2^32 in the code)

ASSUME TimeAssumption == TimeMod \in Nat \ {0}

Time == 0 .. TimeMod - 1

ElapsedFaulty(now, since) == now - since

(* Unsigned addition and subtraction of timestamps.  ElapsedFaulty does    *)
(* not wrap; no specification uses it.                                     *)
After(now, ms) == (now + ms) % TimeMod
Elapsed(now, since) == (now - since) % TimeMod
=============================================================================
