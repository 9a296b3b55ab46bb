------------------------------ MODULE Firmware ------------------------------
(***************************************************************************)
(* The main program of the two microcontroller ports                       *)
(* (platform/stm32/main_stm32.c, platform/esp32/main.c): boot, then one    *)
(* pass per millisecond that reads the inputs, steps the core by a fixed   *)
(* dt of one millisecond, writes the outputs and feeds the watchdog.  Time *)
(* passes between any two steps; the millisecond clock may stop, and a     *)
(* call may hang for ever.                                                 *)
(***************************************************************************)
EXTENDS EcuTime, FiniteSets

CONSTANTS
  WatchdogMs,    \* WATCHDOG_TIMEOUT_MS
  MaxReload,     \* the largest reload value of the IWDG
  PrintInterval, \* PRINT_INTERVAL_MS
  SlowSteps,     \* the steps of the program that may take time
  SlowMs,        \* how long each of them may take
  AgeCap         \* bound of the model: ages are counted up to here

VARIABLES
  port,          \* the firmware that runs; "off" before power comes on
  pc,            \* the call that comes next
  inStep,        \* ms for which the program has been at it
  due,           \* hal_timer_millis() - last_tick
  unprinted,     \* hal_timer_millis() - last_print
  valve,         \* what drives the fuel valve
  valveAge,      \* ms since it was last set
  lead,          \* ms stepped by the core less ms passed since boot
  dog,           \* ms since the watchdog was fed; -1 before it is started
  fault          \* the fault the hardware has

firmVars == <<port, pc, inStep, due, unprinted, valve, valveAge, lead, dog, fault>>

Ports == {"stm32", "esp32"}

PeriodFaulty == WatchdogMs \div 2

(* hal_watchdog_init: 500 counts per second on the STM32, up to MaxReload  *)
(* of them.  PeriodFaulty takes the counts for milliseconds; no            *)
(* specification uses it.                                                  *)
Period ==
  IF port = "stm32"
  THEN 2 * (IF WatchdogMs \div 2 > MaxReload THEN MaxReload ELSE WatchdogMs \div 2)
  ELSE WatchdogMs

(* The wait for a millisecond and the slow steps fit into the period, and  *)
(* the clock shows that a millisecond has passed.                          *)
ASSUME FirmAssumption ==
  /\ TimeMod > 1
  /\ WatchdogMs \in Nat /\ MaxReload \in Nat /\ PrintInterval \in Nat
  /\ SlowMs \in Nat /\ AgeCap \in Nat \ {0, 1}
  /\ SlowSteps \subseteq {"ecu_init", "read", "step", "print"}
  /\ 1 + SlowMs * Cardinality(SlowSteps) < WatchdogMs - 1
  /\ WatchdogMs <= 2 * MaxReload

FirmInit ==
  /\ port = "off" /\ pc = "off" /\ inStep = 0 /\ due = 0 /\ unprinted = 0
  /\ valve = "floating" /\ valveAge = 0 /\ lead = 0 /\ dog = -1 /\ fault = "none"

-----------------------------------------------------------------------------
Capped(n) == IF n > AgeCap THEN AgeCap ELSE n

(* Power comes on: the clock starts, no pin is driven.                     *)
Power(p) ==
  /\ port = "off"
  /\ port' = p /\ pc' = "pwm_init"
  /\ UNCHANGED <<inStep, due, unprinted, valve, valveAge, lead, dog, fault>>

GoTo(c) == pc' = c /\ inStep' = 0

(* hal_pwm_init drives the valve: a pulse of 1500 us on the STM32 (the     *)
(* centre of a servo), none on the ESP32.                                  *)
PwmInit ==
  /\ pc = "pwm_init" /\ GoTo("watchdog_init")
  /\ valve' = (IF port = "stm32" THEN "centre" ELSE "none") /\ valveAge' = 0
  /\ UNCHANGED <<port, due, unprinted, lead, dog, fault>>

WatchdogInit ==
  /\ pc = "watchdog_init" /\ GoTo("ecu_init")
  /\ dog' = 0
  /\ UNCHANGED <<port, due, unprinted, valve, valveAge, lead, fault>>

(* ecu_init, and the first reading of the clock.                           *)
EcuInit ==
  /\ pc = "ecu_init" /\ GoTo("poll")
  /\ due' = 0 /\ lead' = 0
  /\ UNCHANGED <<port, unprinted, valve, valveAge, dog, fault>>

LastTickFaulty == due
LastTick == 0

(* The head of the loop: it turns until a millisecond has passed, and the  *)
(* milliseconds it has missed are dropped.  LastTickFaulty forgets to      *)
(* store the time; no specification uses it.                               *)
Poll ==
  /\ pc = "poll" /\ due >= 1
  /\ GoTo("read") /\ due' = LastTick
  /\ UNCHANGED <<port, unprinted, valve, valveAge, lead, dog, fault>>

(* hal_adc_read_voltage, twice.                                            *)
ReadInputs ==
  /\ pc = "read" /\ GoTo("step")
  /\ UNCHANGED <<port, due, unprinted, valve, valveAge, lead, dog, fault>>

(* ecu_step advances the time of the core by one millisecond.              *)
Step ==
  /\ pc = "step" /\ GoTo("write")
  /\ lead' = lead + 1
  /\ UNCHANGED <<port, due, unprinted, valve, valveAge, dog, fault>>

(* hal_gpio_write for the igniter and the starter, then hal_pwm_set_duty.  *)
Write ==
  /\ pc = "write" /\ GoTo(IF port = "esp32" THEN "print" ELSE "feed")
  /\ valve' = "core" /\ valveAge' = 0
  /\ UNCHANGED <<port, due, unprinted, lead, dog, fault>>

(* The status line of the ESP32, once in PrintInterval.                    *)
PrintLine ==
  /\ pc = "print" /\ GoTo("feed")
  /\ unprinted' = IF unprinted >= PrintInterval THEN due ELSE unprinted
  /\ UNCHANGED <<port, due, valve, valveAge, lead, dog, fault>>

FedAtFaulty == {"feed", "poll"}
FedAt == {"feed"}

(* hal_watchdog_feed, only here.  FedAtFaulty feeds in the polling loop as *)
(* well; no specification uses it.                                         *)
Feed ==
  /\ pc \in FedAt /\ GoTo("poll")
  /\ dog' = 0
  /\ UNCHANGED <<port, due, unprinted, valve, valveAge, lead, fault>>

(* A millisecond passes.  The polling loop and every step but the slow     *)
(* ones take less.                                                         *)
Millisecond ==
  /\ port # "off" /\ dog < Period
  /\ \/ fault = "hang"
     \/ pc = "poll" /\ due = 0
     \/ pc \in SlowSteps /\ inStep < SlowMs
  /\ inStep' = IF pc \in SlowSteps /\ inStep < SlowMs THEN inStep + 1 ELSE inStep
  /\ due' = IF fault = "clock" THEN due ELSE After(due, 1)
  /\ unprinted' = IF fault = "clock" THEN unprinted ELSE After(unprinted, 1)
  /\ valveAge' = Capped(valveAge + 1)
  /\ lead' = IF lead = -AgeCap THEN lead ELSE lead - 1
  /\ dog' = IF dog = -1 THEN dog ELSE dog + 1
  /\ UNCHANGED <<port, pc, valve, fault>>

(* The watchdog resets the chip, which may cure the fault.                 *)
Bite ==
  /\ dog >= Period
  /\ GoTo("pwm_init")
  /\ due' = 0 /\ unprinted' = 0 /\ valve' = "floating" /\ valveAge' = 0
  /\ lead' = 0 /\ dog' = -1 /\ fault' \in {fault, "none"}
  /\ UNCHANGED port

(* The millisecond clock stops, or the call in progress never returns.     *)
Break(f) ==
  /\ port # "off" /\ fault = "none" /\ fault' = f
  /\ UNCHANGED <<port, pc, inStep, due, unprinted, valve, valveAge, lead, dog>>

Pass ==
  \/ PwmInit \/ WatchdogInit \/ EcuInit
  \/ Poll \/ ReadInputs \/ Step \/ Write \/ PrintLine \/ Feed

FirmNext ==
  \/ \E p \in Ports : Power(p)
  \/ fault # "hang" /\ Pass
  \/ Millisecond \/ Bite
  \/ \E f \in {"clock", "hang"} : Break(f)

FirmSpec == FirmInit /\ [][FirmNext]_firmVars

-----------------------------------------------------------------------------
(* Properties.                                                             *)

(* The types of the variables; the differences of times stay on the clock. *)
FirmTypeOK ==
  /\ port \in Ports \cup {"off"}
  /\ pc \in {"off", "pwm_init", "watchdog_init", "ecu_init", "poll", "read",
             "step", "write", "print", "feed"}
  /\ inStep \in 0 .. SlowMs /\ due \in Time /\ unprinted \in Time
  /\ valve \in {"floating", "centre", "none", "core"}
  /\ valveAge \in 0 .. AgeCap /\ lead \in -AgeCap .. AgeCap
  /\ dog \in -1 .. Period /\ fault \in {"none", "clock", "hang"}

(* The time of the core, which every step advances by a millisecond, never *)
(* runs ahead of real time, however long passes take and whatever fails:   *)
(* the start-up timeouts of the core may be late, never early.             *)
NeverAhead == lead <= 0

(* Once the watchdog runs, the position of the fuel valve is never older   *)
(* than its period and one slow step, even when the clock has stopped or a *)
(* call hangs; and before that unless a call hangs.  This covers the pulse *)
(* set at boot, which on the STM32 is not the closed position.             *)
OutputsFresh ==
  (valve # "floating" /\ (dog >= 0 \/ fault # "hang")) => valveAge <= Period + SlowMs

(* The watchdog does not reset firmware that works: the time from one      *)
(* feeding to the next stays below its period unless something has failed. *)
NoSpuriousBite == (dog >= 0 /\ dog >= Period) => fault # "none"
=============================================================================
