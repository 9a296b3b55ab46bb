# JetECU-Core: a TLA+ model

Specifications of the engine control unit in this repository, the TLC
configurations that check them, and proofs TLAPS checks. Paths are relative to
the root of the repository.

## 1. The system

The program is a single-threaded controller for a small jet engine. A firmware
loop (`platform/stm32/main_stm32.c`, `platform/esp32/main.c`) or the simulator
(`sim/sim_main.c`) reads the sensors, calls `ecu_step` every millisecond or ten,
and writes the outputs. `ecu_step` owns the state machine, two sensor channels,
the RPM controller and the fuel state, and calls them directly. The fault
manager, the scheduler and the telemetry are separate libraries with C++
wrappers under `cpp/jetecu`; nothing in the repository wires them to `ecu_step`.

| Component | State | Operations | Correct when |
|---|---|---|---|
| sensor validation (`core/ecu_sensor.c`) | last value, stuck counter | `validate` | value in range, slew bounded, no alteration without a flag, a held signal is reached, stuck means a quiet window |
| control step (`core/ecu_core.c`) | state machine, fuel, two channels, PID, fault mask, clock | `ecu_init`, `ecu_step` | phases in order, faults latch, a cutoff holds, every start phase ends in time, overspeed and overtemperature are caught |
| fuel scheduling (`core/ecu_fuel.c`, `cpp/jetecu/Fuel.cpp`) | last percentage, cutoff | `compute`, `cutoff`, `release`, the scope guard | ramp respected, cutoff at once, soft restart after it |
| PID (`core/ecu_pid.c`) | integral, previous error | `update`, `reset` | wind-up bounded and undone as soon as the error changes sign |
| state machine (`core/ecu_sm.c`) | state, time of entry, timeout, callbacks | `transition`, `set_timeout`, `timed_out` | only listed transitions, timeouts exact |
| maps (`core/ecu_map.c`, `cpp/jetecu/Map.cpp`) | a table | lookups, construction | interpolation between the neighbours, in either direction |
| fault manager (`core/ecu_fault.c`, `cpp/jetecu/FaultManager.h`) | table, ring log, cached action | `report`, `clear`, `try_retry`, `set_retries`, ranges over both | one record per code, action exact, log keeps the last faults, a loop misses nothing without cause |
| scheduler (`core/ecu_scheduler.c`) | task table | `add`, `tick` | priority order, never early, never late |
| telemetry (`telemetry/`) | decoder, throttle override | `feed`, `process_byte`, `send_status` | buffer bound, payload of this frame only, frames delivered, resynchronisation |
| filters (`core/ecu_dsp.c`) | delay line of a biquad, window of a median | `step`, `reset` | the biquad follows its difference equation, the median drops single spikes |
| configuration (`core/ecu_config*.c`, `core/ecu_json.c`) | a record | `load` | a text is applied as a whole or not at all, nothing stays of earlier loads |
| storage (`hal/hal_nvram.h` and three drivers) | files, entries, a flash sector | `init`, `read`, `write`, `erase` | what a call stored stays, a torn write is noticed |
| firmware loops (`platform/*/main*.c`) | last tick, watchdog, valve | boot, one pass per ms | the core's time never runs ahead, outputs fresh, no reset without a fault |
| replay (`sim/sim_replay.c`) | file position, two rows | `open`, `get`, `close` | an answer is the one the whole file gives |
| other drivers, plant of the simulator | registers | | not modelled |

What is hard: the clock and the task timestamps wrap; sensors are filtered, so
the controller acts on values that lag; each step both transitions and tests
timeouts; state outlives an engine cycle (the cutoff, the integral, the stuck
counters); callbacks call the state machine that runs them; loops over the
fault table change it; the table fills and the log wraps; tasks take time inside
a tick; bytes are lost in the middle of a frame; power fails in the middle of a
write; the millisecond clock stops under a loop that waits for it. There are no
threads. `PROJECT.json` lists every hazard at its line with the properties that
cover it.

## 2. Modules

| Module | Models | Notes |
|---|---|---|
| `EcuTime` | `ecu_time_t` | addition and subtraction modulo `TimeMod` |
| `EcuSensor` | operators of `ecu_sensor.c` | integers for floats; `StuckCap`, `AfterCap` give the counter its width |
| `EcuSensorChannel` | one channel fed any samples | `Sample` is `ecu_sensor_validate`; `held`, `quiet` are history |
| `EcuFuel`, `EcuSm`, `EcuMap`, `EcuPid` | operators of those files | used by the machines below |
| `EcuCore` | `ecu_init`, `ecu_step` | one action per state handler, inside `Step` |
| `EcuLifecycle` | what the control step promises | abstract; `EcuCore` refines it |
| `EcuMonitor` | `EcuCore` with history | real dwell time (counted up to `TimeMod`), raw overspeed and overtemperature |
| `EcuGovernor` | PID driving the fuel valve | cutoffs, releases and nested `CutoffGuard` scopes at any time |
| `EcuMachine` | the state machine with callbacks | calls in progress are a stack of frames; a callback may transition or set a timeout |
| `EcuFault` | the fault manager | one action per function |
| `EcuFaultBoard` | a set of faults with a journal | abstract; `EcuFault` refines it |
| `EcuFaultHistory` | `EcuFault` with history | last report, retries granted |
| `EcuFaultFacade` | the ranges of `FaultManager.h` | a walk over the active faults, with calls of the manager between its steps |
| `EcuScheduler` | `add`, and `tick` one table entry at a time | tasks advance the platform clock |
| `EcuSchedulerHistory` | `EcuScheduler` with history | unwrapped ages of the tasks |
| `EcuDsp` | biquad and median filter | `x`, `y`, `seen` are history |
| `EcuMap2D` | construction and lookup of two-dimensional tables | results are exact quotients |
| `EcuConfigLoad` | defaults, JSON parser, application | one token per step; `read` is history |
| `TelFrame` | encoder and byte decoder | one action per decoder state |
| `TelLink` | `tel_process_byte` behind a line that makes errors | host and line are external |
| `HalNvram` | storage on three platforms | several steps per call, a stop between any two |
| `Firmware` | boot and control loop of both microcontrollers | time passes between steps; the clock may stop, a call may hang |
| `SimReplay` | the replay of recorded inputs | one line of the file per step |
| `MC...` | values for TLC; `MCBlocks` and `MCPlatform` put machines side by side | see section 3 |
| `EcuLemmas`, `...Proofs` | lemmas and theorems | section 5 |

Correspondence. A variable carries the name of the C field it stands for; a
struct is a record. In `EcuCore`, `sm` is `ecu_t.sm`, `fuel` is `ecu_t.fuel`,
`fault_code` is the bit mask as a set, and `out` the outputs the last step
returned. A step takes one `ecu_inputs_t` and one `dt`; clock, both validations,
the handler of the current state and the outputs are one action, as nothing can
come between them. `log` of `EcuFault` is indexed from 0 as in C; `active` and
`tasks` are sequences, so entry i of the array is element i + 1. Several steps
are taken where something can come between: a tick of the scheduler (the timer
moves while tasks run), a transition with callbacks (they call the machine
again), a walk over the faults (its body calls the manager), a call of the
storage (the power fails), a pass of the firmware (time passes).

Abstractions. Floats are integers: the checks compare and clamp, the filters,
the controller and the lookups add and multiply (lookups divide once, and keep
the quotient), and rounding plays no part in the properties. Inside `EcuCore` the
RPM controller may return any value within its output limits, and the EGT map is
a constant; `EcuGovernor` and `EcuMap2D` have the real ones. The checksum is a
parameter of `TelFrame`; the theorems hold for every function, but when the receiver
gets back in step depends on the bytes it yields, so `MCTelLink` computes the CRC of the
code, scaled with the bytes to a fourth of its width (polynomial x^4 + x + 1). The
`active` flag of a fault record is always set where it is read, so it is left out of `EcuFault`;
`EcuFaultFacade` adds the array behind the table, where stale records stay. Names,
strings, white space and printing are left out. A conversion C leaves undefined
(a float too large or negative to `uint32_t`) yields any value. Operators named
`...Faulty` (and `TakeLenLowStale`) are plausible mistakes kept beside the
definition they would spoil; no specification uses them, they show that the
property in question can fail.

## 3. Runs

| Run | Question | Bounds |
|---|---|---|
| `CoreMonitor` | lifecycle refinement, faults final, ramp in both directions over whole cycles and restarts; are timeouts exact and protections prompt, does every start conclude? | steps of 1 and 2 ms, clock of 6 ms, raw sensors at 0 or above their limits, slew 1; 3 throttles, one between the two thresholds of the code |
| `FaultTable` | does the table with its ring implement the board, and what do loops over both see? | 4 codes, table of 3, ring of 2, retries 1 |
| `TelLine` | decoder over a bad line | bytes of 2 bits, checksum of 4, payloads up to 3, one error anywhere; commands whose frames hold both sync bytes, a length like SYNC1, or a checksum ending in it |
| `Blocks` | sensor channel, filters, governor and state machine under every sequence of samples or calls | raw samples -3..12 around a range 0..9, slew 3, window of 3; filters: 3 samples, 5 of them to the biquad between resets; integral limit 3, 2 guards; clock of 4 ms, callbacks nested twice |
| `Platform` | scheduler, configuration, tables, replay, storage and firmware | 3 of 3 kinds of tasks (two of equal priority), gaps 0, 1, 3, costs 0, 2, clock of 13 ms; 2 parameters, 2 keys per text; 6 tables, 6 recordings; 2 keys with 2 blobs of 3 bytes, 3 platforms; watchdog 9 ms, slow steps 2 ms |
| `DocIgnitionFuelled` | violated: after a stop the next start gets no fuel | |
| `DocHealthyStart` | violated: an engine at rest fails its own sensor test | |
| `DocRetryLimit` | violated: a fault that recurs is retried for ever | |
| `DocFatalForces` | violated: a warning reported again as fatal changes nothing | |
| `DocGarbage` | violated: one byte like SYNC1 before an intact frame loses it | |
| `DocResync` | violated: after one lost byte a host that repeats a command whose checksum ends in SYNC1 is never heard again | one throttle command, free of SYNC1 |
| `DocTransitions` | violated: an exit callback that requests FAULT is overruled, and the machine goes from FAULT to SPINUP | |

`Blocks` and `Platform` put machines side by side that share no variable; the
variable `unit` names the one that moves, so the states of the machines add up
and do not multiply. Apart from that of `Platform`, the type invariants are left
to the proofs. So are `TrackedInRange` and three theorems the refinements already imply
on the instances: `CutoffPermanent`, `HighestActionExact`, and `FaultLatched` but for the
position the fuel scheduling remembers.

Why the bounds are enough. The clocks are much shorter than 2^32 but longer than
any timeout plus a step, which is what the code needs of 2^32 (`TimingAssumption`,
`PeriodAssumption`); they wrap many times in every run. The table of faults
overflows and the log wraps. The sensor values cross every threshold from both
sides, and the slew limiter needs several steps for each crossing. One error on
the line can hit any byte of a frame, the length and the checksum included, with
any commands before and after; the longest command fills the buffer, and leaves a
byte behind that no throttle command holds. The length
field reaches 15, so most damaged lengths do not fit. Five samples carry every term of
the difference equation twice, and the theorem covers the rest. Two nested
callbacks are the least that overrule a transition in progress, and a third only
repeats it. A text may have more keys than the table of entries holds, repeated,
unknown and damaged ones; the parser keeps nothing of a token but what the entry
says. The tables have a full one, one beyond the capacity, repeated keys, a single
column, missing values and no rows, queried on, between and outside all keys; the
recordings have uneven spacing, a late start, repeated times, a single row, rows out
of order and a missing header. Blobs of three bytes of two kinds make a mixture distinguishable from
either. The slow steps of the firmware add up to one millisecond less than the
period of the watchdog allows (`FirmAssumption`).

Fairness. `CoreMonitor` assumes that the control loop keeps calling `ecu_step`,
as the `while (1)` of both firmwares does; no fairness is placed on the sensors.
`TelLine` assumes that the host goes on sending and the ECU goes on reading, and
nothing about errors. The host may send anything; `ResyncsUnlessMisled` names in its
hypotheses the two kinds of frames that can keep the decoder out of step: those that
hold both sync bytes in a row after their own (`Misleading`), which must end, and those whose
checksum ends in SYNC1 (`Trailing`), which must not be all there is. Without the
first it is violated by a host that repeats `<<SET, 0>>`; without the second by `DocResync`.

No run switches the deadlock check off.

## 4. Findings

The seven violation runs, with the line of the code and the sentence it
contradicts, are listed in `PROJECT.json`. Met while modelling, and not worth a
run of their own because one line of the code shows them:

Control step and its blocks:

- FAULT is never left (`core/ecu_core.c:185`); `doc/architecture/state_machine.rst:29`
  has FAULT to SHUTDOWN. `FaultPermanent` and `EcuLifecycle` state what the code does.
- RUN ignores the validity of the sensors (`core/ecu_core.c:155`); the same table,
  line 28, has "sensor fail". Overspeed and overtemperature are tested in RAMP and
  RUN only (`core/ecu_core.c:126`).
- The step that enters FAULT from SPINUP or IGNITION, and the one that enters
  COOLDOWN, still carry the outputs of the state they leave (`core/ecu_core.c:121`,
  `163`; `state_machine.rst:79-93`).
- The map limit replaces a lower `egt_max` (`core/ecu_core.c:71`;
  `doc/configuration/index.rst:56`). The range of the sensor follows `egt_max` all the
  same, by the factor 1.2 (`core/ecu_core.c:38`), and validated temperatures are clamped to it:
  with `egt_max` of 916 or less none can exceed the 1100 the default map
  (`core/ecu_maps_default.h`) allows at low speed, and as RUN ignores validity no
  overtemperature is found there. The proof of `OvertempCaught` needs the range to exceed
  the hottest limit of the map (`ProtectionAssumption`).
- `stuck_count` overflows after 2^31 quiet samples (`core/ecu_sensor.c:53`); with
  `AfterCap` below `StuckCap` the model shows the stuck flag disappear.
- The callbacks of the state machine are "used by the core loop"
  (`doc/architecture/state_machine.rst:107`); `ecu_step` registers none.
- The destructor of a nested `CutoffGuard` releases the cutoff its outer guard
  still wants (`cpp/jetecu/Fuel.cpp:36`); `SoftRestart` bounds what follows.

Faults, tasks, telemetry:

- A retry removes a fatal fault (`core/ecu_fault.c:104`; `doc/fault_handling/index.rst:80`);
  a report that meets a full table is not logged (`core/ecu_fault.c:49`; line 85 there,
  "All reported faults are recorded"); a second report overwrites the "time of first report" (`core/ecu_fault.c:45`, `core/ecu_fault.h:41`).
- A loop over `activeFaults()` that clears what it meets skips every second fault
  and may meet stale ones (`cpp/jetecu/FaultManager.h:70`); `WalkMissesFew` gives the exact cost.
- The scheduler measures no durations (`core/ecu_scheduler.c:53`), so it never
  reports an overrun (`doc/api/scheduler.rst:78-80`); `ecu_sched_add` returns 0 instead of an
  index (`core/ecu_scheduler.c:39`, `core/ecu_scheduler.h:65`); when `run_count` wraps, the
  task runs once before its time (`core/ecu_scheduler.c:50`).
- A host that repeats a command holding both sync bytes can keep the decoder out
  of step for ever after one lost byte (`telemetry/tel_frame.c:86`), and so can one that
  repeats a command whose checksum ends in SYNC1 (`DocResync`): among the throttle
  commands 80 xx that is 80 94, with the checksum C5 AA. Overrides above 100
  are accepted (`telemetry/tel_send.c:46`, `telemetry/tel_send.h:69`) and never expire
  (`telemetry/tel_send.c:57`); commands other than SET_THROTTLE are reported as processed and
  ignored (`telemetry/tel_send.c:50`); a speed above 65535 does not fit the status message
  (`telemetry/tel_send.c:18`).

Firmware and platform:

- Both firmwares pass the throttle 0.0 to every step (`platform/stm32/main_stm32.c:53`,
  `platform/esp32/main.c:54`), so the ECU stays in OFF.
- The watchdog is fed in every pass (`platform/stm32/main_stm32.c:62`) and no scheduler
  runs; `README.md:255` lists a task of 10 Hz for it.
- A pass is always counted as one millisecond (`platform/stm32/main_stm32.c:56`), so under
  load the core's time falls behind (`NeverAhead` is the direction that is safe).
- Between `hal_pwm_init` and `hal_watchdog_init` a call that hangs leaves the boot pulse
  on the valve (`platform/stm32/main_stm32.c:25`); `OutputsFresh` leaves that case out.
- The STM32 storage has "key-value pairs" (`platform/stm32/hal_nvram_stm32.c:9`) but ignores
  the key: one blob fills the sector, and a torn write is returned as data. The POSIX
  storage ignores a short write (`platform/posix/hal_nvram_posix.c:32`). Nothing in the
  repository writes to the storage; the firmware only initialises it.
- `ecu_config_load_file` does not look at the result of `ftell` (`core/ecu_config_load.c:49`).
- A conversion that times out is read all the same (`platform/stm32/hal_adc_stm32.c:39`).
- The replay drops the first line whether or not it is a header (`sim/sim_replay.c:34`) and
  extrapolates before the first row (`sim/sim_replay.c:69`).
- `Telemetry` keeps its instance in a static pointer, so a second object redirects the
  transmissions of the first (`cpp/jetecu/Telemetry.cpp:10`).

## 5. Proofs

TLAPS checks the theorems below for all values of the constants that satisfy the
named assumptions of the modules. Each of these modules also proves the type
invariant of what it is about, and its other theorems rest on it.

| Module | Theorems | Argument |
|---|---|---|
| `EcuSensorProofs` | `ChannelTypeCorrect`, `ChannelInRange`, `ChannelSlewBounded`, `ChannelNoSilentAlteration`, `ChannelConverges`, `ChannelStuckIsQuietWindow` | lemmas on `Validate`; convergence needs the invariant `Slewing`: after k equal samples the limiter has covered k rate limits or arrived; `CountsQuiet`: the counter is the length of the run of quiet samples the history ends in |
| `EcuCoreProofs` | `CoreTypeCorrect`, `CoreFaultLatched`, `CoreFaultPermanent`, `CoreCutoffPermanent`, `CoreRampRespected`, `CoreImplementsLifecycle` | each handler is characterised once (`HandleEffect`), the theorems follow from that; a recorded fault is final because it is only recorded in FAULT, whose handler asks for no transition; the ramp, for the length of the very step taken (`ValveStep`), needs `ValveKnown`: the fuel scheduling remembers a legal position, the one last delivered unless a cutoff has reset it |
| | `MonitorTypeCorrect`, `MonitorDeadlineHonoured`, `MonitorNoEarlyTimeout`, `MonitorOverspeedCaught`, `MonitorOvertempCaught` | `ClockExact`: in a timed phase the difference of wrapped timestamps is the dwell time; `ClimbTracked` and `HeatTracked`: the tracked value has climbed one rate limit per step above the limit, and under power it never exceeds that limit, for temperatures the hottest of the map, which exists (`HighestValue`) |
| `EcuFaultProofs` | `FaultTypeCorrect`, `FaultNoDuplicateCodes`, `FaultHighestActionExact`, `FaultImplementsBoard` | compaction and removal keep codes apart; the journal read from the ring grows by one and drops its oldest (`SlotNext`, `SlotNextFull`, `JournalKeeps`) |
| | `FacadeLogRotated`, `FacadeWalkMissesFew` | `RingInv`: a ring with room is written from its first slot on; `WalkInv`: an entry is passed over unmet only when a removal moves it behind the iterator (`Skipped`), and the iterator is past the table only in the part that removals took from its end (`Lost`) |
| `BlockProofs` | `DspTypeCorrect`, `DspFollowsEquation`, `DspMedianOfWindow`, `GovernorTypeCorrect`, `WindupUnwindsAlways`, `SoftRestartAlways`, `MachineTypeCorrect`, `MachineTimedOutExact`, `MachineListed` | `DelayLine`: what the two delay terms hold, in past inputs and outputs; `MiddleIsMedian`: all six orders of three samples; in `MachineInv` the difference of timestamps is the time counted while that is short of a turn of the clock, for the state and for every transition waiting on the stack, and a waiting transition is listed unless overruled |
| | `MapSymmetric`, `MapLookupsAgree` | `IntervalCases`, `LookupCases`: both searches end at the same interval; `LinearBlend`: blending its ends is linear interpolation (`DivUnique`, `DivAdd`, `DivCancel`); `Settles`: on a key one row has all the weight |
| `PlatformProofs` | `FirmTypeCorrect`, `FirmNeverAhead`, `FirmOutputsFresh`, `FirmNoSpuriousBite` | `LeadBound`: the millisecond of the pass in progress has already passed; `FreshBound`: the valve is set at most one slow step before the watchdog is fed; `FedBound`: the time since the last feed is at most what the calls since then may take, and all of them fit (`SlowFits`) |
| | `NvramTypeCorrect`, `NvramDurable`, `NvramTornDetected` | `OpInv`: how much of the blob in hand the medium holds at each step of a call; `EntryInv`: only files can be short |
| `ServiceProofs` | `SchedTypeCorrect`, `SchedPriorityOrder`, `SchedNeverLate`, `SchedNeverEarly` | the insertion sort keeps a sorted table sorted; `AgesExact`: the difference of wrapped timestamps is the real age of a task, and short of its interval for the tasks the tick has dealt with; `TickBound`: what a tick has spent so far |
| | `ConfigTypeCorrect`, `ConfigLoadedExact` | `ReadSoFar`: the tokens read are the start of an acceptable text, and the entries are its names and numbers (`Matches`), the name awaiting its number apart |
| | `ReplayAnswersExact` | `Cursor`: the current and the next row are neighbours among the rows of the file, and the current one is not later than the last request unless it is the first |
| | `PlatformTypeCorrect` | each part, among the others, behaves as it does alone (`PartsApart`) |
| `TelLinkProofs` | `LinkTypeCorrect`, `LinkStoresInBounds`, `LinkPayloadFresh`, `LinkDelivers`, `LinkLossEnds`, `LinkOverrideCommanded` | `DecoderInv` bounds the index; `FreshInv`: the bytes stored so far are the last ones received; `Follows`: while a frame is undamaged, decoder and encoder are in lockstep, byte for byte (`HighLow`: a word is its two bytes); `Skips`: a decoder that missed the start of a frame only ever waits for a first or, just behind a byte like SYNC1, a second sync byte |

`EcuLemmas` holds what several of them use: induction over the natural numbers, the
arithmetic of the wrapping clock, and `ecu_sensor_validate`. Induction is stated in
terms of sets (`LeastNumber`, `Inductive`), from the well-foundedness of the natural
numbers, as the prover cannot instantiate the induction theorems of the library.

The invariants are not inductive alone, and some hold only where the code keeps
within bounds. The assumptions say which:

- `TimingAssumption`: no timeout plus a step reaches the period of the clock. The
  deadline needs the exactness of the clock, which needs this. `PeriodAssumption` says
  the same of the interval of a task, a gap and a tick in which every task takes the
  longest time.
- `ProtectionAssumption`: the range of a sensor exceeds its limit. True of the factor
  1.2 of `ecu_init` for speed, and for temperature as long as `egt_max` is not far below
  the limits of the map (section 4).
- `FirmAssumption`: the period of the watchdog fits its counter, and the slow calls of a
  pass fit into the period, both true of 500 ms.
- `ConfigAssumption`: the default of a duration is one.
- `ChannelStuckIsQuietWindow` assumes that the counter reaches the window and has not
  overflowed (`AfterCap = StuckCap`); `SchedNeverEarly` that `run_count` does not wrap to
  0 (`AfterRunCap # 0`). Both fail otherwise, after 2^31 and 2^32 steps.
- `MapLookupsAgree` assumes ascending row keys, as `core/ecu_map.h:32` asks; a table such
  as 0, 10, 3, 20 refutes it. `MapSymmetric` needs no order.

The other assumptions (`CounterAssumption`, `ChannelAssumption`, `CoreAssumption`,
`FaultAssumption`, `SchedulerAssumption`, `DspAssumption`, `GovernorAssumption`,
`MachineAssumption`, `Map2DAssumption`, `ReplayAssumption`, `NvramAssumption`,
`FrameAssumption`, `LinkAssumption`, `TimeAssumption`) give the constants their types.

Only model-checked: `StartConcludes` and `ResyncsUnlessMisled`, liveness under fairness, which TLAPS
does not handle; ENABLED is out of its reach as well. The bounds behind them are proved: no
timed phase outlasts its timeout by more than a step (`DeadlineHonoured`), and a decoder that
missed the start of a frame is at rest when the frame has passed (`LossEnds`).
Every other property of the runs is also a theorem.

## 6. Not modelled, and what could follow

Assumed of what surrounds the code: `HalNvram` lets `fwrite` and the `HAL_FLASH_*` calls
succeed, whose results the drivers ignore, and takes what `fclose` has closed to be on the
medium; it is only a stop that cuts a write short. `EcuConfigLoad` begins with the text:
errors of opening, measuring and reading the file are outside of it. In `Firmware` the
calls before `hal_watchdog_init` take no time, and that call succeeds: how long the boot
pulse stays on the valve before the watchdog runs is not bounded by any property. Nor does a
task of `EcuScheduler` register another one inside a tick; none in the repository does.

Left aside: `tel_send_status`, which converts the outputs to a message no state
depends on; the drivers for UART, CAN, GPIO and the converter (register accesses);
the floating-point plant of the simulator, for which `EcuCore` puts arbitrary
sensor values; the design formulas of the filters (tangents; the coefficients are
a constant of `EcuDsp`); string tables and getters; the C++ wrappers that call one
C function each, and `Engine`; the class `Map1D`, which copies its points as `Map2D`
does; the default tables, which are data; `ecu_sensor_plausible`, which nothing calls.

What could follow:

1. The CRC-16 at its full width, to say which line errors it finds.
2. `TelStatus`: the truncations of the status message, and a link with replies.
3. `EcuGovernor` inside `EcuCore`, in place of the arbitrary command.
4. The promises that a composition would rest on, proved of the composition: the fuel
   ramp and the cutoff with `EcuGovernor` in place of the arbitrary command (item 3), and
   the range of the interpolated limits.
