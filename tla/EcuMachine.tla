---------------------------- MODULE EcuMachine -----------------------------
(***************************************************************************)
(* The state machine with everything its interface offers (core/ecu_sm.c,  *)
(* cpp/jetecu/StateMachine.cpp): timeouts, and entry and exit callbacks,   *)
(* which may themselves ask for transitions and set timeouts while the     *)
(* clock runs on.  The calls in progress are a stack of frames.            *)
(***************************************************************************)
EXTENDS EcuSm, Sequences

CONSTANTS
  Timeouts,    \* arguments of ecu_sm_set_timeout
  Delays,      \* milliseconds that pass between two events
  MaxDepth     \* transitions in progress inside each other's callbacks

ASSUME MachineAssumption ==
  Timeouts \subseteq Time /\ Delays \subseteq Nat \ {0} /\ MaxDepth \in Nat

VARIABLES
  sm,          \* current, state_enter_time and timeout_ms of ecu_sm_t
  on_enter,    \* whether an entry callback is registered
  on_exit,     \* whether an exit callback is registered
  frames,      \* callbacks running, the innermost first
  now,         \* the caller's clock
  (* History variables, read by the properties only.                       *)
  armed,       \* the last timeout set in the current state, 0 when none
  age          \* time since the transition to it was asked for, up to TimeMod

machineVars == <<sm, on_enter, on_exit, frames, now, armed, age>>

(* A transition waits for its exit callback with the target and the time   *)
(* it was called with; "overruled" notes that a transition made by that    *)
(* callback has moved the machine meanwhile, "waited" counts the time.     *)
ExitFrame(next) ==
  [stage |-> "exit", next |-> next, at |-> now, waited |-> 0, overruled |-> FALSE]

EnterFrame ==
  [stage |-> "enter", next |-> "OFF", at |-> 0, waited |-> 0, overruled |-> FALSE]

Frame ==
  [stage : {"exit", "enter"}, next : EcuState, at : Time,
   waited : 0 .. TimeMod, overruled : BOOLEAN]

MachineInit ==
  /\ sm = SmInit /\ on_enter = FALSE /\ on_exit = FALSE
  /\ frames = <<>> /\ now = 0 /\ armed = 0 /\ age = 0

-----------------------------------------------------------------------------
TimedOut == sm.timeout_ms # 0 /\ Elapsed(now, sm.state_enter_time) > sm.timeout_ms

Overrule(stack) ==
  [i \in DOMAIN stack |->
     IF stack[i].stage = "exit"
     THEN [stack[i] EXCEPT !.overruled = TRUE] ELSE stack[i]]

EnteredFaulty(next, at, waited, rest) ==
  /\ sm' = [sm EXCEPT !.current = next, !.state_enter_time = at]
  /\ armed' = 0 /\ age' = waited
  /\ frames' = IF on_enter THEN <<EnterFrame>> \o Overrule(rest) ELSE Overrule(rest)

(* The second half of ecu_sm_transition: the new state, its time and no    *)
(* timeout, and then the entry callback.  EnteredFaulty leaves the timeout *)
(* of the old state in force; no specification uses it.                    *)
Entered(next, at, waited, rest) ==
  /\ sm' = [current |-> next, state_enter_time |-> at, timeout_ms |-> 0]
  /\ armed' = 0 /\ age' = waited
  /\ frames' = IF on_enter THEN <<EnterFrame>> \o Overrule(rest) ELSE Overrule(rest)

ListedFaulty(next) == TRUE

(* The search in the table.  ListedFaulty finds everything; no             *)
(* specification uses it.                                                  *)
Listed(next) == <<sm.current, next>> \in ValidTransitions

(* The first half: the target is looked up, and the exit callback starts.  *)
(* A target that is not listed changes nothing.                            *)
Request(next) ==
  /\ Len(frames) < MaxDepth
  /\ next # sm.current /\ Listed(next)
  /\ IF on_exit
     THEN frames' = <<ExitFrame(next)>> \o frames /\ UNCHANGED <<sm, armed, age>>
     ELSE Entered(next, now, 0, frames)
  /\ UNCHANGED <<on_enter, on_exit, now>>

(* The exit callback returns, and the transition it belongs to goes on     *)
(* with the target found before: the current state is not looked at again. *)
ExitReturns ==
  /\ frames # <<>> /\ Head(frames).stage = "exit"
  /\ LET f == Head(frames) IN Entered(f.next, f.at, f.waited, Tail(frames))
  /\ UNCHANGED <<on_enter, on_exit, now>>

EnterReturns ==
  /\ frames # <<>> /\ Head(frames).stage = "enter"
  /\ frames' = Tail(frames)
  /\ UNCHANGED <<sm, on_enter, on_exit, now, armed, age>>

(* ecu_sm_set_timeout, from a callback or not.                             *)
SetTimeout(ms) ==
  /\ sm' = [sm EXCEPT !.timeout_ms = ms] /\ armed' = ms
  /\ UNCHANGED <<on_enter, on_exit, frames, now, age>>

(* ecu_sm_set_callbacks.  The class registers both trampolines and tests   *)
(* its functions when they are called, which comes to the same.  Callbacks *)
(* are not replaced while one of them runs.                                *)
SetCallbacks(enter, exit) ==
  /\ frames = <<>>
  /\ on_enter' = enter /\ on_exit' = exit
  /\ UNCHANGED <<sm, frames, now, armed, age>>

Older(ms, d) == IF ms + d < TimeMod THEN ms + d ELSE TimeMod

(* Time passes for the caller, or inside a callback.                       *)
Pass(d) ==
  /\ now' = After(now, d) /\ age' = Older(age, d)
  /\ frames' = [i \in DOMAIN frames |->
                  IF frames[i].stage = "exit"
                  THEN [frames[i] EXCEPT !.waited = Older(@, d)] ELSE frames[i]]
  /\ UNCHANGED <<sm, on_enter, on_exit, armed>>

Transit == \E next \in EcuState : Request(next)

MachineNext ==
  \/ Transit
  \/ ExitReturns
  \/ EnterReturns
  \/ \E ms \in Timeouts : SetTimeout(ms)
  \/ \E enter, exit \in BOOLEAN : SetCallbacks(enter, exit)
  \/ \E d \in Delays : Pass(d)

MachineSpec == MachineInit /\ [][MachineNext]_machineVars

-----------------------------------------------------------------------------
(* Properties.                                                             *)

MachineTypeOK ==
  /\ sm \in SmState /\ on_enter \in BOOLEAN /\ on_exit \in BOOLEAN
  /\ frames \in Seq(Frame) /\ Len(frames) <= MaxDepth
  /\ now \in Time /\ armed \in Time /\ age \in 0 .. TimeMod

(* ecu_sm_timed_out reports exactly that the machine has spent more time   *)
(* in its state than the timeout last set for that state, counted from the *)
(* call of the transition: a timeout set by an entry callback survives the *)
(* transition, one set by an exit callback does not reach the next state,  *)
(* and the wrapping clock does not matter as long as less than a turn of   *)
(* it has passed (core/ecu_sm.c:48-52 and 69-76).                          *)
TimedOutExact == age < TimeMod => (TimedOut <=> armed # 0 /\ age > armed)

(* The table is left only by a transition that another one has overtaken:  *)
(* unless its exit callback has moved the machine, the edge a transition   *)
(* takes is an entry of the table (core/ecu_sm.c:60-69).                   *)
ListedUnlessOverruled ==
  [][sm'.current # sm.current =>
       \/ <<sm.current, sm'.current>> \in ValidTransitions
       \/ frames # <<>> /\ Head(frames).overruled]_machineVars

(* What core/ecu_sm.h:57-64 and test/test_sm.cpp promise of every call:    *)
(* the machine only ever moves along an entry of the table.                *)
TransitionsListed ==
  [][sm'.current # sm.current =>
       <<sm.current, sm'.current>> \in ValidTransitions]_machineVars
=============================================================================
