------------------------------- MODULE EcuSm -------------------------------
(***************************************************************************)
(* The engine state machine (core/ecu_sm.c): its state and the table of    *)
(* transitions.                                                            *)
(***************************************************************************)
EXTENDS EcuTime

EcuState ==
  {"OFF", "PRESTART", "SPINUP", "IGNITION", "RAMP", "RUN", "COOLDOWN",
   "SHUTDOWN", "FAULT"}

ValidTransitions ==
  { <<"OFF",      "PRESTART">>,
    <<"PRESTART", "SPINUP">>,   <<"PRESTART", "FAULT">>,
    <<"SPINUP",   "IGNITION">>, <<"SPINUP",   "FAULT">>,
    <<"IGNITION", "RAMP">>,     <<"IGNITION", "FAULT">>,
    <<"RAMP",     "RUN">>,      <<"RAMP",     "FAULT">>,
    <<"RUN",      "COOLDOWN">>, <<"RUN",      "FAULT">>,
    <<"COOLDOWN", "SHUTDOWN">>,
    <<"SHUTDOWN", "OFF">>,
    <<"FAULT",    "SHUTDOWN">> }

SmState == [current : EcuState, state_enter_time : Time, timeout_ms : Time]

SmInit == [current |-> "OFF", state_enter_time |-> 0, timeout_ms |-> 0]

TransitionFaulty(sm, next, now) ==
  IF next # sm.current /\ <<sm.current, next>> \in ValidTransitions
  THEN [sm EXCEPT !.current = next] ELSE sm

(* ecu_sm_transition: an entry of the table is taken, anything else leaves *)
(* the machine as it is.                                                   *)
Transition(sm, next, now) ==
  IF next # sm.current /\ <<sm.current, next>> \in ValidTransitions
  THEN [current |-> next, state_enter_time |-> now, timeout_ms |-> 0]
  ELSE sm
=============================================================================
