------------------------------ MODULE MCBlocks ------------------------------
(* The building blocks of the control core, each on its own: a sensor      *)
(* channel, the filters, the governor of the fuel valve and the state      *)
(* machine with callbacks.                                                 *)
(* They share no variable, so TLC takes them one after the other: "unit"   *)
(* names the one that moves, and the others stay in their initial states.  *)
EXTENDS EcuSensorChannel, EcuDsp, EcuGovernor, MCEcuMachine

(* EcuSensorChannel: a range that the raw samples leave on both sides, a   *)
(* rate limit that takes several samples to cross it, a tolerance wide     *)
(* enough for small changes to count as stuck.                             *)
MCChannelCfg ==
  [range_min |-> 0, range_max |-> 9, rate_limit |-> 3,
   stuck_tolerance |-> 2, stuck_count_limit |-> 3]

MCRaw == -3 .. 12

(* EcuDsp: five different coefficients, so that none stands in for another.*)
MCCoef == [b0 |-> 1, b1 |-> 2, b2 |-> 3, a1 |-> -1, a2 |-> 4]

MCSamples == {-1, 0, 2}

(* EcuGovernor: an automatic integral limit of 3, errors of both signs     *)
(* that reach it in one step or in several.                                *)
MCPidCfg ==
  [kp |-> 1, ki |-> 2, kd |-> 1,
   output_min |-> -2, output_max |-> 6, integral_max |-> 0]

MCFuelMax == 5
MCRampRate == 1
MCSetpoints == {0, 2}
MCMeasures == {0, 1, 3}
MCSteps == {0, 1, 2}
MCMaxGuards == 2

-----------------------------------------------------------------------------
VARIABLE unit

BlocksInit ==
  /\ unit \in {"channel", "dsp", "governor", "machine"}
  /\ ChannelInit /\ DspInit /\ GovernorInit /\ MachineInit

BlocksNext ==
  /\ UNCHANGED unit
  /\ \/ /\ unit = "channel" /\ ChannelNext
        /\ UNCHANGED <<dspVars, governorVars, machineVars>>
     \/ /\ unit = "dsp" /\ DspNext
        /\ UNCHANGED <<channelVars, governorVars, machineVars>>
     \/ /\ unit = "governor" /\ GovernorNext
        /\ UNCHANGED <<channelVars, dspVars, machineVars>>
     \/ /\ unit = "machine" /\ MachineNext
        /\ UNCHANGED <<channelVars, dspVars, governorVars>>

BlocksSpec ==
  BlocksInit /\ [][BlocksNext]_<<unit, channelVars, dspVars, governorVars, machineVars>>
=============================================================================
