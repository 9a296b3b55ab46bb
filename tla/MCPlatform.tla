----------------------------- MODULE MCPlatform -----------------------------
(* What stands around the control core, each part on its own: the task     *)
(* scheduler, the configuration loader, the two-dimensional tables, the    *)
(* replay of recordings, persistent storage and the firmware loops.  They  *)
(* share no variable, so TLC takes them one after the other: "unit" names  *)
(* the one that moves, and the others stay in their initial states.        *)
EXTENDS EcuSchedulerHistory, EcuConfigLoad, EcuMap2D, SimReplay, HalNvram, Firmware

(* EcuScheduler: a fast critical task, and two of the same low priority    *)
(* with different intervals.                                               *)
MCTaskKinds ==
  { [priority |-> 0, interval_ms |-> 1], [priority |-> 3, interval_ms |-> 2],
    [priority |-> 3, interval_ms |-> 3] }

(* EcuConfigLoad: one plain parameter and one duration.                    *)
MCParams == {"rpm_max", "spinup_timeout_ms"}
MCDurations == {"spinup_timeout_ms"}
MCDefaults == [k \in MCParams |-> 2]
MCNumbers == {-1, 1, 3}

(* EcuMap2D: a full table, one with more keys than fit, one with a         *)
(* repeated key, one with a single column, one with values missing and one *)
(* without rows.                                                           *)
MCTables ==
  { [rowKeys |-> <<0, 2, 5>>, colKeys |-> <<0, 3>>,
     values |-> <<<<1, 7>>, <<4, 6>>, <<9, 5>>>>],
    [rowKeys |-> <<0, 2, 4, 6>>, colKeys |-> <<0, 1, 3, 5>>,
     values |-> <<<<1, 5, 2, 9>>, <<4, 6, 8, 9>>, <<3, 2, 7, 9>>, <<9, 9, 9, 9>>>>],
    [rowKeys |-> <<1, 3, 3>>, colKeys |-> <<0, 2, 2>>,
     values |-> <<<<2, 4, 8>>, <<6, 3, 5>>, <<7, 8, 1>>>>],
    [rowKeys |-> <<0, 4>>, colKeys |-> <<2>>, values |-> <<<<3>>, <<8>>>>],
    [rowKeys |-> <<0, 2, 5>>, colKeys |-> <<0, 2>>, values |-> <<<<4>>, <<6, 8>>>>],
    [rowKeys |-> <<>>, colKeys |-> <<1>>, values |-> <<>>] }
MCQueries == -1 .. 7

(* SimReplay.                                                              *)
LOCAL Row(t, v) == [time |-> t, val |-> v]

(* A header and rows of different spacing with comments between; a late    *)
(* first row; a repeated time; one row; rows out of order; no header, so   *)
(* that a row is skipped.                                                  *)
MCFiles ==
  { <<Comment, Row(0, 3), Row(1, 9), Comment, Row(2, 4), Row(5, 7), Comment>>,
    <<Comment, Row(3, 8), Row(4, 2), Row(6, 6)>>,
    <<Comment, Row(0, 1), Row(2, 5), Row(2, 9), Row(4, 3)>>,
    <<Comment, Comment, Row(1, 6)>>,
    <<Comment, Row(0, 2), Row(5, 8), Row(3, 4)>>,
    <<Row(0, 9), Row(1, 2), Row(3, 7)>> }

(* HalNvram.                                                               *)
MCBytes == {"a", "b"}
MCBlobs == {<<"a", "a", "a">>, <<"b", "b", "b">>}

(* Firmware: boot, reading the converter (whose timeout is 10 ms) and      *)
(* printing.                                                               *)
MCSlowSteps == {"ecu_init", "read", "print"}

-----------------------------------------------------------------------------
VARIABLE unit

PlatformInit ==
  /\ unit \in {"scheduler", "config", "map", "replay", "nvram", "firmware"}
  /\ SchedHistoryInit /\ ConfigInit /\ MapInit /\ ReplayInit /\ NvramInit /\ FirmInit

PlatformNext ==
  /\ UNCHANGED unit
  /\ \/ /\ unit = "scheduler" /\ SchedHistoryNext
        /\ UNCHANGED <<configVars, mapVars, replayVars, nvramVars, firmVars>>
     \/ /\ unit = "config" /\ ConfigNext
        /\ UNCHANGED <<schedAllVars, mapVars, replayVars, nvramVars, firmVars>>
     \/ /\ unit = "map" /\ MapNext
        /\ UNCHANGED <<schedAllVars, configVars, replayVars, nvramVars, firmVars>>
     \/ /\ unit = "replay" /\ ReplayNext
        /\ UNCHANGED <<schedAllVars, configVars, mapVars, nvramVars, firmVars>>
     \/ /\ unit = "nvram" /\ NvramNext
        /\ UNCHANGED <<schedAllVars, configVars, mapVars, replayVars, firmVars>>
     \/ /\ unit = "firmware" /\ FirmNext
        /\ UNCHANGED <<schedAllVars, configVars, mapVars, replayVars, nvramVars>>

PlatformSpec ==
  PlatformInit
  /\ [][PlatformNext]_<<unit, schedAllVars, configVars, mapVars, replayVars,
                        nvramVars, firmVars>>

(* The types of the variables of all the parts.                            *)
PlatformTypeOK == SchedTypeOK /\ ConfigTypeOK /\ NvramTypeOK /\ FirmTypeOK
=============================================================================
