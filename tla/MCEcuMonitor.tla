---------------------------- MODULE MCEcuMonitor ----------------------------
(* EcuMonitor on the small instances of MCEcuCore.                         *)
EXTENDS EcuMonitor, MCEcuCore
=============================================================================
