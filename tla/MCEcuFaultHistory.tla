-------------------------- MODULE MCEcuFaultHistory --------------------------
(* EcuFaultHistory on the instances of MCEcuFault.                         *)
EXTENDS EcuFaultHistory, MCEcuFault
=============================================================================
