-------------------------- MODULE MCEcuFaultFacade --------------------------
(* A small instance of the ranges for TLC.                                 *)
EXTENDS EcuFaultFacade, MCEcuFault

(* One code more than the table holds.                                     *)
MCManyReports ==
  { [code |-> 128, severity |-> WARNING,  action |-> DEGRADE],
    [code |-> 1,   severity |-> CRITICAL, action |-> SHUTDOWN],
    [code |-> 2,   severity |-> INFO,     action |-> NONE],
    [code |-> 9,   severity |-> FATAL,    action |-> SHUTDOWN] }
=============================================================================
