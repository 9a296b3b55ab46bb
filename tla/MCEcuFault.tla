----------------------------- MODULE MCEcuFault -----------------------------
(* Small instances of the fault manager for TLC.                           *)
EXTENDS EcuFault

(* Each severity once, and one code reported again at a higher severity.   *)
(* The codes are those of doc/fault_handling/catalogue.rst.                *)
MCReports ==
  { [code |-> 128, severity |-> WARNING,  action |-> DEGRADE],
    [code |-> 128, severity |-> FATAL,    action |-> SHUTDOWN],
    [code |-> 1,   severity |-> CRITICAL, action |-> SHUTDOWN],
    [code |-> 2,   severity |-> INFO,     action |-> NONE] }
=============================================================================
