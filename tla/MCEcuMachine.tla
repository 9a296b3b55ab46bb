---------------------------- MODULE MCEcuMachine ----------------------------
(* A small instance of EcuMachine for TLC: the clock turns after four      *)
(* milliseconds, and callbacks nest twice.                                 *)
EXTENDS EcuMachine

MCTimeouts == {0, 2}
MCDelays == {1}
MCMaxDepth == 2
=============================================================================
