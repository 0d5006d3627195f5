---------------------------- MODULE MCDriverGate ----------------------------
(* DriverGate with model values for TLC.                                   *)
EXTENDS DriverGate
CONSTANTS d1, d2, h1, h2, a1
=============================================================================
