------------------------------- MODULE MCDCA -------------------------------
(* Instances of DCA for TLC. *)
EXTENDS DCA

CONSTANTS r1, r2
=============================================================================
