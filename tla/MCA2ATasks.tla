----------------------------- MODULE MCA2ATasks -----------------------------
(* Instances of A2ATasks for TLC.                                          *)
EXTENDS A2ATasks, TLC

CONSTANTS t1, t2, c1, k1
=============================================================================
