----------------------------- MODULE MCSubAgents -----------------------------
(* Instances of SubAgents for TLC.                                         *)
EXTENDS SubAgents, TLC

CONSTANTS a1, w1, w2
=============================================================================
