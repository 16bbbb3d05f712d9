---------------------------- MODULE MCFollowups ----------------------------
(* Instances of FollowupTurns for TLC.                                     *)
EXTENDS FollowupTurns, TLC

CONSTANTS w, d, i1, i2, i3, t1, t2, t3

Symmetry == Permutations({i1, i2, i3}) \cup Permutations({t1, t2, t3})
=============================================================================
