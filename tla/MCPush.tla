-------------------------------- MODULE MCPush --------------------------------
(* Instances of PushDelivery for TLC. *)
EXTENDS PushDelivery, TLC

CONSTANTS s1, s2, p1, p2

(* Every push says something of its own: its text is the push itself.      *)
OwnText == [p \in Push |-> p]
Pushes == Permutations(Push)
=============================================================================
