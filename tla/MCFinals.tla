------------------------------ MODULE MCFinals ------------------------------
(* Instances of FinalEdits for TLC.                                        *)
EXTENDS FinalEdits

CONSTANTS m1, m2, c1, c2, d1, d2

(* One message with a render that can be overtaken, one beside it.         *)
Renders == [m \in Msg |-> IF m = m1 THEN 2 ELSE 1]
=============================================================================
