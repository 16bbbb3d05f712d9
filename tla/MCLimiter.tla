------------------------------ MODULE MCLimiter ------------------------------
(* Instances of RateLimiter for TLC. *)
EXTENDS RateLimiter, TLC

CONSTANTS c1, c2, c3

Callers == Permutations(Caller)
=============================================================================
