------------------------------- MODULE MCTurns -------------------------------
(* Instances of TelegramTurns for TLC. *)
EXTENDS TelegramTurns, TLC

CONSTANTS s1, s2, i1, i2, i3, h1, h2, h3, h4

AllHandlers == Handler
ItemsAndTasks == Permutations(Item) \cup Permutations(Task)
=============================================================================
