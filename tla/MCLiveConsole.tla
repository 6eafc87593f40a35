---------------------------- MODULE MCLiveConsole ----------------------------
(***************************************************************************)
(* The console on small instances: up to two workers and two tabs.         *)
(***************************************************************************)
EXTENDS LiveConsoleProperties, TLC

CONSTANTS w1, w2, c1, c2

Alike == Permutations({w1, w2})

=============================================================================
