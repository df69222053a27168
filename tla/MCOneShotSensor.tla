-------------------------- MODULE MCOneShotSensor --------------------------
(* Instances of OneShotSensor for TLC. *)
EXTENDS OneShotSensor, TLC
ClientSymmetry == Permutations(Client)
=============================================================================
