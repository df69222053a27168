----------------------------- MODULE MCHifiDac -----------------------------
(* Instances of HifiDac for TLC. *)
EXTENDS HifiDac, TLC
UsecaseSymmetry == Permutations(Usecase)
=============================================================================
