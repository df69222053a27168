-------------------------- MODULE MCResultBatcher --------------------------
(* Instances of ResultBatcher for TLC. *)
EXTENDS SessionResults, TLC
TwoPairs == << [first |-> 1, last |-> 2], [first |-> 3, last |-> 4] >>
PairAndOne == << [first |-> 1, last |-> 2], [first |-> 3, last |-> 3] >>
OnePair == << [first |-> 1, last |-> 2] >>
ThreadSymmetry == Permutations(Thread)
=============================================================================
