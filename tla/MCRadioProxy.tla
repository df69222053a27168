---------------------------- MODULE MCRadioProxy ----------------------------
(* Instances of RadioProxy for TLC: one method of each kind. *)
EXTENDS RadioProxy

CONSTANTS s1, s2

MCAsked ==
  {[name |-> "getDataRegistrationState", version |-> 0],
   [name |-> "setSimCardPower", version |-> 1], [name |-> "setupDataCall", version |-> 4],
   [name |-> "setDataProfile", version |-> 5]}
=============================================================================
