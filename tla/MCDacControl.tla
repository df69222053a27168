---------------------------- MODULE MCDacControl ----------------------------
(* Instances of DacControl for TLC. *)
EXTENDS DacControl
MCCoeffs == <<"coeff0">>
MCChoice ==
  [s \in Setting |-> CASE s = "DigitalFilter" -> {1, 3}
                      [] s = "AVCVolume" -> {-24, -14}
                      [] s = "shape" -> {4, 5}
                      [] OTHER -> {1}]
=============================================================================
