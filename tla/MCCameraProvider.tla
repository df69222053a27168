------------------------- MODULE MCCameraProvider -------------------------
(* Instances of CameraProvider for TLC. *)
EXTENDS CameraProvider
=============================================================================
