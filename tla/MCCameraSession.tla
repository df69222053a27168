------------------------- MODULE MCCameraSession -------------------------
(* Instances of CameraSession for TLC. *)
EXTENDS CameraSession, TLC

CONSTANTS t1, t2, s1, s2
MCThreads == {t1, t2}
MCStreams == {s1, s2}
MCSymmetry == Permutations(MCThreads) \cup Permutations(MCStreams)
=============================================================================
