--------------------------- MODULE MCFingerprint ---------------------------
(* An instance of Fingerprint for TLC. *)
EXTENDS Fingerprint

CONSTANTS v1, v2
=============================================================================
