----------------------------- MODULE MCRotation -----------------------------
(* Instances of FileRotation for TLC.                                      *)
EXTENDS FileRotation
=============================================================================
