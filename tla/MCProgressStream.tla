-------------------------- MODULE MCProgressStream --------------------------
(* Values of ProgressStream's constants for TLC. *)
EXTENDS ProgressStream, TLC

CONSTANTS s1, q1, q2

=============================================================================
