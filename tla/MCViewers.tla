----------------------------- MODULE MCViewers -----------------------------
(* Values of the constants of Viewers for TLC. *)
EXTENDS Viewers, TLC

CONSTANTS v1, v2, e1, e2, c1, c2, c3

Sym == Permutations({v1, v2}) \cup Permutations({e1, e2}) \cup Permutations({c1, c2, c3})
=============================================================================
