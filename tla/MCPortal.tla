------------------------------ MODULE MCPortal ------------------------------
(* Values of the constants of Portal for TLC. *)
EXTENDS Portal, TLC

CONSTANTS u1, u2, g1, g2, l1, l2, r1, r2

\* The lists need rows to page through, a viewer needs one video.
SomeAssets  == [p \in Pages |-> CASE p = "assets" -> 3 [] p = "library" -> 2 [] p = "watch" -> 1]
SomePublish == [p \in Pages |-> CASE p = "assets" -> 0 [] p = "library" -> 3 [] p = "watch" -> 2]

Sym == Permutations({u1, u2}) \cup Permutations({g1, g2}) \cup
       Permutations({l1, l2}) \cup Permutations({r1, r2})
=============================================================================
