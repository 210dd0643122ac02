----------------------------- MODULE MCMembers -----------------------------
(* Values of the constants of Members for TLC. *)
EXTENDS Members, TLC

CONSTANTS a, b, c1, c2, k1

\* VIEWER, ADMIN and OWNER: EDITOR may do what VIEWER may here.
SomeRoles == {1, ADMIN, OWNER}
TwoSuffixes == 0..1

Sym == Permutations({a, b}) \cup Permutations({c1, c2})
=============================================================================
