------------------------ MODULE MCTranscodePipeline ------------------------
(* Small instances of TranscodePipeline.                                   *)
EXTENDS TranscodePipeline, TLC

CONSTANTS j1, a1, r1, r2, p1, s1, s2

\* A process with two slots, or with one.
SharedProcess == (s1 :> p1) @@ (s2 :> p1)
OneSlot       == (s1 :> p1)

\* Two slots of one process are interchangeable.
SymSlots == Permutations({s1, s2})

=============================================================================
