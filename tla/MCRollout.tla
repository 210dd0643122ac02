----------------------------- MODULE MCRollout -----------------------------
(* Values of the constants of Rollout for TLC. *)
EXTENDS Rollout, TLC

CONSTANTS g1, g2, v1, v2, c1, gateway, video

OneVerifier == g1 :> gateway @@ g2 :> gateway @@ v1 :> video @@ v2 :> video
=============================================================================
