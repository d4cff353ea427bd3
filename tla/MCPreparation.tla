---------------------------- MODULE MCPreparation ----------------------------
(* Preparation on small instances: an Agent and a warm-up with the same     *)
(* fingerprint, two warm-ups with one each, a warm-up and a manual CI.      *)
EXTENDS Preparation, TLC

CONSTANTS a1, w1, w2, m1, p, q

MCFinger == (a1 :> p) @@ (w1 :> p) @@ (w2 :> q) @@ (m1 :> p)
MCCasts == {{a1, w1}, {w1, w2}, {w1, m1}}
=============================================================================
