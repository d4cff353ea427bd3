------------------------------- MODULE MCDedup -------------------------------
(* Three events, so that two may be linked by the third; the last of them   *)
(* may be of another batch.  See the configuration for the bounds.          *)
EXTENDS Dedup, TLC

MCCasts == {c \in [Events -> About] : \A e \in Events : c[e].batch = 1 \/ e = Size}
Renamings == Permutations(ChangeRequests) \cup Permutations(Branches)
==============================================================================
