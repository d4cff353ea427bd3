-------------------------- MODULE MCEventDispatch --------------------------
(***************************************************************************)
(* One pull request with two batches of retried work: e1, which triggers a *)
(* gated Agent, and beside it e3, which no rule matches; later e2, which   *)
(* triggers a direct Agent.                                                *)
(***************************************************************************)
EXTENDS EventDispatch

CONSTANTS e1, e2, e3, i2, i3, r1

MCEvents == {e1, e2, e3}
MCInvs == {i2, i3}
MCEventOf == [i \in MCInvs |-> IF i = i3 THEN e2 ELSE e1]
MCGated == {i2}
MCResources == {r1}
MCResourceOf == [e \in MCEvents |-> r1]
MCBatch == [e \in MCEvents |-> IF e = e2 THEN 2 ELSE 1]

=============================================================================
