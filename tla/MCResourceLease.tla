-------------------------- MODULE MCResourceLease --------------------------
(***************************************************************************)
(* A root run and its sub-agent share owner r1 and overlap on a key; a     *)
(* second root run, whose heartbeat may be late or fail, competes for both *)
(* keys.  Interval + MaxDelay = 2 < 3 = Ttl is the tightest sound setting. *)
(***************************************************************************)
EXTENDS ResourceLease

CONSTANTS parent, child, other, k1, k2, r1, r2

MCLeases == {parent, child, other}
MCKeys == {k1, k2}
MCOwners == {r1, r2}
MCOwnerOf == [h \in MCLeases |-> IF h = other THEN r2 ELSE r1]
MCWants == [h \in MCLeases |-> IF h = child THEN {k2} ELSE {k1, k2}]
MCFaulty == {other}

=============================================================================
