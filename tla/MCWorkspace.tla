---------------------------- MODULE MCWorkspace ----------------------------
(* A root run with a sub-agent that inherits its directory, and another root *)
(* run of the same pull request at a later head.                             *)
EXTENDS Workspace
CONSTANTS p, c, q, one, two

MCRuns == {p, c, q}
MCParent == [r \in MCRuns |-> IF r = c THEN p ELSE NoRun]
MCInherits == {c}
MCCommits == {one, two}
Tries(np, nc, nq) == [r \in MCRuns |-> CASE r = p -> np [] r = c -> nc [] r = q -> nq]
MCPlans == {Tries(2, 2, 0), Tries(2, 0, 1)}
MCEventHead == [r \in MCRuns |-> IF r = q THEN two ELSE one]
============================================================================
