------------------------------- MODULE MCScan -------------------------------
(* One repository in which a change request is created, changed and scanned *)
(* on a short clock.                                                        *)
EXTENDS Scan

CONSTANTS c1, c2
OneCR == {c1}
Both == {"gitlab", "github"}

\* GitHub's dates are coarse, GitLab's clock is behind.
Dates == [p \in Both |-> IF p = "github" THEN 2 ELSE 1]
Clocks == [p \in Both |-> IF p = "github" THEN 0 ELSE -1]
=============================================================================
