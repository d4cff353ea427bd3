------------------------------ MODULE MCModelLoop ------------------------------
(* Two candidates of different windows, with and without compaction; and three *)
(* of which one cannot be used.  What triggers a compaction is a share of the  *)
(* whole window, here above what is left of it.                                *)
EXTENDS ModelLoop

Candidate(driver, limit, effort, usable) ==
    [driver |-> driver, limit |-> limit, trigger |-> limit + 2, effort |-> effort, usable |-> usable]

Large == Candidate("codex", 13, 2, TRUE)
Small == Candidate("api", 10, 0, TRUE)
Unkeyed == Candidate("api", 10, 1, FALSE)

MCChains == {[models |-> m, compaction |-> c] :
               m \in {<<Large, Small>>, <<Small, Unkeyed, Large>>}, c \in BOOLEAN}
================================================================================
