------------------------------- MODULE MCBridge -------------------------------
(***************************************************************************)
(* Two calls of one run: two waits for the same CI, a sub-agent beside a   *)
(* wait; and, of a sub-agent, one beside a comment.                        *)
(***************************************************************************)
EXTENDS Bridge

CONSTANTS c1, c2

MCCalls == {c1, c2}
Asks(k1, k2) == [c \in MCCalls |-> IF c = c1 THEN k1 ELSE k2]
MCPlans == {<<Asks("ci", "ci"), FALSE>>, <<Asks("child", "ci"), FALSE>>,
            <<Asks("child", "comment"), TRUE>>}

===============================================================================
