----------------------------- MODULE MCRunTree -----------------------------
(***************************************************************************)
(* A chain of three runs whose middle Agent is also wanted by a second     *)
(* root run, which in its turn delegates to the Agent of the first.        *)
(***************************************************************************)
EXTENDS RunTree

CONSTANTS r1, c1, g1, r2, c2, a, b, c

ChainRuns == {r1, c1, g1, r2, c2}
ChainParent ==
    [r \in ChainRuns |->
        CASE r = c1 -> r1 [] r = g1 -> c1 [] r = c2 -> r2 [] OTHER -> NoRun]
ChainAgents == {a, b, c}
ChainAgentOf ==
    [r \in ChainRuns |-> IF r \in {r1, c2} THEN a ELSE IF r = g1 THEN c ELSE b]

OnlyMiddle == {c1}
OneEach == [x \in Agents |-> 1]

=============================================================================
