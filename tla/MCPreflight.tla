---------------------------- MODULE MCPreflight ----------------------------
(* One pull request whose branch is pushed away from its head and back.    *)
EXTENDS Preflight

CONSTANTS h1, h2
TwoHeads == {h1, h2}
=============================================================================
