---------------------------- MODULE PreflightGate ----------------------------
(***************************************************************************)
(* What the CI gate in front of the Agents promises: the commands of a     *)
(* head give one verdict, which is never taken back, and the Agents of a   *)
(* head start only behind a verdict that it passed.                        *)
(***************************************************************************)
CONSTANTS
    Heads       \* commits of the pull request

VARIABLES
    verdict,    \* verdict[h]: the conclusion about h, or "open"
    passed      \* heads for which the gate let Agents start

Init ==
    /\ verdict = [h \in Heads |-> "open"]
    /\ passed = {}

\* The commands end, or the head turns out to be out of reach.
Conclude(h) ==
    /\ verdict[h] = "open"
    /\ \E v \in {"success", "failure", "superseded"} :
          verdict' = [verdict EXCEPT ![h] = v]
    /\ UNCHANGED passed

Open(h) ==
    /\ verdict[h] = "success"
    /\ passed' = passed \cup {h}
    /\ UNCHANGED verdict

Next == \E h \in Heads : Conclude(h) \/ Open(h)

Spec == Init /\ [][Next]_<<verdict, passed>>
=============================================================================
