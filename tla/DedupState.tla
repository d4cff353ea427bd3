------------------------------ MODULE DedupState ------------------------------
(***************************************************************************)
(* What is kept of the events that a rule may deduplicate                  *)
(* (orchestrator.py, state.py), which of them belong together, and what    *)
(* must hold of them whatever step comes.  The steps are those of Dedup.   *)
(*                                                                         *)
(* Events are numbered in the order of their times.  Keys are the change   *)
(* request and its branch; source and target branch differ in name only.   *)
(***************************************************************************)
EXTENDS Naturals

CONSTANTS
    Size,           \* how many events
    ChangeRequests, Branches,
    Others,         \* the events that match another rule, which has no switch
    Page,           \* the limit of pending_events_for_resource
    Casts,          \* bound: what the events are, a set of functions
    MaxBatches, MaxFaults     \* bounds: scans or manual requests; crashes, failed runs

Events == 1 .. Size
Batches == 1 .. MaxBatches
About == [mr : ChangeRequests, branch : Branches, batch : Batches]

\* The sorts of the constants.
Sorts ==
    /\ {Size, Page} \subseteq Nat \ {0} /\ Others \subseteq Events
    /\ {MaxBatches, MaxFaults} \subseteq Nat /\ Casts \subseteq [Events -> About]
ASSUME DedupAssumption == Sorts

Rules == {"dedup", "other"}
Switches == {"change_request", "branch"}
Matches(r) == IF r = "dedup" THEN Events ELSE Others

VARIABLES
    of,         \* the events: change request, branch, batch
    switches,   \* those of the rule that has some
    origin,     \* of the events: "scan" or "manual"
    inbox,      \* event_inbox: the status of an event
    scanning,   \* the scan goes on
    cycle,      \* where process_events is
    listed,     \* the events it found waiting when it began
    page,       \* what the task of a change request has read
    claimed,    \* and claimed
    planned,    \* whether that is planned
    dispatches, \* the table event_agent_dispatches
    faults

Waiting == {"pending", "failed"}
Active == {"pending", "failed", "processing"}
Terminal == {"completed", "unmatched"}

-----------------------------------------------------------------------------
(* Keys and groups.                                                        *)

SwitchesOf(r) == IF r = "dedup" THEN switches ELSE {}
Keys(r, e) ==
    {<<"change_request", of[e].mr>> : s \in SwitchesOf(r) \cap {"change_request"}}
        \cup {<<"branch", of[e].branch>> : s \in SwitchesOf(r) \cap {"branch"}}

\* Two events of S are in a group of r if no set closed under sharing a key in a batch
\* holds one of them alone.
Share(r, e, f) == of[e].batch = of[f].batch /\ Keys(r, e) \cap Keys(r, f) # {}
Together(r, S, e, f) ==
    \A X \in SUBSET S :
        e \in X /\ (\A g \in X, h \in S : Share(r, g, h) => h \in X) => f \in X
Superseded(r, S, e) == \E f \in S : f > e /\ Together(r, S, e, f)

-----------------------------------------------------------------------------
DedupTypes ==
    /\ of \in [Events -> About]
    /\ switches \subseteq Switches /\ origin \in {"scan", "manual"}
    /\ inbox \in [Events -> {"absent", "deleted"} \cup Active \cup Terminal]
    /\ cycle \in {"idle", "listed", "active", "prune", "stopping", "stopped"}
    /\ scanning \in BOOLEAN
    /\ listed \subseteq Events /\ dispatches \subseteq Rules \X Events
    /\ {page, claimed} \subseteq [ChangeRequests -> SUBSET Events]
    /\ planned \in [ChangeRequests -> BOOLEAN]

\* What has come, whatever became of it.
Arrived == {e \in Events : inbox[e] # "absent"}
InGroup(r) == Matches(r) \cap Arrived

\* Of a manual batch only the newest of a group runs the rule, whatever is claimed or
\* read first, retried, deleted as too old or interrupted (README.md:272,
\* manual_events_for_batch, prune_terminal_target_events).
ManualNewestOnly ==
    origin = "manual" => \A d \in dispatches : ~Superseded(d[1], InGroup(d[1]), d[2])

\* What every state of the queue is: of its types, and without a run too many.
DedupInv == DedupTypes /\ ManualNewestOnly

\* Only what a newer event stands for is settled without a run: the newest of a group
\* is never dropped for any rule (_settle_scan_deduplicated_events).
NewestNotDropped ==
    \A e \in Events, r \in Rules : inbox[e] = "unmatched" /\ e \in Matches(r) =>
        Superseded(r, InGroup(r), e)
===============================================================================
