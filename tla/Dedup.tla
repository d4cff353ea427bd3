-------------------------------- MODULE Dedup --------------------------------
(***************************************************************************)
(* The deduplication of a rule (orchestrator.py): of the events of a scan  *)
(* or of a manual batch that share a key of the rule, however indirectly,  *)
(* only the newest is to run it.  The dispatch looks at the events of a    *)
(* scan once, when it begins, and then at what it has claimed of a change  *)
(* request; the events of a manual batch it looks at as a whole.           *)
(*                                                                         *)
(* What follows a claim is EventDispatch; here a retry is a fault.         *)
(***************************************************************************)
EXTENDS DedupState, FiniteSets, SequencesExt

data == <<of, switches, origin>>
task == <<page, claimed, planned>>
vars == <<data, inbox, scanning, cycle, listed, task, dispatches, faults>>

Init ==
    /\ of \in Casts
    /\ switches \in SUBSET Switches \ {{}} /\ origin \in {"scan", "manual"}
    /\ inbox = [e \in Events |-> "absent"] /\ scanning = TRUE
    /\ cycle = "idle" /\ listed = {} /\ dispatches = {} /\ faults = 0
    /\ page = [m \in ChangeRequests |-> {}] /\ claimed = page
    /\ planned = [m \in ChangeRequests |-> FALSE]

-----------------------------------------------------------------------------
(* _deduplicated_matches.                                                  *)

\* find, whose path compression changes no root.
Root(parent, i) ==
    LET find[j \in DOMAIN parent] == IF parent[j] = j THEN j ELSE find[parent[j]]
    IN find[i]

Union(parent, left, right) ==
    [parent EXCEPT ![Root(parent, right)] = Root(parent, left)]

\* The events of a batch in turn, and their keys: a key belongs to the first event
\* that has it, and the groups of the others are joined with it.
Join(u, e, k) ==
    IF k \in DOMAIN u.owner
    THEN [parent |-> Union(u.parent, e, u.owner[k]), owner |-> u.owner]
    ELSE [parent |-> u.parent,
          owner |-> [x \in DOMAIN u.owner \cup {k} |-> IF x = k THEN e ELSE u.owner[x]]]
Marks(r, S) == UNION {{e} \X Keys(r, e) : e \in S}
Forest(r, S) ==
    LET marks == SetToSeq(Marks(r, S))
        joined[n \in 0 .. Len(marks)] ==
            IF n = 0 THEN [parent |-> [e \in S |-> e], owner |-> <<>>]
            ELSE Join(joined[n - 1], marks[n][1], marks[n][2])
    IN joined[Len(marks)].parent

\* The newest of each group; all, if the rule has no switch.
Selected(r, S) ==
    {e \in S : SwitchesOf(r) = {} \/
        LET batch == {f \in S : of[f].batch = of[e].batch}
            forest == Forest(r, batch)
        IN \A f \in batch : Root(forest, f) = Root(forest, e) => f <= e}

\* plan_rule_invocations.
Invocations(S) ==
    UNION {{<<r, e>> : e \in Selected(r, Matches(r) \cap S)} : r \in Rules}
Matched(S) == {e \in S : \E r \in Rules : e \in Matches(r)}

-----------------------------------------------------------------------------
(* Events come.                                                            *)

Store(S) == inbox' = [e \in Events |-> IF e \in S THEN "pending" ELSE inbox[e]]

\* A scan saves the events of one change request at a time; another batch is another
\* scan.
Detect(m) ==
    /\ scanning /\ origin = "scan"
    /\ \E b \in Batches :
         LET new == {e \in Events : of[e].mr = m /\ of[e].batch = b /\ inbox[e] = "absent"} IN
         /\ new # {} /\ Store(new)
         /\ \A e \in Events : inbox[e] = "absent" => of[e].batch >= b
    /\ UNCHANGED <<data, scanning, cycle, listed, task, dispatches, faults>>

\* What the administrator has ticked, as far as it can be done.
Chosen(b) == {e \in Events : of[e].batch = b}

\* enqueue_events of a page: the whole batch or none of it.
Request(b) ==
    /\ origin = "manual"
    /\ Chosen(b) # {} /\ (\A e \in Chosen(b) : inbox[e] = "absent") /\ Store(Chosen(b))
    /\ \A e \in Events : inbox[e] = "absent" => of[e].batch >= b
    /\ UNCHANGED <<data, scanning, cycle, listed, task, dispatches, faults>>

-----------------------------------------------------------------------------
(* The dispatch.                                                           *)

\* _settle_scan_deduplicated_events: what waits and is not manual; then what is not the
\* newest for any rule is settled, if it waits still.
Begin ==
    /\ cycle = "idle" /\ (\E e \in Events : inbox[e] \in Waiting)
    /\ listed' = {e \in Events : inbox[e] \in Waiting /\ origin = "scan"}
    /\ cycle' = "listed"
    /\ UNCHANGED <<data, inbox, scanning, task, dispatches, faults>>

\* Mutant: an event that loses for one rule is settled.
LosesOnce(S) == {e \in S : \E r \in Rules : e \in Matches(r) /\ <<r, e>> \notin Invocations(S)}

Suppressed(S) == Matched(S) \ {i[2] : i \in Invocations(S)}

Settle ==
    /\ cycle = "listed" /\ cycle' = "active"
    /\ inbox' = [e \in Events |->
         IF e \in Suppressed(listed) /\ inbox[e] \in Waiting THEN "unmatched" ELSE inbox[e]]
    /\ UNCHANGED <<data, scanning, listed, task, dispatches, faults>>

WaitingOf(m) == {e \in Events : of[e].mr = m /\ inbox[e] \in Waiting}
\* A page of the waiting events of a change request, those of an earlier batch first.
Read(m) ==
    /\ cycle = "active" /\ page[m] = {} /\ claimed[m] = {} /\ WaitingOf(m) # {}
    /\ \E S \in SUBSET WaitingOf(m) :
         /\ LET n == Cardinality(WaitingOf(m))
            IN  Cardinality(S) = IF n < Page THEN n ELSE Page
         /\ \A e \in S, f \in WaitingOf(m) \ S : of[e].batch <= of[f].batch
         /\ page' = [page EXCEPT ![m] = S]
    /\ UNCHANGED <<data, inbox, scanning, cycle, listed, claimed, planned>>
    /\ UNCHANGED <<dispatches, faults>>

\* The first batch of the page is claimed; nobody else claims these events.
Claim(m) ==
    /\ cycle = "active" /\ page[m] # {} /\ claimed[m] = {}
    /\ LET S == {e \in page[m] : \A f \in page[m] : of[e].batch <= of[f].batch} IN
         /\ claimed' = [claimed EXCEPT ![m] = S] /\ page' = [page EXCEPT ![m] = @ \ S]
         /\ inbox' = [e \in Events |-> IF e \in S THEN "processing" ELSE inbox[e]]
    /\ planned' = [planned EXCEPT ![m] = FALSE]
    /\ UNCHANGED <<data, scanning, cycle, listed, dispatches, faults>>

\* Mutant: what is claimed is all there is.
OnlyClaimed(m) == claimed[m]

\* All that is left of a manual batch, or else what is claimed.
Candidates(m) ==
    IF origin = "manual"
    THEN {e \in Events : inbox[e] # "deleted"
                          /\ \E f \in claimed[m] : of[f].batch = of[e].batch}
    ELSE claimed[m]

\* The invocations of what is claimed are recorded and run; the rest is settled.
Plan(m) ==
    LET plan == {i \in Invocations(Candidates(m)) : i[2] \in claimed[m]}
        left == claimed[m] \ {i[2] : i \in plan}
    IN  /\ claimed[m] # {} /\ ~planned[m] /\ planned' = [planned EXCEPT ![m] = TRUE]
        /\ dispatches' = dispatches \cup plan
        /\ inbox' = [e \in Events |-> IF e \in left THEN "unmatched" ELSE inbox[e]]
        /\ UNCHANGED <<data, scanning, cycle, listed, page, claimed, faults>>

\* The runs have ended, "completed" for good or bad, or to be tried again, which ends
\* the task; so does a rule that cannot be matched.
Finish(m) ==
    /\ claimed[m] # {} /\ claimed' = [claimed EXCEPT ![m] = {}]
    /\ planned' = [planned EXCEPT ![m] = FALSE]
    /\ \E again \in SUBSET {e \in claimed[m] : inbox[e] = "processing"} :
         /\ planned[m] \/ again = claimed[m]
         /\ inbox' = [e \in Events |-> IF e \in again THEN "failed"
                        ELSE IF e \in claimed[m] /\ inbox[e] = "processing" THEN "completed"
                        ELSE inbox[e]]
         /\ IF again = {} THEN UNCHANGED <<page, faults>>
            ELSE /\ faults < MaxFaults /\ faults' = faults + 1
                 /\ page' = [page EXCEPT ![m] = {}]
    /\ UNCHANGED <<data, scanning, cycle, listed, dispatches>>

\* Nothing waits any more; and then what is old is deleted.
End ==
    /\ cycle = "active" /\ \A m \in ChangeRequests : page[m] = {} /\ claimed[m] = {}
    /\ \A e \in Events : inbox[e] \notin Waiting
    /\ cycle' = "prune"
    /\ UNCHANGED <<data, inbox, scanning, listed, task, dispatches, faults>>

\* The service stops: runs are interrupted, their events wait again, and what is old is
\* deleted all the same.
Idle ==
    /\ page' = [m \in ChangeRequests |-> {}] /\ claimed' = page'
    /\ planned' = [m \in ChangeRequests |-> FALSE]
Interrupted == [e \in Events |-> IF inbox[e] = "processing" THEN "pending" ELSE inbox[e]]
Stop ==
    /\ cycle = "active" /\ cycle' = "stopping" /\ scanning' = FALSE
    /\ faults < MaxFaults /\ faults' = faults + 1
    /\ inbox' = Interrupted /\ Idle
    /\ UNCHANGED <<data, listed, dispatches>>

\* prune_terminal_target_events: of a manual batch nothing while one of it is active.
Prunable(e) ==
    /\ inbox[e] \in Terminal
    /\ origin = "manual" =>
         \A f \in Events : of[f].batch = of[e].batch => inbox[f] \notin Active
Prune ==
    /\ \/ cycle = "prune" /\ cycle' = "idle"
       \/ cycle = "stopping" /\ cycle' = "stopped"
    /\ listed' = {}
    /\ \E S \in SUBSET {e \in Events : Prunable(e)} :
         inbox' = [e \in Events |-> IF e \in S THEN "deleted" ELSE inbox[e]]
    /\ UNCHANGED <<data, scanning, task, dispatches, faults>>

\* The service is started again, after a stop or a crash: claimed events wait, the scan
\* was the last.
Restart ==
    /\ \/ cycle = "stopped" /\ UNCHANGED faults
       \/ cycle # "stopped" /\ faults < MaxFaults /\ faults' = faults + 1
    /\ cycle' = "idle" /\ listed' = {} /\ scanning' = FALSE
    /\ inbox' = Interrupted /\ Idle
    /\ UNCHANGED <<data, dispatches>>

-----------------------------------------------------------------------------
Next ==
    \/ Begin \/ Settle \/ End \/ Stop \/ Prune \/ Restart
    \/ \E b \in Batches : Request(b)
    \/ \E m \in ChangeRequests : Detect(m) \/ Read(m) \/ Claim(m) \/ Plan(m) \/ Finish(m)

Spec == Init /\ [][Next]_vars
===============================================================================
