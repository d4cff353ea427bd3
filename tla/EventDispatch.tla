---------------------------- MODULE EventDispatch ----------------------------
(***************************************************************************)
(* The reliable hand-over from stored events to Agent runs.                *)
(*                                                                         *)
(*   Orchestrator.process_events / _process_resource_events                *)
(*                          claims, plans, dispatches and settles events   *)
(*   AgentExecutor.execute  reserves, runs and finishes an Agent run       *)
(*   StateStore             event_inbox and agent_runs, one transaction a  *)
(*                          call                                           *)
(*   BackgroundRuntime.stop, request_cancel_run, recover_interrupted_work  *)
(*                          a graceful stop, an administrator's cancel, a  *)
(*                          crash and the recovery at the next start       *)
(*                                                                         *)
(* evX and runX and the cancel variables are rows of the database and      *)
(* survive a crash; the others are the process's memory.                   *)
(*                                                                         *)
(* Abstracted: which rules match (an invocation is given with its event);  *)
(* 'preparing' is counted as 'running' and 'timed_out' as 'failed' (the    *)
(* store treats each pair alike); waiting for capacity and leases, and the *)
(* preflight gate, are steps whose outcome is chosen.                      *)
(***************************************************************************)
EXTENDS Integers, FiniteSets

CONSTANTS
    Events,         \* rows of event_inbox
    Invs,           \* planned invocations; the idempotency keys
    EventOf,        \* EventOf[i]: the event of invocation i
    Gated,          \* invocations of rules with run_preflight
    Resources,      \* pull requests
    ResourceOf,     \* ResourceOf[e]: the pull request of event e
    Batch,          \* Batch[e]: e's batch, numbered in order of creation
    MaxAttempts,    \* event_retry_count + 1
    MaxCrashes,     \* bound: crashes
    MaxStops,       \* bound: graceful stops
    MaxCancels      \* bound: cancellations by an administrator

ASSUME DispatchAssumption ==
    /\ EventOf \in [Invs -> Events]
    /\ Gated \subseteq Invs
    /\ ResourceOf \in [Events -> Resources]
    /\ Batch \in [Events -> Nat]
    /\ MaxAttempts \in Nat \ {0}
    /\ MaxCrashes \in Nat /\ MaxStops \in Nat /\ MaxCancels \in Nat

VARIABLES
    evStatus, evAttempts, evRetry,              \* event_inbox
    runStatus, runAttempts, runRetry,           \* agent_runs
    cancelReq, source,                          \* cancel_requested, cancel_source
    mode,       \* the service: "up", "flagged", "stopping" or "down"
    halted,     \* process_events' stop_scheduling
    phase,      \* phase[r]: where _process_resource_events is for r
    todo,       \* todo[r]: events of its snapshot not yet claimed
    claimed,    \* claimed[r]: events of the batch it works on
    gateErr,    \* gateErr[r]: the batch's preflight ended with an error
    verdict,    \* verdict[e]: how the batch decided to settle e
    job,        \* job[i]: where execute() is for invocation i
    result,     \* result[i]: what it returned or raised
    genuine,    \* genuine[e]: failures and crashes e was charged for
    used        \* [crashes, stops, cancels] so far

inbox == <<evStatus, evAttempts, evRetry, genuine>>
runs == <<runStatus, runAttempts, runRetry>>
cancels == <<cancelReq, source>>
queue == <<phase, todo, claimed, gateErr, verdict>>
jobs == <<job, result>>
vars == <<inbox, runs, cancels, queue, jobs, mode, halted, used>>

EvStatuses == {"absent", "pending", "processing", "triggered", "completed",
               "failed", "unmatched", "cancelled"}
RunStatuses == {"none", "queued", "running", "completed", "failed", "cancelled"}
Sources == {"none", "administrator", "service_shutdown"}
Phases == {"idle", "claim", "gate", "wait", "settle"}
Verdicts == {"none", "release", "cancel", "complete", "retry", "giveup"}
Jobs == {"none", "called", "reserved", "waiting", "running", "ended", "done"}
Results == {"none", "completed", "failed", "fatal", "cancelled", "skipped", "refused"}

InvsOf(e) == {i \in Invs : EventOf[i] = e}
ActiveRun(i) == runStatus[i] \in {"queued", "running"}
Flagged == mode \in {"flagged", "stopping"}

Init ==
    /\ evStatus = [e \in Events |-> "absent"]
    /\ evAttempts = [e \in Events |-> 0]
    /\ evRetry = [e \in Events |-> TRUE]
    /\ runStatus = [i \in Invs |-> "none"]
    /\ runAttempts = [i \in Invs |-> 0]
    /\ runRetry = [i \in Invs |-> TRUE]
    /\ cancelReq = [i \in Invs |-> FALSE]
    /\ source = [i \in Invs |-> "none"]
    /\ mode = "up"
    /\ halted = FALSE
    /\ phase = [r \in Resources |-> "idle"]
    /\ todo = [r \in Resources |-> {}]
    /\ claimed = [r \in Resources |-> {}]
    /\ gateErr = [r \in Resources |-> FALSE]
    /\ verdict = [e \in Events |-> "none"]
    /\ job = [i \in Invs |-> "none"]
    /\ result = [i \in Invs |-> "none"]
    /\ genuine = [e \in Events |-> 0]
    /\ used = [crashes |-> 0, stops |-> 0, cancels |-> 0]

-----------------------------------------------------------------------------
\* Claiming (_process_resource_events and the queries it uses)

\* _insert_events: a scan stores an event; rows of a pull request are created
\* in the order of their batches.
Store(e) ==
    /\ mode = "up"
    /\ evStatus[e] = "absent"
    /\ \A f \in Events : ResourceOf[f] = ResourceOf[e] /\ Batch[f] < Batch[e]
                            => evStatus[f] # "absent"
    /\ evStatus' = [evStatus EXCEPT ![e] = "pending"]
    /\ UNCHANGED <<evAttempts, evRetry, genuine, runs, cancels, queue, jobs,
                   mode, halted, used>>

\* pending_event_resources and pending_events_for_resource: a pending event
\* is listed whatever its attempts.
Listed(e) ==
    \/ evStatus[e] = "pending"
    \/ evStatus[e] = "failed" /\ evAttempts[e] < MaxAttempts /\ evRetry[e]

\* process_events starts the task of a pull request that has none.  The loop
\* read its shutdown flag a moment ago.
StartTask(r) ==
    /\ mode \in {"up", "flagged"}
    /\ ~halted
    /\ phase[r] = "idle"
    /\ \E e \in Events : ResourceOf[e] = r /\ Listed(e)
    /\ todo' = [todo EXCEPT ![r] = {e \in Events : ResourceOf[e] = r /\ Listed(e)}]
    /\ phase' = [phase EXCEPT ![r] = "claim"]
    /\ UNCHANGED <<inbox, runs, cancels, claimed, gateErr, verdict, jobs,
                   mode, halted, used>>

\* claim_event's test.
Claimable(e) ==
    /\ \/ evStatus[e] = "pending"
       \/ evStatus[e] = "failed" /\ evRetry[e]
    /\ evAttempts[e] < MaxAttempts

\* The events of the earliest batch, as long as no other batch is at work.
AnyNext(r) == todo[r]
NextToClaim(r) ==
    {e \in todo[r] : /\ \A f \in todo[r] : Batch[e] <= Batch[f]
                     /\ \A f \in claimed[r] : Batch[e] = Batch[f]}

Claim(r, e) ==
    /\ phase[r] = "claim"
    /\ e \in NextToClaim(r)
    /\ todo' = [todo EXCEPT ![r] = @ \ {e}]
    /\ IF Claimable(e)
       THEN /\ evStatus' = [evStatus EXCEPT ![e] = "processing"]
            /\ evAttempts' = [evAttempts EXCEPT ![e] = @ + 1]
            /\ evRetry' = [evRetry EXCEPT ![e] = TRUE]
            /\ claimed' = [claimed EXCEPT ![r] = @ \union {e}]
       ELSE UNCHANGED <<evStatus, evAttempts, evRetry, claimed>>
    /\ UNCHANGED <<genuine, runs, cancels, phase, gateErr, verdict, jobs,
                   mode, halted, used>>

\* Every event of the batch has been tried.
BatchClaimed(r) == phase[r] = "claim" /\ claimed[r] # {} /\ NextToClaim(r) = {}

\* The snapshot is used up.
EndTask(r) ==
    /\ phase[r] = "claim" /\ todo[r] = {} /\ claimed[r] = {}
    /\ phase' = [phase EXCEPT ![r] = "idle"]
    /\ UNCHANGED <<inbox, runs, cancels, todo, claimed, gateErr, verdict, jobs,
                   mode, halted, used>>

-----------------------------------------------------------------------------
\* Planning and the preflight gate

\* No rule matches a claimed event: it is settled before any Agent starts.
SettleUnmatched(r, e) ==
    /\ BatchClaimed(r)
    /\ e \in claimed[r] /\ InvsOf(e) = {}
    /\ evStatus' = [evStatus EXCEPT ![e] = "unmatched"]
    /\ claimed' = [claimed EXCEPT ![r] = @ \ {e}]
    /\ UNCHANGED <<evAttempts, evRetry, genuine, runs, cancels, phase, todo,
                   gateErr, verdict, jobs, mode, halted, used>>

\* _settle_unmatched_waiting_events: while the pull request is busy, a
\* pending event that no rule matches does not wait for its turn.
SettleWaiting(e) ==
    /\ mode = "up"
    /\ phase[ResourceOf[e]] # "idle"
    /\ evStatus[e] = "pending" /\ InvsOf(e) = {}
    /\ evStatus' = [evStatus EXCEPT ![e] = "unmatched"]
    /\ UNCHANGED <<evAttempts, evRetry, genuine, runs, cancels, queue, jobs,
                   mode, halted, used>>

BatchInvs(r) == {i \in Invs : EventOf[i] \in claimed[r]}

\* record_event_dispatches, then a task for each of the invocations.
Dispatch(called) ==
    /\ evStatus' = [e \in Events |-> IF \E i \in called : EventOf[i] = e
                                     THEN "triggered" ELSE evStatus[e]]
    /\ job' = [i \in Invs |-> IF i \in called THEN "called" ELSE job[i]]

\* Direct invocations start at once, the gated ones wait for the preflight.
Plan(r) ==
    /\ BatchClaimed(r)
    /\ \A e \in claimed[r] : InvsOf(e) # {}
    /\ Dispatch(BatchInvs(r) \ Gated)
    /\ phase' = [phase EXCEPT ![r] = IF BatchInvs(r) \intersect Gated # {}
                                     THEN "gate" ELSE "wait"]
    /\ UNCHANGED <<evAttempts, evRetry, genuine, runs, cancels, todo, claimed,
                   gateErr, verdict, result, mode, halted, used>>

\* ensure_passed says success (or the gate does not apply).
GateReady(r) ==
    /\ phase[r] = "gate"
    /\ Dispatch(BatchInvs(r) \intersect Gated)
    /\ phase' = [phase EXCEPT ![r] = "wait"]
    /\ UNCHANGED <<evAttempts, evRetry, genuine, runs, cancels, todo, claimed,
                   gateErr, verdict, result, mode, halted, used>>

\* It says failure, timed_out or superseded: no Agent, and no error; or it
\* raises or ends otherwise: an error that may be tried again.
GateClosed(r, err) ==
    /\ phase[r] = "gate"
    /\ gateErr' = [gateErr EXCEPT ![r] = err]
    /\ phase' = [phase EXCEPT ![r] = "wait"]
    /\ UNCHANGED <<inbox, runs, cancels, todo, claimed, verdict, jobs,
                   mode, halted, used>>

-----------------------------------------------------------------------------
\* AgentExecutor.execute for one invocation

Return(i, res) ==
    /\ job' = [job EXCEPT ![i] = "done"]
    /\ result' = [result EXCEPT ![i] = res]

\* The executor's shutdown flag is up: no run is created.
RefuseCall(i) ==
    /\ job[i] = "called" /\ Flagged
    /\ Return(i, "refused")
    /\ UNCHANGED <<inbox, runs, cancels, queue, mode, halted, used>>

\* A run the service's stop has cancelled is resumed as the same attempt.
Interrupted(i) == runStatus[i] = "cancelled" /\ source[i] = "service_shutdown"

\* A failed run is tried again within the limit.
RetryDueAny(i) == runStatus[i] # "none" /\ runAttempts[i] < MaxAttempts
RetryDue(i) ==
    runStatus[i] = "failed" /\ runRetry[i] /\ runAttempts[i] < MaxAttempts

\* begin_agent_run creates or reuses the row of the idempotency key; the flag
\* was read before.
Reserve(i) ==
    /\ job[i] = "called"
    /\ runStatus[i] = "none" \/ Interrupted(i) \/ RetryDue(i)
    /\ runStatus' = [runStatus EXCEPT ![i] = "queued"]
    /\ runAttempts' = [runAttempts EXCEPT ![i] = IF Interrupted(i) THEN @ ELSE @ + 1]
    /\ runRetry' = [runRetry EXCEPT ![i] = TRUE]
    /\ cancelReq' = [cancelReq EXCEPT ![i] = FALSE]
    /\ source' = [source EXCEPT ![i] = "none"]
    /\ job' = [job EXCEPT ![i] = "reserved"]
    /\ UNCHANGED <<inbox, queue, result, mode, halted, used>>

\* begin_agent_run refuses: a failure that must not be repeated is raised
\* again, a run that succeeded or is active counts as done, anything else is
\* an error.
NotReserved(i) ==
    /\ job[i] = "called"
    /\ ~(runStatus[i] = "none" \/ Interrupted(i) \/ RetryDue(i))
    /\ Return(i, IF runStatus[i] = "failed" /\ ~runRetry[i] THEN "fatal"
                 ELSE IF runStatus[i] \in {"completed", "queued", "running"}
                      THEN "skipped" ELSE "refused")
    /\ UNCHANGED <<inbox, runs, cancels, queue, mode, halted, used>>

\* request_cancel_run / request_cancel_active_runs on the active rows of S: a
\* queued run is cancelled on the spot.
RequestCancel(S, src) ==
    /\ cancelReq' = [i \in Invs |-> IF i \in S THEN TRUE ELSE cancelReq[i]]
    /\ source' = [i \in Invs |-> IF i \in S THEN src ELSE source[i]]
    /\ runStatus' = [i \in Invs |-> IF i \in S /\ runStatus[i] = "queued"
                                    THEN "cancelled" ELSE runStatus[i]]

\* After the reservation the flag is read again: a stop that swept the active
\* runs before this one existed still cancels it.
TrustSweep(i) == {}
LateToCancel(i) == IF Flagged /\ ActiveRun(i) THEN {i} ELSE {}

RecheckFlag(i) ==
    /\ job[i] = "reserved"
    /\ RequestCancel(LateToCancel(i), "service_shutdown")
    /\ job' = [job EXCEPT ![i] = "waiting"]
    /\ UNCHANGED <<inbox, runAttempts, runRetry, queue, result, mode, halted, used>>

\* Capacity, leases and workspace are there; mark_agent_run_running looks at
\* the row only.
Start(i) ==
    /\ job[i] = "waiting"
    /\ runStatus[i] = "queued" /\ ~cancelReq[i]
    /\ runStatus' = [runStatus EXCEPT ![i] = "running"]
    /\ job' = [job EXCEPT ![i] = "running"]
    /\ UNCHANGED <<inbox, runAttempts, runRetry, cancels, queue, result,
                   mode, halted, used>>

\* _cancel_requested
StopRequested(i) == Flagged \/ cancelReq[i]

\* The Agent, or what prepares its workspace, ends: it fails at any stage,
\* completes once it runs, and may or may not notice a stop before.
AgentEnds(i, res) ==
    /\ job[i] \in {"waiting", "running"}
    /\ res = "completed" => job[i] = "running"
    /\ res = "cancelled" => StopRequested(i)
    /\ job' = [job EXCEPT ![i] = "ended"]
    /\ result' = [result EXCEPT ![i] = res]
    /\ UNCHANGED <<inbox, runs, cancels, queue, mode, halted, used>>

\* finish_agent_run writes the outcome and leaves the cancel columns alone.
Finish(i) ==
    /\ job[i] = "ended"
    /\ runStatus' = [runStatus EXCEPT ![i] = IF result[i] = "fatal" THEN "failed"
                                             ELSE result[i]]
    /\ runRetry' = [runRetry EXCEPT ![i] = result[i] # "fatal"]
    /\ job' = [job EXCEPT ![i] = "done"]
    /\ UNCHANGED <<inbox, runAttempts, cancels, queue, result, mode, halted, used>>

JobStep(i) ==
    \/ RefuseCall(i) \/ Reserve(i) \/ NotReserved(i) \/ RecheckFlag(i) \/ Start(i)
    \/ \E res \in {"completed", "failed", "fatal", "cancelled"} : AgentEnds(i, res)
    \/ Finish(i)

-----------------------------------------------------------------------------
\* Settling the batch

\* The cancel source of the invocation's run; without one, a stop that is
\* under way explains how the call ended.
SourceOf(i) == IF source[i] = "none" /\ Flagged THEN "service_shutdown" ELSE source[i]

Called(e) == {i \in InvsOf(e) : job[i] = "done"}

RaisedOnly(i) == result[i] \in {"fatal", "refused"}
Failed(i) == result[i] \in {"failed", "fatal", "cancelled", "refused"}

\* How one event of the batch is settled, in the code's order of tests.
Judge(r, e) ==
    LET plain == {i \in Called(e) : SourceOf(i) = "none"}
        gateFailed == gateErr[r] /\ InvsOf(e) \intersect Gated # {}
    IN  IF \E i \in Called(e) : SourceOf(i) = "service_shutdown" THEN "release"
        ELSE IF \E i \in Called(e) : SourceOf(i) = "administrator" THEN "cancel"
        ELSE IF gateFailed \/ \E i \in plain : Failed(i) /\ result[i] # "fatal"
             THEN "retry"
        ELSE IF \E i \in plain : Failed(i) THEN "giveup"
        ELSE "complete"

\* Every task of the batch is gathered and the cancel sources are read.
Decide(r) ==
    /\ phase[r] = "wait"
    /\ \A i \in BatchInvs(r) : job[i] \in {"none", "done"}
    /\ verdict' = [e \in Events |-> IF e \in claimed[r] THEN Judge(r, e) ELSE verdict[e]]
    /\ phase' = [phase EXCEPT ![r] = "settle"]
    /\ UNCHANGED <<inbox, runs, cancels, todo, claimed, gateErr, jobs,
                   mode, halted, used>>

\* release_event_after_service_shutdown gives the attempt back.
RefundNone(e) == evAttempts[e]
Refund(e) == IF evAttempts[e] > 0 THEN evAttempts[e] - 1 ELSE 0

\* finish_event, or the release, for one event of the batch.
Settle(r, e) ==
    /\ phase[r] = "settle"
    /\ e \in claimed[r]
    /\ LET v == verdict[e] IN
        /\ evStatus' = [evStatus EXCEPT ![e] =
             CASE v = "release" -> "pending"
               [] v = "cancel" -> "cancelled"
               [] v = "complete" -> "completed"
               [] OTHER -> "failed"]
        /\ evAttempts' = [evAttempts EXCEPT ![e] = IF v = "release" THEN Refund(e) ELSE @]
        /\ evRetry' = [evRetry EXCEPT ![e] = v # "giveup"]
        /\ genuine' = [genuine EXCEPT ![e] = IF v \in {"retry", "giveup"} THEN @ + 1 ELSE @]
    /\ claimed' = [claimed EXCEPT ![r] = @ \ {e}]
    /\ UNCHANGED <<runs, cancels, phase, todo, gateErr, verdict, jobs,
                   mode, halted, used>>

\* The batch is settled.  A stop ends the scheduling, a failure that may be
\* retried ends the task (the pull request backs off); otherwise the next
\* batch of the snapshot follows.
GoesOn(vs) == TRUE
NextBatchAllowed(vs) == vs \intersect {"release", "retry"} = {}

FinishBatch(r) ==
    /\ phase[r] = "settle" /\ claimed[r] = {}
    /\ LET mine == {e \in Events : ResourceOf[e] = r}
           vs == {verdict[e] : e \in mine}
       IN  /\ halted' = (halted \/ "release" \in vs)
           /\ phase' = [phase EXCEPT ![r] = IF NextBatchAllowed(vs) THEN "claim" ELSE "idle"]
           /\ todo' = [todo EXCEPT ![r] = IF NextBatchAllowed(vs) THEN @ ELSE {}]
           /\ verdict' = [e \in Events |-> IF e \in mine THEN "none" ELSE verdict[e]]
           /\ job' = [i \in Invs |-> IF EventOf[i] \in mine THEN "none" ELSE job[i]]
           /\ result' = [i \in Invs |-> IF EventOf[i] \in mine THEN "none" ELSE result[i]]
    /\ gateErr' = [gateErr EXCEPT ![r] = FALSE]
    /\ UNCHANGED <<inbox, runs, cancels, claimed, mode, used>>

TaskStep(r) ==
    \/ StartTask(r) \/ EndTask(r) \/ Plan(r) \/ GateReady(r)
    \/ \E err \in BOOLEAN : GateClosed(r, err)
    \/ Decide(r) \/ FinishBatch(r)
    \/ \E e \in Events : Claim(r, e) \/ SettleUnmatched(r, e) \/ Settle(r, e)

-----------------------------------------------------------------------------
\* The service around it

AllIdle == \A r \in Resources : phase[r] = "idle"

\* process_events has returned after a stop of its scheduling; the dispatch
\* loop is woken and calls it again.
NextCycle ==
    /\ mode = "up" /\ halted /\ AllIdle
    /\ halted' = FALSE
    /\ UNCHANGED <<inbox, runs, cancels, queue, jobs, mode, used>>

\* The web page cancels an active run.
AdminCancel(i) ==
    /\ mode # "down"
    /\ used.cancels < MaxCancels
    /\ ActiveRun(i)
    /\ RequestCancel({i}, "administrator")
    /\ used' = [used EXCEPT !.cancels = @ + 1]
    /\ UNCHANGED <<inbox, runAttempts, runRetry, queue, jobs, mode, halted>>

\* request_shutdown raises the flags ...
RequestShutdown ==
    /\ mode = "up"
    /\ used.stops < MaxStops
    /\ mode' = "flagged"
    /\ used' = [used EXCEPT !.stops = @ + 1]
    /\ UNCHANGED <<inbox, runs, cancels, queue, jobs, halted>>

\* ... then cancels the active runs that nobody has cancelled yet.
Sweep ==
    /\ mode = "flagged"
    /\ RequestCancel({i \in Invs : ActiveRun(i) /\ ~cancelReq[i]}, "service_shutdown")
    /\ mode' = "stopping"
    /\ UNCHANGED <<inbox, runAttempts, runRetry, queue, jobs, halted, used>>

\* process_events has gathered its tasks: the process ends.
Exit ==
    /\ mode = "stopping" /\ AllIdle
    /\ mode' = "down"
    /\ UNCHANGED <<inbox, runs, cancels, queue, jobs, halted, used>>

\* The process dies (also: the stop's deadline passes and it is killed).
Crash ==
    /\ mode # "down"
    /\ used.crashes < MaxCrashes
    /\ mode' = "down"
    /\ phase' = [r \in Resources |-> "idle"]
    /\ todo' = [r \in Resources |-> {}]
    /\ claimed' = [r \in Resources |-> {}]
    /\ gateErr' = [r \in Resources |-> FALSE]
    /\ verdict' = [e \in Events |-> "none"]
    /\ job' = [i \in Invs |-> "none"]
    /\ result' = [i \in Invs |-> "none"]
    /\ used' = [used EXCEPT !.crashes = @ + 1]
    /\ UNCHANGED <<inbox, runs, cancels, halted>>

ClaimedOnly(e) == evStatus[e] = "processing"
InFlight(e) == evStatus[e] \in {"processing", "triggered"}

\* The service starts again: recover_interrupted_work.  Neither the attempts
\* of an event nor the cancel columns of a run are touched.
Restart ==
    /\ mode = "down"
    /\ mode' = "up"
    /\ halted' = FALSE
    /\ evStatus' = [e \in Events |-> IF InFlight(e) THEN "pending" ELSE evStatus[e]]
    /\ genuine' = [e \in Events |-> IF InFlight(e) THEN genuine[e] + 1 ELSE genuine[e]]
    /\ runStatus' = [i \in Invs |-> IF ActiveRun(i) THEN "failed" ELSE runStatus[i]]
    /\ UNCHANGED <<evAttempts, evRetry, runAttempts, runRetry, cancels, queue, jobs, used>>

Environment ==
    \/ \E e \in Events : Store(e) \/ SettleWaiting(e)
    \/ \E i \in Invs : AdminCancel(i)
    \/ RequestShutdown \/ Crash

Next ==
    \/ \E r \in Resources : TaskStep(r)
    \/ \E i \in Invs : JobStep(i)
    \/ NextCycle \/ Sweep \/ Exit \/ Restart
    \/ Environment

Spec == Init /\ [][Next]_vars

\* Each coroutine that can move does, an Agent and the gate end (both have
\* timeouts), a stop is carried through and the service is started again.
\* Events, cancellations, stops and crashes need not happen.
Fairness ==
    /\ \A r \in Resources : WF_vars(TaskStep(r))
    /\ \A i \in Invs : WF_vars(JobStep(i))
    /\ WF_vars(NextCycle) /\ WF_vars(Sweep) /\ WF_vars(Exit) /\ WF_vars(Restart)

FairSpec == Spec /\ Fairness

-----------------------------------------------------------------------------
\* Every variable keeps its type.
TypeOK ==
    /\ evStatus \in [Events -> EvStatuses]
    /\ evAttempts \in [Events -> 0 .. MaxAttempts]
    /\ evRetry \in [Events -> BOOLEAN]
    /\ runStatus \in [Invs -> RunStatuses]
    /\ runAttempts \in [Invs -> 0 .. MaxAttempts]
    /\ runRetry \in [Invs -> BOOLEAN]
    /\ cancelReq \in [Invs -> BOOLEAN]
    /\ source \in [Invs -> Sources]
    /\ mode \in {"up", "flagged", "stopping", "down"}
    /\ halted \in BOOLEAN
    /\ phase \in [Resources -> Phases]
    /\ todo \in [Resources -> SUBSET Events]
    /\ claimed \in [Resources -> SUBSET Events]
    /\ gateErr \in [Resources -> BOOLEAN]
    /\ verdict \in [Events -> Verdicts]
    /\ job \in [Invs -> Jobs]
    /\ result \in [Invs -> Results]
    /\ genuine \in [Events -> Nat]
    /\ used \in [crashes : 0 .. MaxCrashes, stops : 0 .. MaxStops, cancels : 0 .. MaxCancels]

\* An event that will not be taken up again.
Closed(e) ==
    \/ evStatus[e] \in {"completed", "unmatched", "cancelled"}
    \/ evStatus[e] = "failed" /\ ~(evRetry[e] /\ evAttempts[e] < MaxAttempts)

\* The queue implements its promise: no closed event is opened again, no
\* Agent run succeeds twice or for a closed event, across crashes, stops,
\* retries and cancellations.
Delivery == INSTANCE EventDelivery WITH
    state <- [e \in Events |-> IF evStatus[e] = "absent" THEN "absent"
                               ELSE IF Closed(e) THEN "closed" ELSE "open"],
    succeeded <- {i \in Invs : runStatus[i] = "completed"}

ImplementsDelivery == Delivery!Spec

\* An event is only called completed when every Agent that needed no
\* preflight has really completed: not on a duplicate that is still active,
\* not on a run a stop or a crash interrupted.
CompletedMeansDelivered ==
    \A i \in Invs : evStatus[EventOf[i]] = "completed" /\ i \notin Gated
                        => runStatus[i] = "completed"

\* Events of one pull request are worked on in the order of their batches:
\* while a batch is in flight, no earlier one can still be retried.
InOrder ==
    \A e, f \in Events :
        /\ ResourceOf[e] = ResourceOf[f] /\ Batch[e] < Batch[f]
        /\ InFlight(f)
        => Closed(e) \/ evAttempts[e] >= MaxAttempts

\* A stop of the service costs an event nothing: one that used up its attempts
\* failed or crashed that often.
OnlyFailuresExhaust ==
    \A e \in Events : evStatus[e] \in {"pending", "failed"} => evAttempts[e] <= genuine[e]

\* What every state of the dispatch is: of its types, and with attempts that only
\* failures have used up.
DispatchInv == TypeOK /\ OnlyFailuresExhaust

\* Once a stop has swept the active runs no Agent starts any more, although
\* reservations race with the sweep.
NoStartAfterSweep ==
    [][\A i \in Invs : mode = "stopping" /\ runStatus'[i] = "running"
                            => runStatus[i] = "running"]_vars

\* The last attempt ended in a crash: claim_event refuses the event although
\* it is listed as pending.
Exhausted(e) == evStatus[e] = "pending" /\ evAttempts[e] >= MaxAttempts

\* A run that cannot be taken up again carries the mark of a stop: its event
\* is released each time it is tried.
Poisoned(e) ==
    \E i \in InvsOf(e) :
        /\ source[i] = "service_shutdown"
        /\ runStatus[i] \in {"completed", "failed"}
        /\ ~RetryDue(i)

\* ... and with it every later event of its pull request.
Blocked(e) ==
    \E f \in Events :
        /\ ResourceOf[f] = ResourceOf[e] /\ Batch[f] <= Batch[e]
        /\ ~Closed(f) /\ Poisoned(f)

\* Every stored event is closed in the end, through retries, stops, crashes
\* and cancellations, save for the two ways to get stuck named above.
EventsClose ==
    \A e \in Events : evStatus[e] = "pending" ~> Closed(e) \/ Exhausted(e) \/ Blocked(e)

=============================================================================
