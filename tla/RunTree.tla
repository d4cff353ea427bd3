------------------------------ MODULE RunTree ------------------------------
(***************************************************************************)
(* Root runs and the sub-agents they delegate to, in the embedded mode:    *)
(*                                                                         *)
(*   executor.py            execute, _invoke_embedded_agent, capacity      *)
(*   codex_model_runner.py  the run's watchdog and how its task ends       *)
(*   run_control.py         RunControl: reasons to stop, inherited         *)
(*   state.py               capacity slots and cancel requests             *)
(*                                                                         *)
(* A sub-agent's execute() is awaited inside its parent's task: cancelling *)
(* that task raises CancelledError in the innermost run of the chain.      *)
(*                                                                         *)
(* Abstracted: a run is executed once (retries are in EventDispatch), the  *)
(* leases and the workspace are steps that may fail (ResourceLease has the *)
(* former), and the time limits may strike at any moment.                  *)
(***************************************************************************)
EXTENDS Integers, FiniteSets

CONSTANTS
    Runs,           \* root runs and the delegations they may ask for
    NoRun,          \* the parent of a root run
    Parent,         \* Parent[r]: the run that delegates r
    Agents,         \* configured Agents
    AgentOf,        \* AgentOf[r]: the Agent r executes
    AgentLimit,     \* AgentLimit[a]: max_concurrent_runs
    GlobalLimit,    \* min(max_concurrent_agents, agent_concurrency_limit)
    MaxPerRoot,     \* max_agent_runs_per_root
    MaxDepth,       \* max_sub_agent_depth
    MaxTimeouts,    \* bound: idle and total time limits that strike
    Cancellable,    \* bound: the runs an administrator cancels
    MaxCancels      \* bound: how often one does

ASSUME RunTreeAssumption ==
    /\ IsFiniteSet(Runs) /\ NoRun \notin Runs
    /\ Parent \in [Runs -> Runs \union {NoRun}]
    /\ AgentOf \in [Runs -> Agents]
    /\ AgentLimit \in [Agents -> Nat]
    /\ Cancellable \subseteq Runs
    /\ {GlobalLimit, MaxPerRoot, MaxDepth, MaxTimeouts, MaxCancels} \subseteq Nat

VARIABLES
    status,     \* status[r]: agent_runs.status, or "none"
    slot,       \* slot[r]: concurrency_acquired
    request,    \* request[r]: cancel_source of a run with cancel_requested
    pc,         \* pc[r]: where execute() is
    stop,       \* stop[r]: RunControl.stop
    outcome,    \* outcome[r]: the status execute() is about to write
    cause,      \* cause[r]: error_code of a run that was stopped
    shutdown,   \* the executor's flag
    used        \* [timeouts, cancels] so far

rows == <<status, slot, request>>
vars == <<rows, pc, stop, outcome, cause, shutdown, used>>

Terminal == {"completed", "failed", "timed_out", "cancelled"}
Stops == {"none", "administrator", "service_shutdown", "timeout",
          "parent_timeout", "interrupted"}

Active(r) == status[r] \in {"queued", "preparing", "running"}
IsRoot(r) == Parent[r] = NoRun

Ancestors[r \in Runs] ==
    IF IsRoot(r) THEN {} ELSE {Parent[r]} \union Ancestors[Parent[r]]
Tree(r) == {d \in Runs : d = r \/ r \in Ancestors[d]}
RootOf(r) == CHOOSE t \in {r} \union Ancestors[r] : IsRoot(t)

\* Delegation makes a forest: what follows by induction from a Parent without
\* cycles (a run's row names a parent that was there before it).
ASSUME ForestAssumption ==
    /\ \A r \in Runs :
        /\ Ancestors[r] = IF IsRoot(r) THEN {} ELSE {Parent[r]} \union Ancestors[Parent[r]]
        /\ Ancestors[r] \subseteq Runs \ {r}
        /\ \A a \in Ancestors[r] :
            /\ Ancestors[a] \subseteq Ancestors[r]
            /\ \E c \in {r} \union Ancestors[r] : Parent[c] = a
            /\ \A b \in Ancestors[r] : a = b \/ a \in Ancestors[b] \/ b \in Ancestors[a]
    /\ \A r \in Runs : \A S \in SUBSET Ancestors[r] :
        S # {} => \E a \in S : S \intersect Tree(a) = {a}

Init ==
    /\ status = [r \in Runs |-> "none"]
    /\ slot = [r \in Runs |-> FALSE]
    /\ request = [r \in Runs |-> "none"]
    /\ pc = [r \in Runs |-> "idle"]
    /\ stop = [r \in Runs |-> "none"]
    /\ outcome = [r \in Runs |-> "none"]
    /\ cause = [r \in Runs |-> "none"]
    /\ shutdown = FALSE
    /\ used = [timeouts |-> 0, cancels |-> 0]

-----------------------------------------------------------------------------
\* Reasons to stop

\* child_stop: what a run makes of the reason of the run above it.
Inherited(s) ==
    CASE s \in {"administrator", "service_shutdown"} -> s
      [] s \in {"timeout", "parent_timeout"} -> "parent_timeout"
      [] OTHER -> "interrupted"

\* effective_stop: a run's own reason, or that of the nearest run above it.
OwnStop(r) == stop[r]
EffectiveStop(r) ==
    LET above == {a \in Ancestors[r] : stop[a] # "none"}
        near == CHOOSE a \in above : above \intersect Tree(a) = {a}
    IN  IF stop[r] # "none" THEN stop[r]
        ELSE IF above = {} THEN "none" ELSE Inherited(stop[near])

\* cancellation_source: the row's, or a shutdown the row does not know of.
SourceGuessed(r) == IF request[r] = "none" THEN "administrator" ELSE request[r]
SourceOf(r) == IF request[r] = "none" /\ shutdown THEN "service_shutdown" ELSE request[r]

\* _cancel_requested
CancelRequested(r) == shutdown \/ EffectiveStop(r) # "none" \/ request[r] # "none"

\* The status a stopped run ends with.
StatusOf(s) == IF s = "timeout" THEN "timed_out" ELSE "cancelled"

-----------------------------------------------------------------------------
\* The call of execute()

\* _invoke_embedded_agent: the depth and the chain of callers.
Allowed(r) ==
    /\ Cardinality(Ancestors[r]) <= MaxDepth
    /\ \A a \in Ancestors[r] : AgentOf[a] # AgentOf[r]

\* A root run is called by the orchestrator.  A sub-agent is called by a tool
\* of its parent, which makes one call at a time and waits for its end.
Call(r) ==
    /\ pc[r] = "idle"
    /\ Allowed(r)
    /\ IF IsRoot(r)
       THEN pc' = [pc EXCEPT ![r] = "called"]
       ELSE /\ pc[Parent[r]] = "running" /\ EffectiveStop(Parent[r]) = "none"
            /\ pc' = [pc EXCEPT ![r] = "called", ![Parent[r]] = "waiting"]
    /\ UNCHANGED <<rows, stop, outcome, cause, shutdown, used>>

RunsOfTree(r) == {d \in Tree(RootOf(r)) : status[d] # "none"}

\* The shutdown flag and the limit of the tree are tested first.
CheckLimit(r) ==
    /\ pc[r] = "called"
    /\ pc' = [pc EXCEPT ![r] =
         IF shutdown \/ (~IsRoot(r) /\ Cardinality(RunsOfTree(r)) >= MaxPerRoot)
         THEN "over" ELSE "counted"]
    /\ UNCHANGED <<rows, stop, outcome, cause, shutdown, used>>

\* begin_agent_run
Reserve(r) ==
    /\ pc[r] = "counted"
    /\ status' = [status EXCEPT ![r] = "queued"]
    /\ pc' = [pc EXCEPT ![r] = "reserved"]
    /\ UNCHANGED <<slot, request, stop, outcome, cause, shutdown, used>>

\* request_cancel_run / request_cancel_active_runs on the active rows of S.
RequestCancel(S, src) ==
    /\ request' = [r \in Runs |-> IF r \in S THEN src ELSE request[r]]
    /\ status' = [r \in Runs |-> IF r \in S /\ status[r] = "queued" THEN "cancelled"
                                 ELSE status[r]]
    /\ slot' = [r \in Runs |-> slot[r] /\ ~(r \in S /\ status[r] = "queued")]

\* run_started_callback is over; a stop that came before the row cancels it.
RecheckFlag(r) ==
    /\ pc[r] = "reserved"
    /\ RequestCancel(IF shutdown /\ Active(r) THEN {r} ELSE {}, "service_shutdown")
    /\ pc' = [pc EXCEPT ![r] = "capacity"]
    /\ UNCHANGED <<stop, outcome, cause, shutdown, used>>

-----------------------------------------------------------------------------
\* Capacity, leases and workspace

End(r, res) ==
    /\ outcome' = [outcome EXCEPT ![r] = res]
    /\ pc' = [pc EXCEPT ![r] = "ending"]

ActiveRows(S) == Cardinality({r \in S : Active(r)})
Slots(S) == Cardinality({r \in S : slot[r] /\ Active(r)})

\* try_acquire_agent_run_capacity: a root run needs a slot of the service,
\* every run one of its Agent.
FreeForRoots(r) == IsRoot(r) => Slots({d \in Runs : IsRoot(d)}) < GlobalLimit
Free(r) ==
    /\ IsRoot(r) => Slots({d \in Runs : IsRoot(d)}) < GlobalLimit
    /\ Slots({d \in Runs : AgentOf[d] = AgentOf[r]}) < AgentLimit[AgentOf[r]]

Acquire(r) ==
    /\ pc[r] = "capacity"
    /\ ~CancelRequested(r) /\ status[r] = "queued"
    /\ Free(r)
    /\ slot' = [slot EXCEPT ![r] = TRUE]
    /\ pc' = [pc EXCEPT ![r] = "leasing"]
    /\ UNCHANGED <<status, request, stop, outcome, cause, shutdown, used>>

\* Waiting ends with a cancellation, there is no deadline.
CapacityCancelled(r) ==
    /\ pc[r] = "capacity"
    /\ CancelRequested(r) \/ ~Active(r)
    /\ End(r, "cancelled")
    /\ UNCHANGED <<rows, stop, cause, shutdown, used>>

Startable(r) == status[r] \in {"queued", "preparing"} /\ request[r] = "none"

\* mark_agent_run_preparing
Prepare(r) ==
    /\ pc[r] = "leasing"
    /\ status[r] = "queued" /\ Startable(r)
    /\ status' = [status EXCEPT ![r] = "preparing"]
    /\ pc' = [pc EXCEPT ![r] = "preparing"]
    /\ UNCHANGED <<slot, request, stop, outcome, cause, shutdown, used>>

\* A lease times out, a step of the workspace fails or is cancelled.
PrepareFails(r, res) ==
    /\ pc[r] \in {"leasing", "preparing"}
    /\ res = "cancelled" => CancelRequested(r) \/ ~Startable(r)
    /\ End(r, res)
    /\ UNCHANGED <<rows, stop, cause, shutdown, used>>

\* mark_agent_run_running
Start(r) ==
    /\ pc[r] = "preparing"
    /\ IF Startable(r)
       THEN /\ status' = [status EXCEPT ![r] = "running"]
            /\ pc' = [pc EXCEPT ![r] = "running"]
            /\ UNCHANGED outcome
       ELSE End(r, "cancelled") /\ UNCHANGED status
    /\ UNCHANGED <<slot, request, stop, cause, shutdown, used>>

-----------------------------------------------------------------------------
\* The model loop and its watchdog

\* The loop ends by itself; a reason to stop prevails over what it returns.
LoopEnds(r, res) ==
    /\ pc[r] = "running"
    /\ LET s == EffectiveStop(r) IN
        /\ stop' = [stop EXCEPT ![r] = s]
        /\ End(r, IF s = "none" THEN res ELSE StatusOf(s))
    /\ UNCHANGED <<rows, cause, shutdown, used>>

\* The tool call returns, whatever became of the sub-agent: check_stop.
Resume(r) ==
    /\ pc[r] = "waiting"
    /\ \A c \in Runs : Parent[c] = r => pc[c] \in {"idle", "over"}
    /\ IF EffectiveStop(r) # "none"
       THEN /\ stop' = [stop EXCEPT ![r] = EffectiveStop(r)]
            /\ End(r, StatusOf(EffectiveStop(r)))
       ELSE /\ pc' = [pc EXCEPT ![r] = "running"]
            /\ UNCHANGED <<stop, outcome>>
    /\ UNCHANGED <<rows, cause, shutdown, used>>

\* The run of r's chain that awaits something.
Innermost(r) == CHOOSE d \in Tree(r) : pc[d] \notin {"idle", "over", "waiting"}

\* main_task.cancel() for reason s.  What CancelledError finds at the
\* innermost run d: no row yet; a row, but execute() is not in its `try`; the
\* `try`; the model loop; or the writes that follow the `try`, which nothing
\* shields.  `late` is the thread that still commits what was begun.
Interrupt(r, s, late) ==
    LET d == Innermost(r)
        seen == IF d = r THEN s ELSE "interrupted"
    IN  /\ IF pc[d] \in {"capacity", "leasing", "preparing", "running"}
           THEN /\ outcome' = [outcome EXCEPT ![d] = StatusOf(seen)]
                /\ pc' = [pc EXCEPT ![d] = "ending"]
           ELSE /\ pc' = [pc EXCEPT ![d] = "over"]
                /\ outcome' = [outcome EXCEPT ![d] = "none"]
        /\ stop' = [stop EXCEPT ![r] = s]
        /\ IF late /\ pc[d] = "counted"
           THEN status' = [status EXCEPT ![d] = "queued"] /\ UNCHANGED slot
           ELSE IF late /\ pc[d] = "ending"
           THEN /\ status' = [status EXCEPT ![d] = outcome[d]]
                /\ slot' = [slot EXCEPT ![d] = FALSE]
           ELSE UNCHANGED <<status, slot>>
        /\ UNCHANGED <<request, cause, shutdown>>

Watched(r) == pc[r] \in {"running", "waiting"} /\ stop[r] = "none"

\* The watchdog finds a request, a shutdown or the reason of a run above.
WatchdogStops(r, late) ==
    /\ Watched(r) /\ CancelRequested(r)
    /\ \E d \in Tree(r) : pc[d] \notin {"idle", "over", "waiting"}
    /\ Interrupt(r, IF EffectiveStop(r) # "none" THEN EffectiveStop(r) ELSE SourceOf(r), late)
    /\ UNCHANGED used

\* A time limit: the total one for sub-agents only, the idle one for a run
\* that does not wait for a sub-agent.
WatchdogTimesOut(r, late) ==
    /\ Watched(r) /\ EffectiveStop(r) = "none"
    /\ used.timeouts < MaxTimeouts
    /\ ~IsRoot(r) \/ pc[r] = "running"
    /\ \E d \in Tree(r) : pc[d] \notin {"idle", "over", "waiting"}
    /\ Interrupt(r, "timeout", late)
    /\ used' = [used EXCEPT !.timeouts = @ + 1]

\* finish_agent_run; what is called cancelled gets the recorded source for its
\* reason, or else the reason of the run above.
Finish(r) ==
    /\ pc[r] = "ending"
    /\ status' = [status EXCEPT ![r] = outcome[r]]
    /\ slot' = [slot EXCEPT ![r] = FALSE]
    /\ cause' = [cause EXCEPT ![r] =
         CASE outcome[r] = "timed_out" -> "timeout"
           [] outcome[r] = "cancelled" /\ SourceOf(r) # "none" -> SourceOf(r)
           [] outcome[r] = "cancelled" /\ EffectiveStop(r) # "none" -> EffectiveStop(r)
           [] outcome[r] = "cancelled" -> "interrupted"
           [] OTHER -> "none"]
    /\ outcome' = [outcome EXCEPT ![r] = "none"]
    /\ pc' = [pc EXCEPT ![r] = "over"]
    /\ UNCHANGED <<request, stop, shutdown, used>>

-----------------------------------------------------------------------------
\* Requests from outside

\* The web page cancels a run and all its descendants.
AdminCancel(r) ==
    /\ r \in Cancellable /\ used.cancels < MaxCancels
    /\ Active(r)
    /\ RequestCancel({d \in Tree(r) : Active(d)}, "administrator")
    /\ used' = [used EXCEPT !.cancels = @ + 1]
    /\ UNCHANGED <<pc, stop, outcome, cause, shutdown>>

\* begin_shutdown raises the flag ...
BeginShutdown ==
    /\ ~shutdown
    /\ shutdown' = TRUE
    /\ UNCHANGED <<rows, pc, stop, outcome, cause, used>>

\* ... and then request_cancel_active_runs marks what nobody has cancelled.
Sweep ==
    /\ shutdown
    /\ \E r \in Runs : Active(r) /\ request[r] = "none"
    /\ RequestCancel({r \in Runs : Active(r) /\ request[r] = "none"}, "service_shutdown")
    /\ UNCHANGED <<pc, stop, outcome, cause, shutdown, used>>

Execute(r) ==
    \/ CheckLimit(r) \/ Reserve(r) \/ RecheckFlag(r)
    \/ Acquire(r) \/ CapacityCancelled(r) \/ Prepare(r) \/ Start(r)
    \/ \E res \in {"failed", "cancelled"} : PrepareFails(r, res)
    \/ \E res \in {"completed", "failed"} : LoopEnds(r, res)
    \/ Resume(r) \/ Finish(r)

Next ==
    \/ \E r \in Runs : Call(r) \/ Execute(r) \/ AdminCancel(r)
    \/ \E r \in Runs, late \in BOOLEAN : WatchdogStops(r, late) \/ WatchdogTimesOut(r, late)
    \/ BeginShutdown \/ Sweep

Spec == Init /\ [][Next]_vars

\* Coroutines go on, the model loop ends, the watchdog polls.  A call, a time
\* limit, a cancellation and a shutdown need not happen.
Fairness ==
    \A r \in Runs :
        /\ WF_vars(Execute(r))
        /\ WF_vars(\E late \in BOOLEAN : WatchdogStops(r, late))

FairSpec == Spec /\ Fairness

-----------------------------------------------------------------------------
\* Every variable keeps its type.
TypeOK ==
    /\ status \in [Runs -> {"none", "queued", "preparing", "running"} \union Terminal]
    /\ slot \in [Runs -> BOOLEAN]
    /\ request \in [Runs -> {"none", "administrator", "service_shutdown"}]
    /\ pc \in [Runs -> {"idle", "called", "counted", "reserved", "capacity", "leasing",
                         "preparing", "running", "waiting", "ending", "over"}]
    /\ stop \in [Runs -> Stops]
    /\ outcome \in [Runs -> {"none"} \union Terminal]
    /\ cause \in [Runs -> Stops]
    /\ shutdown \in BOOLEAN
    /\ used \in [timeouts : 0 .. MaxTimeouts, cancels : 0 .. MaxCancels]

Working(r) == pc[r] \in {"running", "waiting"}

\* However runs are cancelled, stopped or left behind, no more models work at
\* a time than the limits of the service and of each Agent allow: a slot that
\* was taken away from a run keeps that run from starting.
LimitsRespected ==
    /\ Cardinality({r \in Runs : IsRoot(r) /\ Working(r)}) <= GlobalLimit
    /\ \A a \in Agents : Cardinality({r \in Runs : AgentOf[r] = a /\ Working(r)}) <= AgentLimit[a]

\* What every state of the runs is: of its types, and within the limits.
TreeInv == TypeOK /\ LimitsRespected

StopAbove(r) == \E a \in {r} \union Ancestors[r] : stop[a] # "none"

\* A stop is a one-way street (docs/design-sub-agent-waiting.md): whatever a
\* sub-agent returns, no run at or below the stopped one starts a model or
\* completes any more, and the reason stays.
StopIsFinal ==
    [][\A r \in Runs : StopAbove(r) =>
         /\ stop[r] # "none" => stop'[r] = stop[r]
         /\ status'[r] = "running" => status[r] = "running"
         /\ outcome'[r] = "completed" => outcome[r] = "completed"]_vars

\* Nothing is blamed on the administrator, or on a stop of the service, that
\* they did not do to the run or to one above it.
CauseIsTrue ==
    \A r \in Runs :
        /\ cause[r] = "administrator" =>
               \E a \in {r} \union Ancestors[r] : request[a] = "administrator"
        /\ cause[r] = "service_shutdown" => shutdown
        /\ cause[r] = "parent_timeout" =>
               \E a \in Ancestors[r] : stop[a] = "timeout"

\* A run that has returned without its row being finished.
Abandoned(r) == pc[r] = "over" /\ Active(r)

\* Runs that wait for one another in a circle, across root runs, and that nobody has
\* asked to stop: a parent for its sub-agent, and a run for a slot of an Agent whose
\* slots are all held by parents that wait.  The wait for a slot has no deadline, and
\* a root run no total time limit.
Circle(S) ==
    \A r \in S :
        /\ ~CancelRequested(r)
        /\ \/ pc[r] = "waiting" /\ \E d \in S : Parent[d] = r /\ pc[d] \in {"waiting", "capacity"}
           \/ /\ pc[r] = "capacity"
              /\ LET held == {d \in S : slot[d] /\ AgentOf[d] = AgentOf[r]}
                 IN  held # {} /\ Cardinality(held) >= AgentLimit[AgentOf[r]]

InCircle == \E S \in SUBSET Runs : S # {} /\ Circle(S)

\* Every call of execute() ends (there are finitely many), unless a row left
\* behind keeps a slot or root runs hold the slots that each other's sub-agents
\* wait for.
RunsEnd ==
    <>[](\/ \A r \in Runs : pc[r] \in {"idle", "over"}
         \/ \E d \in Runs : Abandoned(d) /\ slot[d]
         \/ InCircle)

=============================================================================
