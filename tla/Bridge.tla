-------------------------------- MODULE Bridge --------------------------------
(***************************************************************************)
(* One run of an Agent by Codex CLI, and its calls of tools: the runner    *)
(* that starts and watches Codex (codex_runner.py), the broker outside the *)
(* sandbox that answers the calls (mcp_bridge.py, mcp_server.py), the      *)
(* files they talk through (mcp_proxy_standalone.py) and the waits all of  *)
(* them see in the database (run_waits.py, remote_ci.py).                  *)
(*                                                                         *)
(* The sandbox is managed and fail_closed is set: without a broker nothing *)
(* is started.  A sub-agent (invoke_agent) is a run that works, can be     *)
(* told to stop and ends; RunTree has what happens inside.  Every CI wait  *)
(* of the run is for one commit of one change request: they share a row.   *)
(* Killing a process tree works.                                           *)
(***************************************************************************)
EXTENDS FiniteSets, Naturals

CONSTANTS
    Calls,      \* what Codex may ask for, each once
    Commit,     \* "number:sha", the key of the CI waits
    Plans,      \* bound: what the calls are, and whether the run is a sub-agent's
    MaxTroubles \* bound: cancels, stops of the service, exceptions, failures of Codex

Keys == Calls \cup {Commit}

ASSUME BridgeAssumption ==
    /\ IsFiniteSet(Calls) /\ Commit \notin Calls /\ MaxTroubles \in Nat
    /\ Plans \subseteq [Calls -> {"child", "ci", "comment"}] \X BOOLEAN

VARIABLES
    kind, sub,  \* what the calls are; the run is a sub-agent's
    runner,     \* CodexRunner.run
    codex,      \* the process group of Codex, with the proxy
    why,        \* stop_reason, then the status ("ended": what the exit code says)
    source,     \* agent_runs.cancel_source of the run
    flag,       \* the service is stopping
    meant,      \* someone cancelled: a person, the service or the model itself
    broker,     \* the broker's process
    asking,     \* what _request_current_run_cancellation has made up its mind to do
    stopfile, errfile,  \* stop.json and error.json
    call,       \* a call as the proxy sees it
    req, resp, cfile,   \* its request, response and cancel file
    task,       \* the broker's task for it
    wait, due,  \* agent_run_waits: status, and whether the deadline of CI is over
    child,      \* the sub-agent's run
    troubles

run   == <<kind, sub, runner, codex, why, source, flag, meant>>
proc  == <<broker, asking, stopfile, errfile>>
files == <<call, req, resp, cfile>>
work  == <<task, wait, due, child>>
vars  == <<run, proc, files, work, troubles>>

Init ==
    /\ \E p \in Plans : kind = p[1] /\ sub = p[2]
    /\ runner = "start" /\ codex = "none" /\ why = "none"
    /\ source = "none" /\ flag = FALSE /\ meant = FALSE
    /\ broker = "none" /\ asking = "no" /\ stopfile = FALSE /\ errfile = FALSE
    /\ call = [c \in Calls |-> "idle"] /\ req = {} /\ resp = {} /\ cfile = {}
    /\ task = [c \in Calls |-> "none"]
    /\ wait = [k \in Keys |-> "none"] /\ due = FALSE
    /\ child = [c \in Calls |-> "none"] /\ troubles = 0

Trouble == troubles < MaxTroubles /\ troubles' = troubles + 1
KeyOf(c) == IF kind[c] = "ci" THEN Commit ELSE c
Alive(c) == task[c] \in {"new", "busy", "hung", "cancelled"}
Claimed == {c \in Calls : Alive(c) \/ task[c] = "done"}    \* the dict `tasks'

-----------------------------------------------------------------------------
(* The waits in the database.                                              *)

\* RunWaits.state writes down which CI waits are over; that is for good.
Marked(w) == [w EXCEPT ![Commit] =
                IF @ = "waiting" /\ due THEN "timed_out" ELSE @]
TimedOut(w) == w[Commit] = "timed_out" \/ (~sub /\ \E c \in Calls : child[c] = "ci")
Waiting == \E k \in Keys : wait[k] = "waiting" /\ (k = Commit => ~due)

\* RunWaits.update changes a row that is still waiting, only.
Update(k, s) == wait' = [wait EXCEPT ![k] = IF @ = "waiting" THEN s ELSE @]

\* request_cancel_run writes the source, over the one there was; and that of the runs
\* below, which may end at any time here.
RequestCancel(s) == source' = s

-----------------------------------------------------------------------------
(* The runner.                                                             *)

\* ManagedMcpBroker.start waits for ready.json; when it fails the run does.
StartBroker ==
    /\ runner = "start"
    /\ \/ runner' = "check" /\ broker' = "up" /\ UNCHANGED <<why, troubles>>
       \/ Trouble /\ runner' = "over" /\ why' = "failed" /\ UNCHANGED broker
    /\ UNCHANGED <<kind, sub, codex, source, flag, meant, asking, stopfile, errfile, files, work>>

\* The version, the probe of Git, the last look at a cancel, and the process.
Launch ==
    /\ runner = "check"
    /\ \/ /\ source # "none" \/ flag
          /\ runner' = "close" /\ why' = "cancelled" /\ UNCHANGED <<codex, troubles>>
       \/ /\ source = "none" /\ ~flag
          /\ runner' = "watch" /\ codex' = "running" /\ UNCHANGED <<why, troubles>>
       \/ Trouble /\ runner' = "close" /\ why' = "failed" /\ UNCHANGED codex
    /\ UNCHANGED <<kind, sub, source, flag, meant, proc, files, work>>

\* The proxy ends with Codex, which exits by itself or is killed; what it waits for
\* it may still cancel (the end of its input does, a signal does not).
CodexDies(how) ==
    LET asked == {c \in Calls : call[c] = "asked"} IN
    /\ codex' = how
    /\ call' = [c \in Calls |-> IF c \in asked THEN "over" ELSE call[c]]
    /\ \E D \in {{}, asked} : cfile' = cfile \cup D

CodexEnds ==
    /\ codex = "running" /\ CodexDies("exited")
    /\ UNCHANGED <<kind, sub, runner, why, source, flag, meant, proc, req, resp, work, troubles>>

\* The watch: every half second, while Codex runs, it looks for a reason to stop,
\* first at the stream and the cancels ...
StoppingByRow == source # "none"
Stopping == source # "none" \/ flag
Look ==
    /\ runner = "watch" /\ codex = "running"
    /\ runner' = "looking" /\ why' = IF Stopping THEN "cancelled" ELSE "none"
    /\ UNCHANGED <<kind, sub, codex, source, flag, meant, proc, files, work, troubles>>
StreamFails ==
    /\ runner = "watch" /\ codex = "running" /\ ~Stopping /\ Trouble
    /\ runner' = "looking" /\ why' = "failed"
    /\ UNCHANGED <<kind, sub, codex, source, flag, meant, proc, files, work>>

\* ... and then, whether or not Codex has exited meanwhile, at the waits.  A CI that
\* timed out comes before the other limits; idle time does not count during a wait,
\* the total time only for sub-agents.
Reasons(w) ==
    IF why # "none" THEN {why}
    ELSE IF TimedOut(w) THEN {"ci_timeout"}
    ELSE (IF sub THEN {"total_timeout"} ELSE {})
         \cup (IF Waiting THEN {} ELSE {"idle_timeout"})
Stop(s) ==
    /\ runner = "looking"
    /\ wait' = Marked(wait) /\ s \in Reasons(wait')
    /\ CodexDies(IF codex = "running" THEN "killed" ELSE codex)
    /\ why' = s /\ runner' = "close"
    /\ UNCHANGED <<kind, sub, source, flag, meant, proc, req, resp, task, due, child, troubles>>
GoOn ==
    /\ runner = "looking" /\ why = "none"
    /\ wait' = Marked(wait) /\ ~TimedOut(wait')
    /\ runner' = "watch"
    /\ UNCHANGED <<kind, sub, codex, why, source, flag, meant, proc, files, task, due, child, troubles>>

\* The process ended: its exit code decides between completed and failed, whatever
\* else happened meanwhile.
Ended ==
    /\ runner = "watch" /\ codex = "exited"
    /\ why' = "ended" /\ runner' = "close"
    /\ UNCHANGED <<kind, sub, codex, source, flag, meant, proc, files, work, troubles>>

\* ManagedMcpBroker.close: stop.json first ...
AskToStop ==
    /\ runner = "close" /\ broker # "gone" /\ runner' = "closing" /\ stopfile' = TRUE
    /\ UNCHANGED <<kind, sub, codex, why, source, flag, meant, broker, asking, errfile, files, work, troubles>>

\* ... then ten seconds of patience, then the whole process tree is killed; the
\* row of a sub-agent that dies in it stays as it was.  The channel goes last.
Cleanup == req' = {} /\ cfile' = {} /\ resp' = {}
Closed ==
    /\ runner \in {"close", "closing"} /\ broker = "gone"
    /\ runner' = "over" /\ Cleanup
    /\ UNCHANGED <<kind, sub, codex, why, source, flag, meant, proc, call, work, troubles>>
Kill ==
    /\ runner = "closing" /\ broker # "gone" /\ runner' = "over"
    /\ broker' = "gone" /\ asking' = "no" /\ Cleanup
    /\ task' = [c \in Calls |-> IF Alive(c) THEN "killed" ELSE task[c]]
    /\ child' = [c \in Calls |-> IF child[c] = "active" THEN "lost" ELSE child[c]]
    /\ UNCHANGED <<kind, sub, codex, why, source, flag, meant, stopfile, errfile, call, wait, due, troubles>>

-----------------------------------------------------------------------------
(* The proxy in the sandbox.                                               *)

Call(c) ==
    /\ codex = "running" /\ call[c] = "idle"
    /\ call' = [call EXCEPT ![c] = "asked"] /\ req' = req \cup {c}
    /\ UNCHANGED <<run, proc, resp, cfile, work, troubles>>

\* The answer, a result or an error, counts before the broker's error.
Receive(c) ==
    /\ codex = "running" /\ call[c] = "asked"
    /\ c \in resp \/ errfile
    /\ call' = [call EXCEPT ![c] = "over"] /\ resp' = resp \ {c}
    /\ UNCHANGED <<run, proc, req, cfile, work, troubles>>

\* The deadline of the answer, or notifications/cancelled of the model.
GiveUp(c) ==
    /\ codex = "running" /\ call[c] = "asked" /\ c \notin resp
    /\ call' = [call EXCEPT ![c] = "over"] /\ cfile' = cfile \cup {c} /\ meant' = TRUE
    /\ UNCHANGED <<kind, sub, runner, codex, why, source, flag, proc, req, resp, work, troubles>>

-----------------------------------------------------------------------------
(* The loop of the broker.                                                 *)

Loop == broker \in {"up", "stopping"} /\ asking = "no"

Claim(c) ==
    /\ Loop /\ broker = "up" /\ c \in req
    /\ req' = req \ {c} /\ task' = [task EXCEPT ![c] = "new"]
    /\ UNCHANGED <<run, proc, call, resp, cfile, wait, due, child, troubles>>

\* _request_current_run_cancellation reads the source and the waits, and makes up
\* its mind: release the calls, or record a cancel from the source it has read.
Blind(w) == IF source = "none" THEN "administrator" ELSE source
Decision(w) ==
    IF source = "none" /\ TimedOut(w) THEN "release"
    ELSE IF source = "none" THEN "administrator" ELSE source
Decide == wait' = Marked(wait) /\ asking' = Decision(wait')

\* stop.json, and then a cancel only when there are tasks left.
SeeStop ==
    /\ Loop /\ broker = "up" /\ stopfile /\ broker' = "stopping"
    /\ IF Claimed = {} THEN UNCHANGED <<wait, asking>> ELSE Decide
    /\ UNCHANGED <<run, stopfile, errfile, files, task, due, child, troubles>>

\* A cancel file, be its call answered or not: it cancels the run.
SeeCancel(c) ==
    /\ Loop /\ c \in cfile /\ cfile' = cfile \ {c} /\ Decide
    /\ UNCHANGED <<run, broker, stopfile, errfile, call, req, resp, task, due, child, troubles>>

CancelTasks == task' = [c \in Calls |-> IF Alive(c) THEN "cancelled" ELSE task[c]]

\* What was decided is done, in a transaction of its own.
Decided ==
    /\ asking # "no" /\ asking' = "no" /\ broker # "gone"
    /\ IF asking = "release" THEN CancelTasks /\ UNCHANGED source
       ELSE RequestCancel(asking) /\ UNCHANGED task
    /\ UNCHANGED <<kind, sub, runner, codex, why, flag, meant, broker, stopfile, errfile, files, wait, due, child, troubles>>

\* An exception of the loop: error.json, and the tasks are cancelled.
BrokerFails ==
    /\ broker \in {"up", "stopping"} /\ Trouble
    /\ broker' = "dying" /\ asking' = "no" /\ errfile' = TRUE /\ CancelTasks
    /\ UNCHANGED <<run, stopfile, files, wait, due, child>>

Reap(c) ==
    /\ Loop /\ task[c] = "done" /\ task' = [task EXCEPT ![c] = "reaped"]
    /\ UNCHANGED <<run, proc, files, wait, due, child, troubles>>

ExitAtOnce == broker = "stopping" /\ asking = "no"
MayExit ==
    \/ broker = "stopping" /\ asking = "no" /\ Claimed = {}
    \/ broker = "dying" /\ \A c \in Calls : ~Alive(c)
Exit ==
    /\ MayExit /\ broker' = "gone"
    /\ UNCHANGED <<run, asking, stopfile, errfile, files, work, troubles>>

-----------------------------------------------------------------------------
(* The tasks of the broker: _handle_request and the tools.                 *)

\* The end of a task: an answer, unless it was cancelled; its wait is finished.
Finish(c, answer) ==
    /\ task' = [task EXCEPT ![c] = "done"]
    /\ resp' = resp \cup answer
    /\ IF kind[c] = "comment" THEN UNCHANGED wait ELSE Update(KeyOf(c), "finished")
    /\ UNCHANGED <<run, proc, call, req, cfile, due, child, troubles>>

\* RunWaits.begin: only while nobody has cancelled the run, else the answer is an
\* error.  A row that is there keeps its deadline; a finished one waits again, one
\* timed out does not.
Begin(c) ==
    /\ task[c] = "new"
    /\ IF kind[c] # "comment" /\ source # "none"
       THEN /\ task' = [task EXCEPT ![c] = "done"] /\ resp' = resp \cup {c}
            /\ UNCHANGED <<run, proc, call, req, cfile, wait, due, child, troubles>>
       ELSE /\ task' = [task EXCEPT ![c] = "busy"]
            /\ wait' = IF kind[c] = "comment" THEN wait
                       ELSE [wait EXCEPT ![KeyOf(c)] = IF @ = "timed_out" THEN @ ELSE "waiting"]
            /\ UNCHANGED <<run, proc, files, due, child, troubles>>

\* invoke_agent: the run below begins, after the wait was registered; ends.
Delegate(c) ==
    /\ task[c] = "busy" /\ kind[c] = "child" /\ child[c] = "none"
    /\ child' = [child EXCEPT ![c] = "active"]
    /\ UNCHANGED <<run, proc, files, task, wait, due, troubles>>
ChildEnds(c) ==
    /\ child[c] = "active"
    /\ child' \in {[child EXCEPT ![c] = s] : s \in {"ended", "ci"}}
    /\ UNCHANGED <<run, proc, files, task, wait, due, troubles>>

\* The tool has its result: the sub-agent ended, a poll found CI decided (or the
\* change request closed or at another head), the comment is published.
Done(c) ==
    /\ task[c] = "busy" /\ Finish(c, {c})
    /\ kind[c] = "child" => child[c] \in {"ended", "ci"}

\* wait_for_ci after the deadline never returns: the watch is to end the run.
CITimesOut(c) ==
    /\ task[c] = "busy" /\ kind[c] = "ci"
    /\ due \/ wait[Commit] = "timed_out"
    /\ task' = [task EXCEPT ![c] = "hung"] /\ Update(Commit, "timed_out")
    /\ UNCHANGED <<run, proc, files, due, child, troubles>>

\* A cancelled task ends without an answer: one the broker cancels, and a CI wait
\* that finds the run cancelled.  A sub-agent is awaited.
Cancelled(c) ==
    /\ \/ task[c] = "cancelled" /\ child[c] # "active"
       \/ task[c] = "busy" /\ kind[c] = "ci" /\ source # "none"
    /\ Finish(c, {})

-----------------------------------------------------------------------------
(* The surroundings.                                                       *)

\* The deadline of the CI wait is over; that of a sub-agent's is later than any
\* time limit of its own.
TimePasses ==
    /\ wait[Commit] # "none" /\ ~due /\ due' = TRUE
    /\ UNCHANGED <<run, proc, files, task, wait, child, troubles>>

\* The web page cancels the run, or a stopping service does: the flag, then the row.
AdminCancel ==
    /\ runner # "over" /\ source = "none" /\ RequestCancel("administrator") /\ meant' = TRUE
    /\ Trouble
    /\ UNCHANGED <<kind, sub, runner, codex, why, flag, proc, files, task, wait, due, child>>
BeginShutdown ==
    /\ ~flag /\ flag' = TRUE /\ meant' = TRUE /\ Trouble
    /\ UNCHANGED <<kind, sub, runner, codex, why, source, proc, files, work>>
Sweep ==
    /\ runner # "over" /\ flag /\ source = "none" /\ RequestCancel("service_shutdown")
    /\ UNCHANGED <<kind, sub, runner, codex, why, flag, meant, proc, files, task, wait, due, child, troubles>>

Watchdog ==
    \/ StartBroker \/ Launch \/ Look \/ GoOn \/ Ended \/ AskToStop \/ Closed \/ Kill
    \/ \E s \in {"failed", "cancelled", "ci_timeout"} : Stop(s)
Limit    == Stop("total_timeout") \/ Stop("idle_timeout") \/ StreamFails
Proxy(c) == Call(c) \/ Receive(c) \/ GiveUp(c)
Broker   == SeeStop \/ Decided \/ Exit \/ \E c \in Calls : Claim(c) \/ SeeCancel(c) \/ Reap(c)
Tool(c)  == Begin(c) \/ Delegate(c) \/ ChildEnds(c) \/ Done(c) \/ CITimesOut(c) \/ Cancelled(c)
World    == AdminCancel \/ BeginShutdown \/ Sweep \/ TimePasses

Over == runner = "over" /\ UNCHANGED vars

Next ==
    \/ Watchdog \/ Limit \/ CodexEnds
    \/ \E c \in Calls : Proxy(c) \/ Tool(c)
    \/ Broker \/ BrokerFails \/ World \/ Over

SafeSpec == Init /\ [][Next]_vars

\* The watch is a loop with a sleep, and close() waits for bounded times.  Nothing
\* is assumed of Codex, of the broker, of the tools or of the other limits.
Spec == SafeSpec /\ WF_vars(Watchdog)

-----------------------------------------------------------------------------
TypeOK ==
    /\ <<kind, sub>> \in Plans
    /\ runner \in {"start", "check", "watch", "looking", "close", "closing", "over"}
    /\ codex \in {"none", "running", "exited", "killed"}
    /\ why \in {"none", "ended", "failed", "cancelled", "ci_timeout",
                "total_timeout", "idle_timeout"}
    /\ source \in {"none", "administrator", "service_shutdown"}
    /\ flag \in BOOLEAN /\ meant \in BOOLEAN
    /\ broker \in {"none", "up", "stopping", "dying", "gone"}
    /\ asking \in {"no", "release", "administrator", "service_shutdown"}
    /\ stopfile \in BOOLEAN /\ errfile \in BOOLEAN
    /\ call \in [Calls -> {"idle", "asked", "over"}]
    /\ {req, resp, cfile} \subseteq SUBSET Calls
    /\ task \in [Calls -> {"none", "new", "busy", "hung", "cancelled", "done", "reaped", "killed"}]
    /\ wait \in [Keys -> {"none", "waiting", "finished", "timed_out"}]
    /\ due \in BOOLEAN
    /\ child \in [Calls -> {"none", "active", "ended", "ci", "lost"}]
    /\ troubles \in 0 .. MaxTroubles

\* A sub-agent works only under a living broker, and when run() has returned
\* (its workspace and its leases are given up next) neither Codex, nor the broker,
\* nor anything they started is left.
NothingOutlives ==
    /\ \A c \in Calls : child[c] = "active" =>
           broker \in {"up", "stopping", "dying"} /\ task[c] \in {"busy", "cancelled"}
    /\ runner = "over" => /\ codex # "running" /\ broker \in {"none", "gone"}
                          /\ \A c \in Calls : ~Alive(c)

\* What the types and the lifetimes of the processes say of every state.
BridgeInv == TypeOK /\ NothingOutlives

\* A run that is stopped because its CI timed out ends as "timed out, not to be tried
\* again": the closing of the channel, which cancels whatever call is left, never makes
\* an administrator's cancel of it, by which the orchestrator would settle the event.
\* (When Codex exited by itself just before, what its proxy cancelled may.)
CITimeoutKept == why = "ci_timeout" /\ source # "none" => meant \/ codex = "exited"

\* A run that was cancelled, or whose CI timed out, or whose Codex has ended comes to
\* its end, however its calls hang, the broker fails or a sub-agent goes on.
StoppedRunsEnd ==
    source # "none" \/ flag \/ TimedOut(wait) \/ codex \in {"exited", "killed"}
        ~> runner = "over"

===============================================================================
