------------------------ MODULE EventDispatchProofs ------------------------
(***************************************************************************)
(* Proofs about EventDispatch: its safety properties hold, and it          *)
(* implements EventDelivery, for any events, invocations, batches and      *)
(* pull requests and any bounds on attempts, crashes, stops and cancels.   *)
(*                                                                         *)
(* The inductive invariant says what the process's memory knows of the     *)
(* database: a batch that is worked on holds events that are in flight     *)
(* (TaskInv, HeldInv), execute() only runs for such a batch and is the     *)
(* only one to run (JobInv), what it returned is what the row says         *)
(* (CalledInv), and the order of batches carries over from the snapshot    *)
(* of a task to its claims (TurnInv).                                      *)
(*                                                                         *)
(* The second part is about Schedule, the loop beside the queue, for any   *)
(* rules, targets and period: a rule's deadlines lie on a grid that is     *)
(* counted from when the loop first saw it (Grid), the recursions over     *)
(* what has passed have closed forms, and what was slept through lies      *)
(* before the deadlines (Backlog).                                         *)
(***************************************************************************)
EXTENDS EventDispatch, ScheduleState, WellFoundedInduction, TLAPS

ResOf(i) == ResourceOf[EventOf[i]]
Running == {"reserved", "waiting", "running", "ended"}
Settled(e) == Closed(e) \/ evAttempts[e] >= MaxAttempts
Earlier(e, f) == ResourceOf[e] = ResourceOf[f] /\ Batch[e] < Batch[f]

\* A run that does not exist has not been tried; a queued run is not cancelled;
\* a run that has ended knows what it is about to write.
RowsInv ==
    \A i \in Invs :
        /\ runStatus[i] = "none" => runAttempts[i] = 0
        /\ runStatus[i] = "queued" => ~cancelReq[i]
        /\ job[i] = "ended" => result[i] \in {"completed", "failed", "fatal", "cancelled"}

\* Nothing runs while the service is down.
DownInv == mode = "down" => AllIdle

\* A task works on events of its pull request that are in flight.
TaskInv ==
    \A r \in Resources :
        /\ phase[r] = "idle" => claimed[r] = {}
        /\ \A e \in todo[r] : ResourceOf[e] = r /\ evStatus[e] # "absent"
        /\ \A e \in claimed[r] : ResourceOf[e] = r /\ InFlight(e)

\* execute() runs for a claimed event while its batch is gathered; a row is
\* active only while execute() runs; after the sweep none waits to start.
JobInv ==
    \A i \in Invs :
        /\ job[i] \in {"called"} \union Running =>
               phase[ResOf(i)] \in {"gate", "wait"} /\ EventOf[i] \in claimed[ResOf(i)]
        /\ job[i] = "done" => phase[ResOf(i)] \in {"gate", "wait", "settle"}
        /\ job[i] \in Running => runStatus[i] \in {"queued", "running", "cancelled"}
        /\ mode # "down" /\ ActiveRun(i) => job[i] \in Running
        /\ mode = "stopping" /\ job[i] = "waiting" => runStatus[i] # "queued"

\* Direct invocations are called before the gate opens, gated ones after it;
\* a call that is reported as done or to be skipped has a completed run.
CalledInv ==
    \A i \in Invs :
        /\ phase[ResOf(i)] = "gate" /\ i \in Gated => job[i] = "none"
        /\ phase[ResOf(i)] \in {"gate", "wait"} /\ EventOf[i] \in claimed[ResOf(i)]
               /\ i \notin Gated => job[i] # "none"
        /\ job[i] = "done" => result[i] # "none"
        /\ job[i] = "done" /\ result[i] \in {"completed", "skipped"} => runStatus[i] = "completed"

\* Verdicts exist while a batch is settled, and "complete" is justified.
VerdictInv ==
    \A e \in Events :
        /\ phase[ResourceOf[e]] = "settle" /\ e \in claimed[ResourceOf[e]] => verdict[e] # "none"
        /\ phase[ResourceOf[e]] # "settle" => verdict[e] = "none"
        /\ verdict[e] = "complete" =>
               \A i \in InvsOf(e) \ Gated : runStatus[i] = "completed"

\* Every attempt but the one in flight was charged to a failure or a crash.
ChargeInv ==
    \A e \in Events :
        /\ evStatus[e] \in {"absent", "pending", "failed"} => evAttempts[e] <= genuine[e]
        /\ InFlight(e) => evAttempts[e] <= genuine[e] + 1

\* Batches are stored in order.
CreatedInv ==
    \A e, f \in Events : Earlier(e, f) /\ evStatus[f] # "absent" => evStatus[e] # "absent"

\* What is in flight is held by the task of its pull request.
HeldInv == \A f \in Events : mode # "down" /\ InFlight(f) => f \in claimed[ResourceOf[f]]

\* A task holds one batch, and no later one than those it has before it.
BatchInv ==
    /\ \A r \in Resources : \A e, f \in claimed[r] : Batch[e] = Batch[f]
    /\ \A r \in Resources : \A e \in claimed[r], f \in todo[r] : Batch[e] <= Batch[f]
    /\ \A e, f \in Events : verdict[e] # "none" /\ f \in claimed[ResourceOf[e]]
                                => Batch[e] = Batch[f]

\* An event before one that a task holds, or has before it, is there too, is
\* settled, or has just been put off.
TurnInv ==
    \A r \in Resources : \A f \in todo[r] \union claimed[r], e \in Events :
        Earlier(e, f) => \/ e \in todo[r] \union claimed[r]
                         \/ Settled(e)
                         \/ verdict[e] \in {"release", "retry"}

IInv ==
    /\ TypeOK /\ RowsInv /\ DownInv /\ TaskInv /\ JobInv /\ CalledInv
    /\ VerdictInv /\ ChargeInv /\ CreatedInv /\ HeldInv /\ BatchInv /\ TurnInv
    /\ CompletedMeansDelivered /\ InOrder

-----------------------------------------------------------------------------
\* Every step keeps the types of the variables.
LEMMA NextTypeOK == TypeOK /\ RowsInv /\ [Next]_vars => TypeOK'
<1> SUFFICES ASSUME TypeOK /\ RowsInv, [Next]_vars PROVE TypeOK'
    OBVIOUS
<1> USE DispatchAssumption DEF inbox, runs, cancels, queue, jobs, EvStatuses, RunStatuses,
        Sources, Phases, Verdicts, Jobs, Results
<1>1. ASSUME NEW r \in Resources, TaskStep(r) PROVE TypeOK'
  <2>1. CASE StartTask(r)
    BY <2>1 DEF StartTask, TypeOK
  <2>2. CASE EndTask(r)
    BY <2>2 DEF EndTask, TypeOK
  <2>3. CASE Plan(r)
    BY <2>3 DEF Plan, Dispatch, TypeOK
  <2>4. CASE GateReady(r)
    BY <2>4 DEF GateReady, Dispatch, TypeOK
  <2>5. ASSUME NEW err \in BOOLEAN, GateClosed(r, err) PROVE TypeOK'
    BY <2>5 DEF GateClosed, TypeOK
  <2>6. CASE Decide(r)
    BY <2>6 DEF Decide, Judge, TypeOK
  <2>7. CASE FinishBatch(r)
    BY <2>7 DEF FinishBatch, TypeOK
  <2>8. ASSUME NEW e \in Events, Claim(r, e) PROVE TypeOK'
    <3>1. CASE Claimable(e)
      <4>1. evAttempts[e] + 1 \in 0 .. MaxAttempts
        BY <3>1 DEF Claimable, TypeOK
      <4>2. evAttempts' = [evAttempts EXCEPT ![e] = evAttempts[e] + 1]
        BY <2>8, <3>1 DEF Claim
      <4>3. evAttempts' \in [Events -> 0 .. MaxAttempts]
        BY <4>1, <4>2 DEF TypeOK
      <4>4. claimed' = [claimed EXCEPT ![r] = claimed[r] \union {e}]
        BY <2>8, <3>1 DEF Claim
      <4>5. claimed' \in [Resources -> SUBSET Events]
        BY <4>4 DEF TypeOK
      <4>6. /\ evStatus' = [evStatus EXCEPT ![e] = "processing"]
            /\ evRetry' = [evRetry EXCEPT ![e] = TRUE]
        BY <2>8, <3>1 DEF Claim
      <4>7. todo' \in [Resources -> SUBSET Events]
        BY <2>8 DEF Claim, TypeOK
      <4> QED
        BY <2>8, <4>3, <4>5, <4>6, <4>7 DEF Claim, TypeOK
    <3>2. CASE ~Claimable(e)
      BY <2>8, <3>2 DEF Claim, TypeOK
    <3> QED
      BY <3>1, <3>2
  <2>9. ASSUME NEW e \in Events, SettleUnmatched(r, e) PROVE TypeOK'
    BY <2>9 DEF SettleUnmatched, TypeOK
  <2>10. ASSUME NEW e \in Events, Settle(r, e) PROVE TypeOK'
    BY <2>10 DEF Settle, Refund, TypeOK
  <2> QED
    BY <1>1, <2>1, <2>2, <2>3, <2>4, <2>5, <2>6, <2>7, <2>8, <2>9, <2>10 DEF TaskStep
<1>2. ASSUME NEW i \in Invs, JobStep(i) PROVE TypeOK'
  <2>1. CASE RefuseCall(i)
    BY <2>1 DEF RefuseCall, Return, TypeOK
  <2>2. CASE Reserve(i)
    BY <2>2 DEF Reserve, Interrupted, RetryDue, RowsInv, TypeOK
  <2>3. CASE NotReserved(i)
    BY <2>3 DEF NotReserved, Return, TypeOK
  <2>4. CASE RecheckFlag(i)
    BY <2>4 DEF RecheckFlag, RequestCancel, TypeOK
  <2>5. CASE Start(i)
    BY <2>5 DEF Start, TypeOK
  <2>6. ASSUME NEW res \in {"completed", "failed", "fatal", "cancelled"}, AgentEnds(i, res) PROVE TypeOK'
    BY <2>6 DEF AgentEnds, TypeOK
  <2>7. CASE Finish(i)
    BY <2>7 DEF Finish, RowsInv, TypeOK
  <2> QED
    BY <1>2, <2>1, <2>2, <2>3, <2>4, <2>5, <2>6, <2>7 DEF JobStep
<1>3. CASE NextCycle
    BY <1>3 DEF NextCycle, TypeOK
<1>4. CASE Sweep
    BY <1>4 DEF Sweep, RequestCancel, TypeOK
<1>5. CASE Exit
    BY <1>5 DEF Exit, TypeOK
<1>6. CASE Restart
  <2>1. genuine' \in [Events -> Nat]
    BY <1>6 DEF Restart, TypeOK
  <2>2. evStatus' \in [Events -> EvStatuses] /\ runStatus' \in [Invs -> RunStatuses]
    BY <1>6 DEF Restart, TypeOK
  <2> QED
    BY <1>6, <2>1, <2>2 DEF Restart, TypeOK
<1>7. CASE Environment
  <2>1. ASSUME NEW e \in Events, Store(e) PROVE TypeOK'
    BY <2>1 DEF Store, TypeOK
  <2>2. ASSUME NEW e \in Events, SettleWaiting(e) PROVE TypeOK'
    BY <2>2 DEF SettleWaiting, TypeOK
  <2>3. ASSUME NEW i \in Invs, AdminCancel(i) PROVE TypeOK'
    <3>1. used.cancels + 1 \in 0 .. MaxCancels
      BY <2>3 DEF AdminCancel, TypeOK
    <3>2. used' = [used EXCEPT !.cancels = used.cancels + 1]
      BY <2>3 DEF AdminCancel
    <3>3. used' \in [crashes : 0 .. MaxCrashes, stops : 0 .. MaxStops, cancels : 0 .. MaxCancels]
      BY <3>1, <3>2 DEF TypeOK
    <3> QED
      BY <2>3, <3>3 DEF AdminCancel, RequestCancel, TypeOK
  <2>4. CASE RequestShutdown
    <3>1. used.stops + 1 \in 0 .. MaxStops
      BY <2>4 DEF RequestShutdown, TypeOK
    <3>2. used' = [used EXCEPT !.stops = used.stops + 1]
      BY <2>4 DEF RequestShutdown
    <3>3. used' \in [crashes : 0 .. MaxCrashes, stops : 0 .. MaxStops, cancels : 0 .. MaxCancels]
      BY <3>1, <3>2 DEF TypeOK
    <3> QED
      BY <2>4, <3>3 DEF RequestShutdown, TypeOK
  <2>5. CASE Crash
    <3>1. used.crashes + 1 \in 0 .. MaxCrashes
      BY <2>5 DEF Crash, TypeOK
    <3>2. used' = [used EXCEPT !.crashes = used.crashes + 1]
      BY <2>5 DEF Crash
    <3>3. used' \in [crashes : 0 .. MaxCrashes, stops : 0 .. MaxStops, cancels : 0 .. MaxCancels]
      BY <3>1, <3>2 DEF TypeOK
    <3> QED
      BY <2>5, <3>3 DEF Crash, TypeOK
  <2> QED
    BY <1>7, <2>1, <2>2, <2>3, <2>4, <2>5 DEF Environment
<1>8. CASE UNCHANGED vars
    BY <1>8 DEF vars, TypeOK
<1> QED
    BY <1>1, <1>2, <1>3, <1>4, <1>5, <1>6, <1>7, <1>8 DEF Next

\* Steps that leave the runs and the coroutines of execute() alone.
LEMMA RunFrame ==
    ASSUME [Next]_vars
    PROVE  \/ UNCHANGED <<runs, cancels, jobs>>
           \/ \E r \in Resources : Plan(r) \/ GateReady(r) \/ FinishBatch(r)
           \/ \E i \in Invs : JobStep(i) \/ AdminCancel(i)
           \/ Sweep \/ Crash \/ Restart
BY DEF Next, vars, TaskStep, StartTask, EndTask, GateClosed, Decide, Claim,
       SettleUnmatched, Settle, Environment, Store, SettleWaiting,
       NextCycle, Exit, RequestShutdown

\* Steps that leave the events and the tasks of the pull requests alone.
LEMMA EventFrame ==
    ASSUME [Next]_vars
    PROVE  \/ UNCHANGED <<inbox, queue>>
           \/ \E r \in Resources : TaskStep(r)
           \/ \E e \in Events : Store(e) \/ SettleWaiting(e)
           \/ Crash \/ Restart
BY DEF Next, vars, JobStep, RefuseCall, Return, Reserve, NotReserved, RecheckFlag,
       Start, AgentEnds, Finish, Environment, AdminCancel, NextCycle, Sweep, Exit,
       RequestShutdown

\* What a claim changes.
LEMMA ClaimEffect ==
    ASSUME TypeOK, NEW r \in Resources, NEW e \in Events, Claim(r, e)
    PROVE  /\ phase[r] = "claim" /\ e \in NextToClaim(r)
           /\ todo'[r] = todo[r] \ {e}
           /\ \A q \in Resources \ {r} : todo'[q] = todo[q] /\ claimed'[q] = claimed[q]
           /\ \A d \in Events \ {e} : /\ evStatus'[d] = evStatus[d]
                                      /\ evAttempts'[d] = evAttempts[d]
                                      /\ evRetry'[d] = evRetry[d]
           /\ \/ /\ Claimable(e)
                 /\ claimed'[r] = claimed[r] \union {e}
                 /\ evStatus'[e] = "processing"
                 /\ evAttempts'[e] = evAttempts[e] + 1
              \/ /\ ~Claimable(e)
                 /\ UNCHANGED <<evStatus, evAttempts, evRetry, claimed>>
           /\ UNCHANGED <<genuine, runs, cancels, phase, gateErr, verdict, jobs,
                          mode, halted, used>>
<1>1. CASE Claimable(e)
  <2>1. /\ evStatus' = [evStatus EXCEPT ![e] = "processing"]
        /\ evAttempts' = [evAttempts EXCEPT ![e] = evAttempts[e] + 1]
        /\ evRetry' = [evRetry EXCEPT ![e] = TRUE]
        /\ claimed' = [claimed EXCEPT ![r] = claimed[r] \union {e}]
        /\ todo' = [todo EXCEPT ![r] = todo[r] \ {e}]
    BY <1>1 DEF Claim
  <2>2. /\ phase[r] = "claim" /\ e \in NextToClaim(r)
        /\ UNCHANGED <<genuine, runs, cancels, phase, gateErr, verdict, jobs,
                       mode, halted, used>>
    BY DEF Claim
  <2> QED
    BY <1>1, <2>1, <2>2 DEF TypeOK
<1>2. CASE ~Claimable(e)
  <2>1. todo' = [todo EXCEPT ![r] = todo[r] \ {e}]
    BY DEF Claim
  <2>2. /\ phase[r] = "claim" /\ e \in NextToClaim(r)
        /\ UNCHANGED <<evStatus, evAttempts, evRetry, claimed>>
        /\ UNCHANGED <<genuine, runs, cancels, phase, gateErr, verdict, jobs,
                       mode, halted, used>>
    BY <1>2 DEF Claim
  <2> QED
    BY <1>2, <2>1, <2>2 DEF TypeOK
<1> QED
  BY <1>1, <1>2

\* What settling an event changes.
LEMMA SettleEffect ==
    ASSUME TypeOK, NEW r \in Resources, NEW e \in Events, Settle(r, e)
    PROVE  /\ phase[r] = "settle" /\ e \in claimed[r]
           /\ claimed'[r] = claimed[r] \ {e}
           /\ \A q \in Resources \ {r} : claimed'[q] = claimed[q]
           /\ \A d \in Events \ {e} : /\ evStatus'[d] = evStatus[d]
                                      /\ evAttempts'[d] = evAttempts[d]
                                      /\ evRetry'[d] = evRetry[d]
           /\ verdict[e] = "release" => evStatus'[e] = "pending"
           /\ verdict[e] = "cancel" => evStatus'[e] = "cancelled"
           /\ verdict[e] = "complete" => evStatus'[e] = "completed"
           /\ verdict[e] \in {"none", "retry", "giveup"} => evStatus'[e] = "failed"
           /\ verdict[e] = "giveup" => ~evRetry'[e]
           /\ verdict[e] # "release" => evAttempts'[e] = evAttempts[e]
           /\ UNCHANGED <<runs, cancels, phase, todo, gateErr, verdict, jobs,
                          mode, halted, used>>
<1>1. /\ evStatus' = [evStatus EXCEPT ![e] = IF verdict[e] = "release" THEN "pending"
                                             ELSE IF verdict[e] = "cancel" THEN "cancelled"
                                             ELSE IF verdict[e] = "complete" THEN "completed"
                                             ELSE "failed"]
      /\ evAttempts' = [evAttempts EXCEPT ![e] = IF verdict[e] = "release" THEN Refund(e)
                                                 ELSE evAttempts[e]]
      /\ evRetry' = [evRetry EXCEPT ![e] = verdict[e] # "giveup"]
      /\ claimed' = [claimed EXCEPT ![r] = claimed[r] \ {e}]
  BY DEF Settle
<1>2. /\ phase[r] = "settle" /\ e \in claimed[r]
      /\ UNCHANGED <<runs, cancels, phase, todo, gateErr, verdict, jobs,
                     mode, halted, used>>
  BY DEF Settle
<1> QED
  BY <1>1, <1>2 DEF TypeOK

\* A row stays what execute() made of it.
LEMMA NextRows ==
    TypeOK /\ RowsInv /\ TypeOK' /\ [Next]_vars => RowsInv'
<1> SUFFICES ASSUME TypeOK, RowsInv, TypeOK', [Next]_vars PROVE RowsInv'
    OBVIOUS
<1> USE DispatchAssumption DEF inbox, runs, cancels, queue, jobs
<1>1. ASSUME NEW r \in Resources, Plan(r) PROVE RowsInv'
  BY <1>1 DEF Plan, Dispatch, BatchInvs, TypeOK, RowsInv
<1>2. ASSUME NEW r \in Resources, GateReady(r) PROVE RowsInv'
  BY <1>2 DEF GateReady, Dispatch, BatchInvs, TypeOK, RowsInv
<1>3. ASSUME NEW r \in Resources, FinishBatch(r) PROVE RowsInv'
  BY <1>3 DEF FinishBatch, TypeOK, RowsInv
<1>4. ASSUME NEW i \in Invs, JobStep(i) PROVE RowsInv'
  <2>1. CASE RefuseCall(i)
    BY <2>1 DEF RefuseCall, Return, Flagged, TypeOK, RowsInv
  <2>2. CASE Reserve(i)
    BY <2>2 DEF Reserve, Interrupted, RetryDue, TypeOK, RowsInv
  <2>3. CASE NotReserved(i)
    BY <2>3 DEF NotReserved, Return, TypeOK, RowsInv
  <2>4. CASE RecheckFlag(i)
    BY <2>4 DEF RecheckFlag, RequestCancel, LateToCancel, Flagged, ActiveRun, TypeOK,
        RowsInv
  <2>5. CASE Start(i)
    BY <2>5 DEF Start, TypeOK, RowsInv
  <2>6. ASSUME NEW res \in {"completed", "failed", "fatal", "cancelled"}, AgentEnds(i, res) PROVE RowsInv'
    BY <2>6 DEF AgentEnds, TypeOK, RowsInv
  <2>7. CASE Finish(i)
    BY <2>7 DEF Finish, TypeOK, RowsInv
  <2> QED
    BY <1>4, <2>1, <2>2, <2>3, <2>4, <2>5, <2>6, <2>7 DEF JobStep
<1>5. ASSUME NEW i \in Invs, AdminCancel(i) PROVE RowsInv'
  BY <1>5 DEF AdminCancel, RequestCancel, ActiveRun, TypeOK, RowsInv
<1>6. CASE Sweep
  BY <1>6 DEF Sweep, RequestCancel, ActiveRun, TypeOK, RowsInv
<1>7. CASE Crash
  BY <1>7 DEF Crash, TypeOK, RowsInv
<1>8. CASE Restart
  BY <1>8 DEF Restart, InFlight, ActiveRun, TypeOK, RowsInv
<1>9. CASE UNCHANGED <<runs, cancels, jobs>>
  BY <1>9 DEF TypeOK, RowsInv
<1> QED
  BY <1>1, <1>2, <1>3, <1>4, <1>5, <1>6, <1>7, <1>8, <1>9, RunFrame

\* The service only goes down with its tasks.
LEMMA NextDown ==
    TypeOK /\ DownInv /\ TypeOK' /\ [Next]_vars => DownInv'
<1> SUFFICES ASSUME TypeOK, DownInv, TypeOK', [Next]_vars PROVE DownInv'
    OBVIOUS
<1> USE DispatchAssumption DEF inbox, runs, cancels, queue, jobs
<1>1. ASSUME NEW r \in Resources, TaskStep(r) PROVE DownInv'
  <2>1. CASE StartTask(r)
    BY <2>1 DEF StartTask, DownInv, AllIdle, TypeOK
  <2>2. CASE EndTask(r)
    BY <2>2 DEF EndTask, DownInv, AllIdle, TypeOK
  <2>3. CASE Plan(r)
    BY <2>3 DEF Plan, Dispatch, BatchInvs, BatchClaimed, DownInv, AllIdle, TypeOK
  <2>4. CASE GateReady(r)
    BY <2>4 DEF GateReady, Dispatch, BatchInvs, DownInv, AllIdle, TypeOK
  <2>5. ASSUME NEW err \in BOOLEAN, GateClosed(r, err) PROVE DownInv'
    BY <2>5 DEF GateClosed, DownInv, AllIdle, TypeOK
  <2>6. CASE Decide(r)
    BY <2>6 DEF Decide, BatchInvs, DownInv, AllIdle, TypeOK
  <2>7. CASE FinishBatch(r)
    BY <2>7 DEF FinishBatch, DownInv, AllIdle, TypeOK
  <2>8. ASSUME NEW e \in Events, Claim(r, e) PROVE DownInv'
    BY <2>8 DEF Claim, Claimable, DownInv, AllIdle, TypeOK
  <2>9. ASSUME NEW e \in Events, SettleUnmatched(r, e) PROVE DownInv'
    BY <2>9 DEF SettleUnmatched, DownInv, AllIdle, TypeOK
  <2>10. ASSUME NEW e \in Events, Settle(r, e) PROVE DownInv'
    BY <2>10 DEF Settle, DownInv, AllIdle, TypeOK
  <2> QED
    BY <1>1, <2>1, <2>2, <2>3, <2>4, <2>5, <2>6, <2>7, <2>8, <2>9, <2>10 DEF TaskStep
<1>2. ASSUME NEW i \in Invs, JobStep(i) PROVE DownInv'
  <2>1. CASE RefuseCall(i)
    BY <2>1 DEF RefuseCall, Return, Flagged, DownInv, AllIdle, TypeOK
  <2>2. CASE Reserve(i)
    BY <2>2 DEF Reserve, Interrupted, RetryDue, DownInv, AllIdle, TypeOK
  <2>3. CASE NotReserved(i)
    BY <2>3 DEF NotReserved, Return, DownInv, AllIdle, TypeOK
  <2>4. CASE RecheckFlag(i)
    BY <2>4 DEF RecheckFlag, RequestCancel, LateToCancel, Flagged, ActiveRun, DownInv,
        AllIdle, TypeOK
  <2>5. CASE Start(i)
    BY <2>5 DEF Start, DownInv, AllIdle, TypeOK
  <2>6. ASSUME NEW res \in {"completed", "failed", "fatal", "cancelled"}, AgentEnds(i, res) PROVE DownInv'
    BY <2>6 DEF AgentEnds, DownInv, AllIdle, TypeOK
  <2>7. CASE Finish(i)
    BY <2>7 DEF Finish, DownInv, AllIdle, TypeOK
  <2> QED
    BY <1>2, <2>1, <2>2, <2>3, <2>4, <2>5, <2>6, <2>7 DEF JobStep
<1>3. CASE NextCycle
  BY <1>3 DEF NextCycle, DownInv, AllIdle, TypeOK
<1>4. CASE Sweep
  BY <1>4 DEF Sweep, RequestCancel, ActiveRun, DownInv, AllIdle, TypeOK
<1>5. CASE Exit
  BY <1>5 DEF Exit, DownInv, AllIdle, TypeOK
<1>6. CASE Restart
  BY <1>6 DEF Restart, InFlight, ActiveRun, DownInv, AllIdle, TypeOK
<1>7. ASSUME NEW e \in Events, Store(e) PROVE DownInv'
  BY <1>7 DEF Store, DownInv, AllIdle, TypeOK
<1>8. ASSUME NEW e \in Events, SettleWaiting(e) PROVE DownInv'
  BY <1>8 DEF SettleWaiting, DownInv, AllIdle, TypeOK
<1>9. ASSUME NEW i \in Invs, AdminCancel(i) PROVE DownInv'
  BY <1>9 DEF AdminCancel, RequestCancel, ActiveRun, DownInv, AllIdle, TypeOK
<1>10. CASE RequestShutdown
  BY <1>10 DEF RequestShutdown, DownInv, AllIdle, TypeOK
<1>11. CASE Crash
  BY <1>11 DEF Crash, DownInv, AllIdle, TypeOK
<1>12. CASE UNCHANGED vars
  BY <1>12 DEF vars, DownInv, AllIdle, TypeOK
<1> QED
  BY <1>1, <1>2, <1>3, <1>4, <1>5, <1>6, <1>7, <1>8, <1>9, <1>10, <1>11, <1>12 DEF Next,
      Environment

\* A task keeps to its own events.
LEMMA NextTask ==
    TypeOK /\ TaskInv /\ DownInv /\ TypeOK' /\ [Next]_vars => TaskInv'
<1> SUFFICES ASSUME TypeOK, TaskInv, DownInv, TypeOK', [Next]_vars PROVE TaskInv'
    OBVIOUS
<1> USE DispatchAssumption DEF inbox, runs, cancels, queue, jobs
<1>1. ASSUME NEW r \in Resources, TaskStep(r) PROVE TaskInv'
  <2>1. CASE StartTask(r)
    BY <2>1 DEF StartTask, Listed, TaskInv, InFlight, TypeOK
  <2>2. CASE EndTask(r)
    BY <2>2 DEF EndTask, TaskInv, InFlight, TypeOK
  <2>3. CASE Plan(r)
    BY <2>3 DEF Plan, Dispatch, BatchInvs, BatchClaimed, TaskInv, InFlight, TypeOK
  <2>4. CASE GateReady(r)
    BY <2>4 DEF GateReady, Dispatch, BatchInvs, TaskInv, InFlight, TypeOK
  <2>5. ASSUME NEW err \in BOOLEAN, GateClosed(r, err) PROVE TaskInv'
    BY <2>5 DEF GateClosed, TaskInv, InFlight, TypeOK
  <2>6. CASE Decide(r)
    BY <2>6 DEF Decide, BatchInvs, TaskInv, InFlight, TypeOK
  <2>7. CASE FinishBatch(r)
    BY <2>7 DEF FinishBatch, TaskInv, InFlight, TypeOK
  <2>8. ASSUME NEW e \in Events, Claim(r, e) PROVE TaskInv'
    BY <2>8 DEF Claim, Claimable, NextToClaim, TaskInv, InFlight, TypeOK
  <2>9. ASSUME NEW e \in Events, SettleUnmatched(r, e) PROVE TaskInv'
    BY <2>9 DEF SettleUnmatched, BatchClaimed, TaskInv, InFlight, TypeOK
  <2>10. ASSUME NEW e \in Events, Settle(r, e) PROVE TaskInv'
    BY <2>10 DEF Settle, TaskInv, InFlight, TypeOK
  <2> QED
    BY <1>1, <2>1, <2>2, <2>3, <2>4, <2>5, <2>6, <2>7, <2>8, <2>9, <2>10 DEF TaskStep
<1>2. ASSUME NEW e \in Events, Store(e) PROVE TaskInv'
  BY <1>2 DEF Store, TaskInv, InFlight, TypeOK
<1>3. ASSUME NEW e \in Events, SettleWaiting(e) PROVE TaskInv'
  BY <1>3 DEF SettleWaiting, TaskInv, InFlight, TypeOK
<1>4. CASE Crash
  BY <1>4 DEF Crash, TaskInv, InFlight, TypeOK
<1>5. CASE Restart
  BY <1>5 DEF Restart, InFlight, ActiveRun, DownInv, AllIdle, TaskInv, TypeOK
<1>6. CASE UNCHANGED <<inbox, queue>>
  BY <1>6 DEF TaskInv, InFlight, TypeOK
<1> QED
  BY <1>1, <1>2, <1>3, <1>4, <1>5, <1>6, EventFrame

\* An event is stored after those of earlier batches.
LEMMA NextCreated ==
    TypeOK /\ TaskInv /\ CreatedInv /\ TypeOK' /\ [Next]_vars => CreatedInv'
<1> SUFFICES ASSUME TypeOK, TaskInv, CreatedInv, TypeOK', [Next]_vars PROVE CreatedInv'
    OBVIOUS
<1> USE DispatchAssumption DEF inbox, runs, cancels, queue, jobs
<1>1. ASSUME NEW r \in Resources, TaskStep(r) PROVE CreatedInv'
  <2>1. CASE StartTask(r)
    BY <2>1 DEF StartTask, CreatedInv, Earlier, TaskInv, InFlight, TypeOK
  <2>2. CASE EndTask(r)
    BY <2>2 DEF EndTask, CreatedInv, Earlier, TaskInv, InFlight, TypeOK
  <2>3. CASE Plan(r)
    <3>1. \A d \in Events : evStatus'[d] = "absent" <=> evStatus[d] = "absent"
      BY <2>3 DEF Plan, Dispatch, BatchInvs, TaskInv, InFlight, TypeOK
    <3> QED
      BY <3>1 DEF CreatedInv
  <2>4. CASE GateReady(r)
    <3>1. \A d \in Events : evStatus'[d] = "absent" <=> evStatus[d] = "absent"
      BY <2>4 DEF GateReady, Dispatch, BatchInvs, TaskInv, InFlight, TypeOK
    <3> QED
      BY <3>1 DEF CreatedInv
  <2>5. ASSUME NEW err \in BOOLEAN, GateClosed(r, err) PROVE CreatedInv'
    BY <2>5 DEF GateClosed, CreatedInv, Earlier, TaskInv, InFlight, TypeOK
  <2>6. CASE Decide(r)
    BY <2>6 DEF Decide, BatchInvs, CreatedInv, Earlier, TaskInv, InFlight, TypeOK
  <2>7. CASE FinishBatch(r)
    BY <2>7 DEF FinishBatch, CreatedInv, Earlier, TaskInv, InFlight, TypeOK
  <2>8. ASSUME NEW e \in Events, Claim(r, e) PROVE CreatedInv'
    BY <2>8, ClaimEffect DEF CreatedInv, Earlier, TaskInv, NextToClaim
  <2>9. ASSUME NEW e \in Events, SettleUnmatched(r, e) PROVE CreatedInv'
    <3>2. InFlight(e)
      BY <2>9 DEF SettleUnmatched, TaskInv
    <3>3. evStatus' = [evStatus EXCEPT ![e] = "unmatched"]
      BY <2>9 DEF SettleUnmatched
    <3>4. evStatus[e] # "absent"
      BY <3>2 DEF InFlight
    <3>1. \A d \in Events : evStatus'[d] = "absent" <=> evStatus[d] = "absent"
      BY <3>3, <3>4 DEF TypeOK
    <3> QED
      BY <3>1 DEF CreatedInv
  <2>10. ASSUME NEW e \in Events, Settle(r, e) PROVE CreatedInv'
    <3>1. evStatus'[e] # "absent"
      BY <2>10, SettleEffect DEF TypeOK, Verdicts
    <3>2. evStatus[e] # "absent"
      BY <2>10, SettleEffect DEF TaskInv, InFlight
    <3>3. \A d \in Events \ {e} : evStatus'[d] = evStatus[d]
      BY <2>10, SettleEffect
    <3> QED
      BY <3>1, <3>2, <3>3 DEF CreatedInv
  <2> QED
    BY <1>1, <2>1, <2>2, <2>3, <2>4, <2>5, <2>6, <2>7, <2>8, <2>9, <2>10 DEF TaskStep
<1>2. ASSUME NEW e \in Events, Store(e) PROVE CreatedInv'
  BY <1>2 DEF Store, CreatedInv, Earlier, TaskInv, InFlight, TypeOK
<1>3. ASSUME NEW e \in Events, SettleWaiting(e) PROVE CreatedInv'
  BY <1>3 DEF SettleWaiting, CreatedInv, Earlier, TaskInv, InFlight, TypeOK
<1>4. CASE Crash
  BY <1>4 DEF Crash, CreatedInv, Earlier, TaskInv, InFlight, TypeOK
<1>5. CASE Restart
  BY <1>5 DEF Restart, InFlight, ActiveRun, CreatedInv, Earlier, TaskInv, TypeOK
<1>6. CASE UNCHANGED <<inbox, queue>>
  BY <1>6 DEF CreatedInv, Earlier, TaskInv, InFlight, TypeOK
<1> QED
  BY <1>1, <1>2, <1>3, <1>4, <1>5, <1>6, EventFrame

\* What is in flight has its task.
LEMMA NextHeld ==
    TypeOK /\ TaskInv /\ HeldInv /\ TypeOK' /\ [Next]_vars => HeldInv'
<1> SUFFICES ASSUME TypeOK, TaskInv, HeldInv, TypeOK', [Next]_vars PROVE HeldInv'
    OBVIOUS
<1> USE DispatchAssumption DEF inbox, runs, cancels, queue, jobs
<1>1. ASSUME NEW r \in Resources, TaskStep(r) PROVE HeldInv'
  <2>1. CASE StartTask(r)
    BY <2>1 DEF StartTask, HeldInv, TaskInv, InFlight, TypeOK
  <2>2. CASE EndTask(r)
    BY <2>2 DEF EndTask, HeldInv, TaskInv, InFlight, TypeOK
  <2>3. CASE Plan(r)
    BY <2>3 DEF Plan, Dispatch, BatchInvs, HeldInv, TaskInv, InFlight, TypeOK
  <2>4. CASE GateReady(r)
    BY <2>4 DEF GateReady, Dispatch, BatchInvs, HeldInv, TaskInv, InFlight, TypeOK
  <2>5. ASSUME NEW err \in BOOLEAN, GateClosed(r, err) PROVE HeldInv'
    BY <2>5 DEF GateClosed, HeldInv, TaskInv, InFlight, TypeOK
  <2>6. CASE Decide(r)
    BY <2>6 DEF Decide, BatchInvs, HeldInv, TaskInv, InFlight, TypeOK
  <2>7. CASE FinishBatch(r)
    BY <2>7 DEF FinishBatch, HeldInv, TaskInv, InFlight, TypeOK
  <2>8. ASSUME NEW e \in Events, Claim(r, e) PROVE HeldInv'
    BY <2>8 DEF Claim, Claimable, NextToClaim, HeldInv, TaskInv, InFlight, TypeOK
  <2>9. ASSUME NEW e \in Events, SettleUnmatched(r, e) PROVE HeldInv'
    BY <2>9 DEF SettleUnmatched, HeldInv, TaskInv, InFlight, TypeOK
  <2>10. ASSUME NEW e \in Events, Settle(r, e) PROVE HeldInv'
    BY <2>10 DEF Settle, HeldInv, TaskInv, InFlight, TypeOK
  <2> QED
    BY <1>1, <2>1, <2>2, <2>3, <2>4, <2>5, <2>6, <2>7, <2>8, <2>9, <2>10 DEF TaskStep
<1>2. ASSUME NEW i \in Invs, JobStep(i) PROVE HeldInv'
  <2>1. CASE RefuseCall(i)
    BY <2>1 DEF RefuseCall, Return, Flagged, HeldInv, TaskInv, InFlight, TypeOK
  <2>2. CASE Reserve(i)
    BY <2>2 DEF Reserve, Interrupted, RetryDue, HeldInv, TaskInv, InFlight, TypeOK
  <2>3. CASE NotReserved(i)
    BY <2>3 DEF NotReserved, Return, HeldInv, TaskInv, InFlight, TypeOK
  <2>4. CASE RecheckFlag(i)
    BY <2>4 DEF RecheckFlag, RequestCancel, LateToCancel, Flagged, ActiveRun, HeldInv,
        TaskInv, InFlight, TypeOK
  <2>5. CASE Start(i)
    BY <2>5 DEF Start, HeldInv, TaskInv, InFlight, TypeOK
  <2>6. ASSUME NEW res \in {"completed", "failed", "fatal", "cancelled"}, AgentEnds(i, res) PROVE HeldInv'
    BY <2>6 DEF AgentEnds, HeldInv, TaskInv, InFlight, TypeOK
  <2>7. CASE Finish(i)
    BY <2>7 DEF Finish, HeldInv, TaskInv, InFlight, TypeOK
  <2> QED
    BY <1>2, <2>1, <2>2, <2>3, <2>4, <2>5, <2>6, <2>7 DEF JobStep
<1>3. CASE NextCycle
  BY <1>3 DEF NextCycle, HeldInv, TaskInv, InFlight, TypeOK
<1>4. CASE Sweep
  BY <1>4 DEF Sweep, RequestCancel, ActiveRun, HeldInv, TaskInv, InFlight, TypeOK
<1>5. CASE Exit
  BY <1>5 DEF Exit, HeldInv, TaskInv, InFlight, TypeOK
<1>6. CASE Restart
  BY <1>6 DEF Restart, InFlight, ActiveRun, HeldInv, TaskInv, TypeOK
<1>7. ASSUME NEW e \in Events, Store(e) PROVE HeldInv'
  BY <1>7 DEF Store, HeldInv, TaskInv, InFlight, TypeOK
<1>8. ASSUME NEW e \in Events, SettleWaiting(e) PROVE HeldInv'
  BY <1>8 DEF SettleWaiting, HeldInv, TaskInv, InFlight, TypeOK
<1>9. ASSUME NEW i \in Invs, AdminCancel(i) PROVE HeldInv'
  BY <1>9 DEF AdminCancel, RequestCancel, ActiveRun, HeldInv, TaskInv, InFlight, TypeOK
<1>10. CASE RequestShutdown
  BY <1>10 DEF RequestShutdown, HeldInv, TaskInv, InFlight, TypeOK
<1>11. CASE Crash
  BY <1>11 DEF Crash, HeldInv, TaskInv, InFlight, TypeOK
<1>12. CASE UNCHANGED vars
  BY <1>12 DEF vars, HeldInv, TaskInv, InFlight, TypeOK
<1> QED
  BY <1>1, <1>2, <1>3, <1>4, <1>5, <1>6, <1>7, <1>8, <1>9, <1>10, <1>11, <1>12 DEF Next,
      Environment

\* Each attempt is charged once.
LEMMA NextCharge ==
    TypeOK /\ TaskInv /\ VerdictInv /\ ChargeInv /\ TypeOK' /\ [Next]_vars => ChargeInv'
<1> SUFFICES ASSUME TypeOK, TaskInv, VerdictInv, ChargeInv, TypeOK', [Next]_vars PROVE ChargeInv'
    OBVIOUS
<1> USE DispatchAssumption DEF inbox, runs, cancels, queue, jobs
<1>1. ASSUME NEW r \in Resources, TaskStep(r) PROVE ChargeInv'
  <2>1. CASE StartTask(r)
    BY <2>1 DEF StartTask, ChargeInv, TaskInv, InFlight, TypeOK
  <2>2. CASE EndTask(r)
    BY <2>2 DEF EndTask, ChargeInv, TaskInv, InFlight, TypeOK
  <2>3. CASE Plan(r)
    BY <2>3 DEF Plan, Dispatch, BatchInvs, BatchClaimed, ChargeInv, TaskInv, InFlight,
        TypeOK
  <2>4. CASE GateReady(r)
    BY <2>4 DEF GateReady, Dispatch, BatchInvs, ChargeInv, TaskInv, InFlight, TypeOK
  <2>5. ASSUME NEW err \in BOOLEAN, GateClosed(r, err) PROVE ChargeInv'
    BY <2>5 DEF GateClosed, ChargeInv, TaskInv, InFlight, TypeOK
  <2>6. CASE Decide(r)
    BY <2>6 DEF Decide, BatchInvs, ChargeInv, TaskInv, InFlight, TypeOK
  <2>7. CASE FinishBatch(r)
    BY <2>7 DEF FinishBatch, ChargeInv, TaskInv, InFlight, TypeOK
  <2>8. ASSUME NEW e \in Events, Claim(r, e) PROVE ChargeInv'
    <3>1. Claimable(e) => evStatus[e] \in {"pending", "failed"}
      BY DEF Claimable
    <3>2. /\ \A d \in Events \ {e} : evStatus'[d] = evStatus[d] /\ evAttempts'[d] = evAttempts[d]
          /\ UNCHANGED genuine
          /\ \/ /\ Claimable(e) /\ evStatus'[e] = "processing"
                /\ evAttempts'[e] = evAttempts[e] + 1
             \/ evStatus'[e] = evStatus[e] /\ evAttempts'[e] = evAttempts[e]
      BY <2>8, ClaimEffect
    <3>3. evAttempts[e] \in Nat /\ genuine[e] \in Nat
      BY DEF TypeOK
    <3> QED
      BY <3>1, <3>2, <3>3 DEF ChargeInv, InFlight
  <2>9. ASSUME NEW e \in Events, SettleUnmatched(r, e) PROVE ChargeInv'
    BY <2>9 DEF SettleUnmatched, ChargeInv, TaskInv, InFlight, TypeOK
  <2>10. ASSUME NEW e \in Events, Settle(r, e) PROVE ChargeInv'
    BY <2>10 DEF Settle, Refund, VerdictInv, Verdicts, ChargeInv, TaskInv, InFlight, TypeOK
  <2> QED
    BY <1>1, <2>1, <2>2, <2>3, <2>4, <2>5, <2>6, <2>7, <2>8, <2>9, <2>10 DEF TaskStep
<1>2. ASSUME NEW e \in Events, Store(e) PROVE ChargeInv'
  BY <1>2 DEF Store, ChargeInv, TaskInv, InFlight, TypeOK
<1>3. ASSUME NEW e \in Events, SettleWaiting(e) PROVE ChargeInv'
  BY <1>3 DEF SettleWaiting, ChargeInv, TaskInv, InFlight, TypeOK
<1>4. CASE Crash
  BY <1>4 DEF Crash, ChargeInv, TaskInv, InFlight, TypeOK
<1>5. CASE Restart
  BY <1>5 DEF Restart, InFlight, ActiveRun, ChargeInv, TaskInv, TypeOK
<1>6. CASE UNCHANGED <<inbox, queue>>
  BY <1>6 DEF ChargeInv, TaskInv, InFlight, TypeOK
<1> QED
  BY <1>1, <1>2, <1>3, <1>4, <1>5, <1>6, EventFrame

\* execute() is alone with its row.
LEMMA NextJob ==
    TypeOK /\ RowsInv /\ DownInv /\ TaskInv /\ CalledInv /\ JobInv /\ TypeOK' /\ [Next]_vars => JobInv'
<1> SUFFICES ASSUME TypeOK, RowsInv, DownInv, TaskInv, CalledInv, JobInv, TypeOK', [Next]_vars PROVE JobInv'
    OBVIOUS
<1> USE DispatchAssumption DEF inbox, runs, cancels, queue, jobs
<1>1. ASSUME NEW r \in Resources, TaskStep(r) PROVE JobInv'
  <2>1. CASE StartTask(r)
    BY <2>1 DEF StartTask, JobInv, ResOf, Running, ActiveRun, TypeOK
  <2>2. CASE EndTask(r)
    BY <2>2 DEF EndTask, JobInv, ResOf, Running, ActiveRun, TypeOK
  <2>3. CASE Plan(r)
    BY <2>3 DEF Plan, Dispatch, BatchInvs, TaskInv, BatchClaimed, JobInv, ResOf, Running,
        ActiveRun, TypeOK
  <2>4. CASE GateReady(r)
    BY <2>4 DEF GateReady, Dispatch, BatchInvs, TaskInv, CalledInv, JobInv, ResOf, Running,
        ActiveRun, TypeOK
  <2>5. ASSUME NEW err \in BOOLEAN, GateClosed(r, err) PROVE JobInv'
    BY <2>5 DEF GateClosed, JobInv, ResOf, Running, ActiveRun, TypeOK
  <2>6. CASE Decide(r)
    BY <2>6 DEF Decide, BatchInvs, Jobs, JobInv, ResOf, Running, ActiveRun, TypeOK
  <2>7. CASE FinishBatch(r)
    BY <2>7 DEF FinishBatch, JobInv, ResOf, Running, ActiveRun, TypeOK
  <2>8. ASSUME NEW e \in Events, Claim(r, e) PROVE JobInv'
    BY <2>8 DEF Claim, Claimable, NextToClaim, TaskInv, JobInv, ResOf, Running, ActiveRun,
        TypeOK
  <2>9. ASSUME NEW e \in Events, SettleUnmatched(r, e) PROVE JobInv'
    BY <2>9 DEF SettleUnmatched, BatchClaimed, JobInv, ResOf, Running, ActiveRun, TypeOK
  <2>10. ASSUME NEW e \in Events, Settle(r, e) PROVE JobInv'
    BY <2>10 DEF Settle, JobInv, ResOf, Running, ActiveRun, TypeOK
  <2> QED
    BY <1>1, <2>1, <2>2, <2>3, <2>4, <2>5, <2>6, <2>7, <2>8, <2>9, <2>10 DEF TaskStep
<1>2. ASSUME NEW i \in Invs, JobStep(i) PROVE JobInv'
  <2>1. CASE RefuseCall(i)
    BY <2>1 DEF RefuseCall, Return, Flagged, Jobs, JobInv, ResOf, Running, ActiveRun, TypeOK
  <2>2. CASE Reserve(i)
    BY <2>2 DEF Reserve, Interrupted, RetryDue, Jobs, JobInv, ResOf, Running, ActiveRun,
        TypeOK
  <2>3. CASE NotReserved(i)
    BY <2>3 DEF NotReserved, Return, JobInv, ResOf, Running, ActiveRun, TypeOK
  <2>4. CASE RecheckFlag(i)
    BY <2>4 DEF RecheckFlag, RequestCancel, LateToCancel, Flagged, ActiveRun, JobInv,
        ResOf, Running, TypeOK
  <2>5. CASE Start(i)
    BY <2>5 DEF Start, JobInv, ResOf, Running, ActiveRun, TypeOK
  <2>6. ASSUME NEW res \in {"completed", "failed", "fatal", "cancelled"}, AgentEnds(i, res) PROVE JobInv'
    BY <2>6 DEF AgentEnds, JobInv, ResOf, Running, ActiveRun, TypeOK
  <2>7. CASE Finish(i)
    <3>1. result[i] \in {"completed", "failed", "fatal", "cancelled"} /\ runStatus[i] # "completed"
      BY <2>7 DEF Finish, RowsInv, JobInv, Running
    <3>2. runStatus'[i] \in {"completed", "failed", "cancelled"} /\ job'[i] = "done"
      BY <2>7, <3>1 DEF Finish, TypeOK
    <3>3. \A j \in Invs \ {i} : runStatus'[j] = runStatus[j] /\ job'[j] = job[j]
      BY <2>7 DEF Finish, TypeOK
    <3> QED
      BY <2>7, <3>1, <3>2, <3>3 DEF Finish, JobInv, Running, ResOf, ActiveRun
  <2> QED
    BY <1>2, <2>1, <2>2, <2>3, <2>4, <2>5, <2>6, <2>7 DEF JobStep
<1>3. CASE NextCycle
  BY <1>3 DEF NextCycle, JobInv, ResOf, Running, ActiveRun, TypeOK
<1>4. CASE Sweep
  BY <1>4 DEF Sweep, RequestCancel, ActiveRun, RowsInv, JobInv, ResOf, Running, TypeOK
<1>5. CASE Exit
  BY <1>5 DEF Exit, JobInv, ResOf, Running, ActiveRun, TypeOK
<1>6. CASE Restart
  BY <1>6 DEF Restart, InFlight, ActiveRun, DownInv, AllIdle, JobInv, ResOf, Running, TypeOK
<1>7. ASSUME NEW e \in Events, Store(e) PROVE JobInv'
  BY <1>7 DEF Store, JobInv, ResOf, Running, ActiveRun, TypeOK
<1>8. ASSUME NEW e \in Events, SettleWaiting(e) PROVE JobInv'
  BY <1>8 DEF SettleWaiting, JobInv, ResOf, Running, ActiveRun, TypeOK
<1>9. ASSUME NEW i \in Invs, AdminCancel(i) PROVE JobInv'
  BY <1>9 DEF AdminCancel, RequestCancel, ActiveRun, JobInv, ResOf, Running, TypeOK
<1>10. CASE RequestShutdown
  BY <1>10 DEF RequestShutdown, JobInv, ResOf, Running, ActiveRun, TypeOK
<1>11. CASE Crash
  BY <1>11 DEF Crash, JobInv, ResOf, Running, ActiveRun, TypeOK
<1>12. CASE UNCHANGED vars
  BY <1>12 DEF vars, JobInv, ResOf, Running, ActiveRun, TypeOK
<1> QED
  BY <1>1, <1>2, <1>3, <1>4, <1>5, <1>6, <1>7, <1>8, <1>9, <1>10, <1>11, <1>12 DEF Next,
      Environment

\* What execute() reports is what the row says.
LEMMA NextCalled ==
    TypeOK /\ RowsInv /\ DownInv /\ TaskInv /\ JobInv /\ CalledInv /\ TypeOK' /\ [Next]_vars => CalledInv'
<1> SUFFICES ASSUME TypeOK, RowsInv, DownInv, TaskInv, JobInv, CalledInv, TypeOK', [Next]_vars PROVE CalledInv'
    OBVIOUS
<1> USE DispatchAssumption DEF inbox, runs, cancels, queue, jobs
<1>1. ASSUME NEW r \in Resources, TaskStep(r) PROVE CalledInv'
  <2>1. CASE StartTask(r)
    BY <2>1 DEF StartTask, JobInv, CalledInv, ResOf, Running, ActiveRun, TypeOK
  <2>2. CASE EndTask(r)
    BY <2>2 DEF EndTask, JobInv, CalledInv, ResOf, Running, ActiveRun, TypeOK
  <2>3. CASE Plan(r)
    BY <2>3 DEF Plan, Dispatch, BatchInvs, TaskInv, BatchClaimed, JobInv, Jobs, CalledInv,
        ResOf, Running, ActiveRun, TypeOK
  <2>4. CASE GateReady(r)
    BY <2>4 DEF GateReady, Dispatch, BatchInvs, TaskInv, CalledInv, ResOf, Running,
        ActiveRun, TypeOK
  <2>5. ASSUME NEW err \in BOOLEAN, GateClosed(r, err) PROVE CalledInv'
    BY <2>5 DEF GateClosed, CalledInv, ResOf, Running, ActiveRun, TypeOK
  <2>6. CASE Decide(r)
    BY <2>6 DEF Decide, BatchInvs, CalledInv, ResOf, Running, ActiveRun, TypeOK
  <2>7. CASE FinishBatch(r)
    BY <2>7 DEF FinishBatch, CalledInv, ResOf, Running, ActiveRun, TypeOK
  <2>8. ASSUME NEW e \in Events, Claim(r, e) PROVE CalledInv'
    <3>1. UNCHANGED <<runStatus, job, result, phase, verdict>>
      BY <2>8, ClaimEffect
    <3>2. \A q \in Resources : phase[q] # "claim" => claimed'[q] = claimed[q]
      BY <2>8, ClaimEffect
    <3>3. \A d \in Events : ResourceOf[d] \in Resources
      OBVIOUS
    <3> QED
      BY <3>1, <3>2, <3>3 DEF CalledInv, ResOf
  <2>9. ASSUME NEW e \in Events, SettleUnmatched(r, e) PROVE CalledInv'
    BY <2>9 DEF SettleUnmatched, BatchClaimed, CalledInv, ResOf, Running, ActiveRun, TypeOK
  <2>10. ASSUME NEW e \in Events, Settle(r, e) PROVE CalledInv'
    BY <2>10 DEF Settle, CalledInv, ResOf, Running, ActiveRun, TypeOK
  <2> QED
    BY <1>1, <2>1, <2>2, <2>3, <2>4, <2>5, <2>6, <2>7, <2>8, <2>9, <2>10 DEF TaskStep
<1>2. ASSUME NEW i \in Invs, JobStep(i) PROVE CalledInv'
  <2>1. CASE RefuseCall(i)
    BY <2>1 DEF RefuseCall, Return, Flagged, CalledInv, ResOf, Running, ActiveRun, TypeOK
  <2>2. CASE Reserve(i)
    BY <2>2 DEF Reserve, Interrupted, RetryDue, JobInv, CalledInv, ResOf, Running,
        ActiveRun, TypeOK
  <2>3. CASE NotReserved(i)
    <3> DEFINE res == IF runStatus[i] = "failed" /\ ~runRetry[i] THEN "fatal"
                      ELSE IF runStatus[i] \in {"completed", "queued", "running"}
                           THEN "skipped" ELSE "refused"
    <3>1. /\ job[i] = "called"
          /\ job' = [job EXCEPT ![i] = "done"]
          /\ result' = [result EXCEPT ![i] = res]
          /\ UNCHANGED <<inbox, runs, cancels, queue, mode, halted, used>>
      BY <2>3 DEF NotReserved, Return
    <3>2. phase[ResOf(i)] # "idle" /\ job[i] \notin Running
      BY <3>1 DEF JobInv, Running
    <3>3. ~ActiveRun(i)
      BY <3>2 DEF JobInv, DownInv, AllIdle, ResOf
    <3>4. res # "none" /\ (res \in {"completed", "skipped"} => runStatus[i] = "completed")
      BY <3>3 DEF ActiveRun
    <3>5. /\ job'[i] = "done" /\ result'[i] = res
          /\ \A j \in Invs \ {i} : job'[j] = job[j] /\ result'[j] = result[j]
      BY <3>1 DEF TypeOK
    <3> HIDE DEF res
    <3> QED
      BY <3>1, <3>4, <3>5 DEF CalledInv, ResOf
  <2>4. CASE RecheckFlag(i)
    BY <2>4 DEF RecheckFlag, RequestCancel, LateToCancel, Flagged, ActiveRun, CalledInv,
        ResOf, Running, TypeOK
  <2>5. CASE Start(i)
    BY <2>5 DEF Start, CalledInv, ResOf, Running, ActiveRun, TypeOK
  <2>6. ASSUME NEW res \in {"completed", "failed", "fatal", "cancelled"}, AgentEnds(i, res) PROVE CalledInv'
    BY <2>6 DEF AgentEnds, CalledInv, ResOf, Running, ActiveRun, TypeOK
  <2>7. CASE Finish(i)
    BY <2>7 DEF Finish, RowsInv, CalledInv, ResOf, Running, ActiveRun, TypeOK
  <2> QED
    BY <1>2, <2>1, <2>2, <2>3, <2>4, <2>5, <2>6, <2>7 DEF JobStep
<1>3. CASE NextCycle
  BY <1>3 DEF NextCycle, CalledInv, ResOf, Running, ActiveRun, TypeOK
<1>4. CASE Sweep
  BY <1>4 DEF Sweep, RequestCancel, ActiveRun, CalledInv, ResOf, Running, TypeOK
<1>5. CASE Exit
  BY <1>5 DEF Exit, CalledInv, ResOf, Running, ActiveRun, TypeOK
<1>6. CASE Restart
  BY <1>6 DEF Restart, InFlight, ActiveRun, DownInv, AllIdle, JobInv, CalledInv, ResOf,
      Running, TypeOK
<1>7. ASSUME NEW e \in Events, Store(e) PROVE CalledInv'
  BY <1>7 DEF Store, CalledInv, ResOf, Running, ActiveRun, TypeOK
<1>8. ASSUME NEW e \in Events, SettleWaiting(e) PROVE CalledInv'
  BY <1>8 DEF SettleWaiting, CalledInv, ResOf, Running, ActiveRun, TypeOK
<1>9. ASSUME NEW i \in Invs, AdminCancel(i) PROVE CalledInv'
  BY <1>9 DEF AdminCancel, RequestCancel, ActiveRun, CalledInv, ResOf, Running, TypeOK
<1>10. CASE RequestShutdown
  BY <1>10 DEF RequestShutdown, CalledInv, ResOf, Running, ActiveRun, TypeOK
<1>11. CASE Crash
  BY <1>11 DEF Crash, CalledInv, ResOf, Running, ActiveRun, TypeOK
<1>12. CASE UNCHANGED vars
  BY <1>12 DEF vars, CalledInv, ResOf, Running, ActiveRun, TypeOK
<1> QED
  BY <1>1, <1>2, <1>3, <1>4, <1>5, <1>6, <1>7, <1>8, <1>9, <1>10, <1>11, <1>12 DEF Next,
      Environment

\* A verdict of completion is justified and stays so.
LEMMA NextVerdict ==
    TypeOK /\ RowsInv /\ DownInv /\ TaskInv /\ JobInv /\ CalledInv /\ VerdictInv /\ TypeOK' /\ [Next]_vars => VerdictInv'
<1> SUFFICES ASSUME TypeOK, RowsInv, DownInv, TaskInv, JobInv, CalledInv, VerdictInv, TypeOK', [Next]_vars PROVE VerdictInv'
    OBVIOUS
<1> USE DispatchAssumption DEF inbox, runs, cancels, queue, jobs
<1>1. ASSUME NEW r \in Resources, TaskStep(r) PROVE VerdictInv'
  <2>1. CASE StartTask(r)
    BY <2>1 DEF StartTask, VerdictInv, InvsOf, TypeOK
  <2>2. CASE EndTask(r)
    BY <2>2 DEF EndTask, VerdictInv, InvsOf, TypeOK
  <2>3. CASE Plan(r)
    BY <2>3 DEF Plan, Dispatch, BatchInvs, BatchClaimed, VerdictInv, InvsOf, TypeOK
  <2>4. CASE GateReady(r)
    BY <2>4 DEF GateReady, Dispatch, BatchInvs, VerdictInv, InvsOf, TypeOK
  <2>5. ASSUME NEW err \in BOOLEAN, GateClosed(r, err) PROVE VerdictInv'
    BY <2>5 DEF GateClosed, VerdictInv, InvsOf, TypeOK
  <2>6. CASE Decide(r)
    <3>1. /\ phase[r] = "wait"
          /\ \A i \in BatchInvs(r) : job[i] \in {"none", "done"}
          /\ verdict' = [e \in Events |-> IF e \in claimed[r] THEN Judge(r, e) ELSE verdict[e]]
          /\ phase' = [phase EXCEPT ![r] = "settle"]
          /\ UNCHANGED <<runs, claimed>>
      BY <2>6 DEF Decide
    <3>2. ASSUME NEW e \in claimed[r] PROVE Judge(r, e) # "none"
      BY DEF Judge
    <3>3. ASSUME NEW e \in claimed[r], Judge(r, e) = "complete", NEW i \in InvsOf(e) \ Gated
          PROVE  runStatus[i] = "completed"
      <4>1. i \in Invs /\ EventOf[i] = e /\ ResOf(i) = r /\ i \in BatchInvs(r)
        BY DEF InvsOf, TaskInv, ResOf, BatchInvs
      <4>2. job[i] = "done" /\ i \in Called(e)
        BY <3>1, <4>1 DEF CalledInv, Called, InvsOf
      <4>3. SourceOf(i) \in {"none", "administrator", "service_shutdown"}
        BY <4>1 DEF SourceOf, TypeOK, Sources
      <4>4. SourceOf(i) = "none" /\ ~Failed(i)
        BY <3>3, <4>2, <4>3 DEF Judge
      <4>5. result[i] \in {"completed", "skipped"}
        BY <4>1, <4>2, <4>4 DEF Failed, CalledInv, TypeOK, Results
      <4> QED
        BY <4>1, <4>2, <4>5 DEF CalledInv
    <3>4. \A e \in claimed[r] : e \in Events /\ ResourceOf[e] = r
      BY DEF TaskInv, TypeOK
    <3>5. phase'[r] = "settle" /\ \A q \in Resources \ {r} : phase'[q] = phase[q]
      BY <3>1 DEF TypeOK
    <3>6. /\ \A e \in claimed[r] : verdict'[e] = Judge(r, e)
          /\ \A e \in Events \ claimed[r] : verdict'[e] = verdict[e]
      BY <3>1, <3>4
    <3> QED
      BY <3>1, <3>2, <3>3, <3>4, <3>5, <3>6 DEF VerdictInv, InvsOf
  <2>7. CASE FinishBatch(r)
    BY <2>7 DEF FinishBatch, VerdictInv, InvsOf, TypeOK
  <2>8. ASSUME NEW e \in Events, Claim(r, e) PROVE VerdictInv'
    <3>1. UNCHANGED <<runStatus, job, result, phase, verdict>>
      BY <2>8, ClaimEffect
    <3>2. \A q \in Resources : phase[q] # "claim" => claimed'[q] = claimed[q]
      BY <2>8, ClaimEffect
    <3>3. \A d \in Events : ResourceOf[d] \in Resources
      OBVIOUS
    <3> QED
      BY <3>1, <3>2, <3>3 DEF VerdictInv, InvsOf
  <2>9. ASSUME NEW e \in Events, SettleUnmatched(r, e) PROVE VerdictInv'
    BY <2>9 DEF SettleUnmatched, VerdictInv, InvsOf, TypeOK
  <2>10. ASSUME NEW e \in Events, Settle(r, e) PROVE VerdictInv'
    BY <2>10 DEF Settle, VerdictInv, InvsOf, TypeOK
  <2> QED
    BY <1>1, <2>1, <2>2, <2>3, <2>4, <2>5, <2>6, <2>7, <2>8, <2>9, <2>10 DEF TaskStep
<1>2. ASSUME NEW i \in Invs, JobStep(i) PROVE VerdictInv'
  <2>1. CASE RefuseCall(i)
    BY <2>1 DEF RefuseCall, Return, Flagged, VerdictInv, InvsOf, TypeOK
  <2>2. CASE Reserve(i)
    BY <2>2 DEF Reserve, Interrupted, RetryDue, JobInv, ResOf, VerdictInv, InvsOf, TypeOK
  <2>3. CASE NotReserved(i)
    BY <2>3 DEF NotReserved, Return, VerdictInv, InvsOf, TypeOK
  <2>4. CASE RecheckFlag(i)
    BY <2>4 DEF RecheckFlag, RequestCancel, LateToCancel, Flagged, ActiveRun, VerdictInv,
        InvsOf, TypeOK
  <2>5. CASE Start(i)
    BY <2>5 DEF Start, JobInv, VerdictInv, InvsOf, TypeOK
  <2>6. ASSUME NEW res \in {"completed", "failed", "fatal", "cancelled"}, AgentEnds(i, res) PROVE VerdictInv'
    BY <2>6 DEF AgentEnds, VerdictInv, InvsOf, TypeOK
  <2>7. CASE Finish(i)
    <3>1. result[i] \in {"completed", "failed", "fatal", "cancelled"} /\ runStatus[i] # "completed"
      BY <2>7 DEF Finish, RowsInv, JobInv, Running
    <3>2. runStatus'[i] \in {"completed", "failed", "cancelled"} /\ job'[i] = "done"
      BY <2>7, <3>1 DEF Finish, TypeOK
    <3>3. \A j \in Invs \ {i} : runStatus'[j] = runStatus[j] /\ job'[j] = job[j]
      BY <2>7 DEF Finish, TypeOK
    <3> QED
      BY <2>7, <3>1, <3>2, <3>3 DEF Finish, VerdictInv, InvsOf
  <2> QED
    BY <1>2, <2>1, <2>2, <2>3, <2>4, <2>5, <2>6, <2>7 DEF JobStep
<1>3. CASE NextCycle
  BY <1>3 DEF NextCycle, VerdictInv, InvsOf, TypeOK
<1>4. CASE Sweep
  BY <1>4 DEF Sweep, RequestCancel, ActiveRun, VerdictInv, InvsOf, TypeOK
<1>5. CASE Exit
  BY <1>5 DEF Exit, VerdictInv, InvsOf, TypeOK
<1>6. CASE Restart
  BY <1>6 DEF Restart, InFlight, ActiveRun, DownInv, AllIdle, VerdictInv, InvsOf, TypeOK
<1>7. ASSUME NEW e \in Events, Store(e) PROVE VerdictInv'
  BY <1>7 DEF Store, VerdictInv, InvsOf, TypeOK
<1>8. ASSUME NEW e \in Events, SettleWaiting(e) PROVE VerdictInv'
  BY <1>8 DEF SettleWaiting, VerdictInv, InvsOf, TypeOK
<1>9. ASSUME NEW i \in Invs, AdminCancel(i) PROVE VerdictInv'
  BY <1>9 DEF AdminCancel, RequestCancel, ActiveRun, VerdictInv, InvsOf, TypeOK
<1>10. CASE RequestShutdown
  BY <1>10 DEF RequestShutdown, VerdictInv, InvsOf, TypeOK
<1>11. CASE Crash
  BY <1>11 DEF Crash, VerdictInv, InvsOf, TypeOK
<1>12. CASE UNCHANGED vars
  BY <1>12 DEF vars, VerdictInv, InvsOf, TypeOK
<1> QED
  BY <1>1, <1>2, <1>3, <1>4, <1>5, <1>6, <1>7, <1>8, <1>9, <1>10, <1>11, <1>12 DEF Next,
      Environment

\* A task holds one batch at a time.
LEMMA NextBatch ==
    TypeOK /\ TaskInv /\ VerdictInv /\ BatchInv /\ TypeOK' /\ [Next]_vars => BatchInv'
<1> SUFFICES ASSUME TypeOK, TaskInv, VerdictInv, BatchInv, TypeOK', [Next]_vars PROVE BatchInv'
    OBVIOUS
<1> USE DispatchAssumption DEF inbox, runs, cancels, queue, jobs
<1>1. ASSUME NEW r \in Resources, TaskStep(r) PROVE BatchInv'
  <2>1. CASE StartTask(r)
    BY <2>1 DEF StartTask, Listed, BatchInv, TaskInv, VerdictInv, TypeOK
  <2>2. CASE EndTask(r)
    BY <2>2 DEF EndTask, BatchInv, TaskInv, VerdictInv, TypeOK
  <2>3. CASE Plan(r)
    BY <2>3 DEF Plan, Dispatch, BatchInvs, BatchClaimed, BatchInv, TaskInv, VerdictInv,
        TypeOK
  <2>4. CASE GateReady(r)
    BY <2>4 DEF GateReady, Dispatch, BatchInvs, BatchInv, TaskInv, VerdictInv, TypeOK
  <2>5. ASSUME NEW err \in BOOLEAN, GateClosed(r, err) PROVE BatchInv'
    BY <2>5 DEF GateClosed, BatchInv, TaskInv, VerdictInv, TypeOK
  <2>6. CASE Decide(r)
    BY <2>6 DEF Decide, BatchInvs, BatchInv, TaskInv, VerdictInv, TypeOK
  <2>7. CASE FinishBatch(r)
    BY <2>7 DEF FinishBatch, BatchInv, TaskInv, VerdictInv, TypeOK
  <2>8. ASSUME NEW e \in Events, Claim(r, e) PROVE BatchInv'
    <3>1. verdict' = verdict /\ e \in todo[r] /\ ResourceOf[e] = r
      BY <2>8, ClaimEffect DEF NextToClaim, TaskInv
    <3>2. /\ \A f \in todo[r] : Batch[e] <= Batch[f]
          /\ \A f \in claimed[r] : Batch[e] = Batch[f]
      BY <2>8, ClaimEffect DEF NextToClaim
    <3>3. claimed'[r] \subseteq claimed[r] \union {e} /\ todo'[r] \subseteq todo[r]
      BY <2>8, ClaimEffect
    <3>4. \A q \in Resources \ {r} : todo'[q] = todo[q] /\ claimed'[q] = claimed[q]
      BY <2>8, ClaimEffect
    <3>5. \A d \in Events : ResourceOf[d] = r => verdict[d] = "none"
      BY <2>8, ClaimEffect DEF VerdictInv
    <3>6. \A d \in Events : ResourceOf[d] \in Resources
      OBVIOUS
    <3>7. \A q \in Resources : \A d, f \in claimed'[q] : Batch[d] = Batch[f]
      <4>1. \A d, f \in claimed[r] \union {e} : Batch[d] = Batch[f]
        BY <3>2 DEF BatchInv
      <4> QED
        BY <3>3, <3>4, <4>1 DEF BatchInv
    <3>8. \A q \in Resources : \A d \in claimed'[q], f \in todo'[q] : Batch[d] <= Batch[f]
      BY <3>2, <3>3, <3>4 DEF BatchInv, TypeOK
    <3> QED
      BY <3>1, <3>3, <3>4, <3>5, <3>6, <3>7, <3>8 DEF BatchInv, TypeOK
  <2>9. ASSUME NEW e \in Events, SettleUnmatched(r, e) PROVE BatchInv'
    BY <2>9 DEF SettleUnmatched, BatchClaimed, BatchInv, TaskInv, VerdictInv, TypeOK
  <2>10. ASSUME NEW e \in Events, Settle(r, e) PROVE BatchInv'
    BY <2>10 DEF Settle, BatchInv, TaskInv, VerdictInv, TypeOK
  <2> QED
    BY <1>1, <2>1, <2>2, <2>3, <2>4, <2>5, <2>6, <2>7, <2>8, <2>9, <2>10 DEF TaskStep
<1>2. ASSUME NEW e \in Events, Store(e) PROVE BatchInv'
  BY <1>2 DEF Store, BatchInv, TaskInv, VerdictInv, TypeOK
<1>3. ASSUME NEW e \in Events, SettleWaiting(e) PROVE BatchInv'
  BY <1>3 DEF SettleWaiting, BatchInv, TaskInv, VerdictInv, TypeOK
<1>4. CASE Crash
  BY <1>4 DEF Crash, BatchInv, TaskInv, VerdictInv, TypeOK
<1>5. CASE Restart
  BY <1>5 DEF Restart, InFlight, ActiveRun, BatchInv, TaskInv, VerdictInv, TypeOK
<1>6. CASE UNCHANGED <<inbox, queue>>
  BY <1>6 DEF BatchInv, TaskInv, VerdictInv, TypeOK
<1> QED
  BY <1>1, <1>2, <1>3, <1>4, <1>5, <1>6, EventFrame

\* Whatever comes before is there, settled or put off.
LEMMA NextTurn ==
    TypeOK /\ TaskInv /\ VerdictInv /\ CreatedInv /\ HeldInv /\ DownInv /\ TurnInv /\ TypeOK' /\ [Next]_vars => TurnInv'
<1> SUFFICES ASSUME TypeOK, TaskInv, VerdictInv, CreatedInv, HeldInv, DownInv, TurnInv, TypeOK', [Next]_vars PROVE TurnInv'
    OBVIOUS
<1> USE DispatchAssumption DEF inbox, runs, cancels, queue, jobs
<1>1. ASSUME NEW r \in Resources, TaskStep(r) PROVE TurnInv'
  <2>1. CASE StartTask(r)
    BY <2>1 DEF StartTask, Listed, CreatedInv, HeldInv, EvStatuses, TurnInv, Settled,
        Closed, Earlier, TaskInv, InFlight, TypeOK
  <2>2. CASE EndTask(r)
    BY <2>2 DEF EndTask, TurnInv, Settled, Closed, Earlier, TaskInv, InFlight, TypeOK
  <2>3. CASE Plan(r)
    BY <2>3 DEF Plan, Dispatch, BatchInvs, BatchClaimed, TurnInv, Settled, Closed, Earlier,
        TaskInv, InFlight, TypeOK
  <2>4. CASE GateReady(r)
    BY <2>4 DEF GateReady, Dispatch, BatchInvs, TurnInv, Settled, Closed, Earlier, TaskInv,
        InFlight, TypeOK
  <2>5. ASSUME NEW err \in BOOLEAN, GateClosed(r, err) PROVE TurnInv'
    BY <2>5 DEF GateClosed, TurnInv, Settled, Closed, Earlier, TaskInv, InFlight, TypeOK
  <2>6. CASE Decide(r)
    BY <2>6 DEF Decide, BatchInvs, VerdictInv, TurnInv, Settled, Closed, Earlier, TaskInv,
        InFlight, TypeOK
  <2>7. CASE FinishBatch(r)
    <3>1. /\ phase[r] = "settle" /\ claimed[r] = {}
          /\ todo' = [todo EXCEPT ![r] =
                IF NextBatchAllowed({verdict[e] : e \in {d \in Events : ResourceOf[d] = r}})
                THEN todo[r] ELSE {}]
          /\ verdict' = [e \in Events |-> IF ResourceOf[e] = r THEN "none" ELSE verdict[e]]
          /\ UNCHANGED <<inbox, claimed>>
      BY <2>7 DEF FinishBatch
    <3>2. \A q \in Resources \ {r} : todo'[q] = todo[q]
      BY <3>1 DEF TypeOK
    <3>3. \A e \in Events : ResourceOf[e] # r => verdict'[e] = verdict[e]
      BY <3>1
    <3>4. CASE NextBatchAllowed({verdict[e] : e \in {d \in Events : ResourceOf[d] = r}})
      <4>1. \A e \in Events : ResourceOf[e] = r => verdict[e] \notin {"release", "retry"}
        BY <3>4 DEF NextBatchAllowed
      <4>2. todo' = todo
        BY <3>1, <3>4 DEF TypeOK
      <4> QED
        BY <3>1, <3>3, <4>1, <4>2 DEF TurnInv, Earlier, Settled, Closed, TaskInv, TypeOK
    <3>5. CASE ~NextBatchAllowed({verdict[e] : e \in {d \in Events : ResourceOf[d] = r}})
      <4>1. todo'[r] = {} /\ claimed'[r] = {}
        BY <3>1, <3>5 DEF TypeOK
      <4>2. ASSUME NEW q \in Resources \ {r}, NEW f \in (todo[q] \union claimed[q]), NEW e \in Events,
                   Earlier(e, f)
            PROVE  \/ e \in todo[q] \union claimed[q]
                   \/ Settled(e)
                   \/ verdict'[e] \in {"release", "retry"}
        <5>1. ResourceOf[e] = q
          BY <4>2 DEF TaskInv, Earlier
        <5> QED
          BY <3>3, <4>2, <5>1 DEF TurnInv
      <4>3. \A e \in Events : Settled(e)' = Settled(e)
        BY <3>1 DEF Settled, Closed
      <4>4. \A q \in Resources \ {r} : todo'[q] = todo[q] /\ claimed'[q] = claimed[q]
        BY <3>1, <3>2
      <4> QED
        BY <4>1, <4>2, <4>3, <4>4 DEF TurnInv, Earlier
    <3> QED
      BY <3>4, <3>5
  <2>8. ASSUME NEW e \in Events, Claim(r, e) PROVE TurnInv'
    BY <2>8 DEF Claim, Claimable, NextToClaim, HeldInv, VerdictInv, DownInv, AllIdle,
        EvStatuses, CreatedInv, TurnInv, Settled, Closed, Earlier, TaskInv, InFlight, TypeOK
  <2>9. ASSUME NEW e \in Events, SettleUnmatched(r, e) PROVE TurnInv'
    BY <2>9 DEF SettleUnmatched, BatchClaimed, TurnInv, Settled, Closed, Earlier, TaskInv,
        InFlight, TypeOK
  <2>10. ASSUME NEW e \in Events, Settle(r, e) PROVE TurnInv'
    <3>1. /\ UNCHANGED <<todo, verdict>> /\ claimed'[r] = claimed[r] \ {e} /\ verdict[e] # "none"
          /\ ResourceOf[e] = r /\ ~Closed(e) /\ evStatus[e] # "absent"
      BY <2>10, SettleEffect DEF VerdictInv, TaskInv, InFlight, Closed
    <3>2. \A q \in Resources \ {r} : claimed'[q] = claimed[q]
      BY <2>10, SettleEffect
    <3>3. Closed(e)' \/ verdict'[e] \in {"release", "retry"}
      BY <2>10, <3>1, SettleEffect DEF Closed, TypeOK, Verdicts
    <3>4. \A d \in Events \ {e} : /\ evStatus'[d] = evStatus[d] /\ evAttempts'[d] = evAttempts[d]
                                 /\ evRetry'[d] = evRetry[d]
      BY <2>10, SettleEffect
    <3>5. \A d \in Events \ {e} : Settled(d) => Settled(d)'
      BY <3>4 DEF Settled, Closed
    <3> QED
      BY <3>1, <3>2, <3>3, <3>5 DEF TurnInv, Earlier, Settled
  <2> QED
    BY <1>1, <2>1, <2>2, <2>3, <2>4, <2>5, <2>6, <2>7, <2>8, <2>9, <2>10 DEF TaskStep
<1>2. ASSUME NEW e \in Events, Store(e) PROVE TurnInv'
  BY <1>2 DEF Store, TurnInv, Settled, Closed, Earlier, TaskInv, InFlight, TypeOK
<1>3. ASSUME NEW e \in Events, SettleWaiting(e) PROVE TurnInv'
  BY <1>3 DEF SettleWaiting, TurnInv, Settled, Closed, Earlier, TaskInv, InFlight, TypeOK
<1>4. CASE Crash
  BY <1>4 DEF Crash, TurnInv, Settled, Closed, Earlier, TaskInv, InFlight, TypeOK
<1>5. CASE Restart
  BY <1>5 DEF Restart, InFlight, ActiveRun, TurnInv, Settled, Closed, Earlier, TaskInv,
      TypeOK
<1>6. CASE UNCHANGED <<inbox, queue>>
  BY <1>6 DEF TurnInv, Settled, Closed, Earlier, TaskInv, InFlight, TypeOK
<1> QED
  BY <1>1, <1>2, <1>3, <1>4, <1>5, <1>6, EventFrame

\* A completed event keeps its completed runs.
LEMMA NextDelivered ==
    TypeOK /\ TaskInv /\ JobInv /\ VerdictInv /\ CompletedMeansDelivered /\ TypeOK' /\ [Next]_vars => CompletedMeansDelivered'
<1> SUFFICES ASSUME TypeOK, TaskInv, JobInv, VerdictInv, CompletedMeansDelivered, TypeOK', [Next]_vars PROVE CompletedMeansDelivered'
    OBVIOUS
<1> USE DispatchAssumption DEF inbox, runs, cancels, queue, jobs
<1>1. ASSUME NEW r \in Resources, TaskStep(r) PROVE CompletedMeansDelivered'
  <2>1. CASE StartTask(r)
    BY <2>1 DEF StartTask, CompletedMeansDelivered, InFlight, TypeOK
  <2>2. CASE EndTask(r)
    BY <2>2 DEF EndTask, CompletedMeansDelivered, InFlight, TypeOK
  <2>3. CASE Plan(r)
    BY <2>3 DEF Plan, Dispatch, BatchInvs, TaskInv, CompletedMeansDelivered, InFlight,
        TypeOK
  <2>4. CASE GateReady(r)
    BY <2>4 DEF GateReady, Dispatch, BatchInvs, TaskInv, CompletedMeansDelivered, InFlight,
        TypeOK
  <2>5. ASSUME NEW err \in BOOLEAN, GateClosed(r, err) PROVE CompletedMeansDelivered'
    BY <2>5 DEF GateClosed, CompletedMeansDelivered, InFlight, TypeOK
  <2>6. CASE Decide(r)
    BY <2>6 DEF Decide, BatchInvs, CompletedMeansDelivered, InFlight, TypeOK
  <2>7. CASE FinishBatch(r)
    BY <2>7 DEF FinishBatch, CompletedMeansDelivered, InFlight, TypeOK
  <2>8. ASSUME NEW e \in Events, Claim(r, e) PROVE CompletedMeansDelivered'
    BY <2>8 DEF Claim, Claimable, CompletedMeansDelivered, InFlight, TypeOK
  <2>9. ASSUME NEW e \in Events, SettleUnmatched(r, e) PROVE CompletedMeansDelivered'
    BY <2>9 DEF SettleUnmatched, CompletedMeansDelivered, InFlight, TypeOK
  <2>10. ASSUME NEW e \in Events, Settle(r, e) PROVE CompletedMeansDelivered'
    BY <2>10 DEF Settle, VerdictInv, InvsOf, CompletedMeansDelivered, InFlight, TypeOK
  <2> QED
    BY <1>1, <2>1, <2>2, <2>3, <2>4, <2>5, <2>6, <2>7, <2>8, <2>9, <2>10 DEF TaskStep
<1>2. ASSUME NEW i \in Invs, JobStep(i) PROVE CompletedMeansDelivered'
  <2>1. CASE RefuseCall(i)
    BY <2>1 DEF RefuseCall, Return, Flagged, CompletedMeansDelivered, InFlight, TypeOK
  <2>2. CASE Reserve(i)
    BY <2>2 DEF Reserve, Interrupted, RetryDue, CompletedMeansDelivered, InFlight, TypeOK
  <2>3. CASE NotReserved(i)
    BY <2>3 DEF NotReserved, Return, CompletedMeansDelivered, InFlight, TypeOK
  <2>4. CASE RecheckFlag(i)
    BY <2>4 DEF RecheckFlag, RequestCancel, LateToCancel, Flagged, ActiveRun,
        CompletedMeansDelivered, InFlight, TypeOK
  <2>5. CASE Start(i)
    BY <2>5 DEF Start, CompletedMeansDelivered, InFlight, TypeOK
  <2>6. ASSUME NEW res \in {"completed", "failed", "fatal", "cancelled"}, AgentEnds(i, res) PROVE CompletedMeansDelivered'
    BY <2>6 DEF AgentEnds, CompletedMeansDelivered, InFlight, TypeOK
  <2>7. CASE Finish(i)
    <3>1. runStatus[i] # "completed"
      BY <2>7 DEF Finish, JobInv, Running
    <3>2. /\ \A j \in Invs \ {i} : runStatus'[j] = runStatus[j]
          /\ UNCHANGED evStatus
      BY <2>7 DEF Finish, TypeOK
    <3> QED
      BY <3>1, <3>2 DEF CompletedMeansDelivered
  <2> QED
    BY <1>2, <2>1, <2>2, <2>3, <2>4, <2>5, <2>6, <2>7 DEF JobStep
<1>3. CASE NextCycle
  BY <1>3 DEF NextCycle, CompletedMeansDelivered, InFlight, TypeOK
<1>4. CASE Sweep
  BY <1>4 DEF Sweep, RequestCancel, ActiveRun, CompletedMeansDelivered, InFlight, TypeOK
<1>5. CASE Exit
  BY <1>5 DEF Exit, CompletedMeansDelivered, InFlight, TypeOK
<1>6. CASE Restart
  BY <1>6 DEF Restart, InFlight, ActiveRun, CompletedMeansDelivered, TypeOK
<1>7. ASSUME NEW e \in Events, Store(e) PROVE CompletedMeansDelivered'
  BY <1>7 DEF Store, CompletedMeansDelivered, InFlight, TypeOK
<1>8. ASSUME NEW e \in Events, SettleWaiting(e) PROVE CompletedMeansDelivered'
  BY <1>8 DEF SettleWaiting, CompletedMeansDelivered, InFlight, TypeOK
<1>9. ASSUME NEW i \in Invs, AdminCancel(i) PROVE CompletedMeansDelivered'
  BY <1>9 DEF AdminCancel, RequestCancel, ActiveRun, CompletedMeansDelivered, InFlight,
      TypeOK
<1>10. CASE RequestShutdown
  BY <1>10 DEF RequestShutdown, CompletedMeansDelivered, InFlight, TypeOK
<1>11. CASE Crash
  BY <1>11 DEF Crash, CompletedMeansDelivered, InFlight, TypeOK
<1>12. CASE UNCHANGED vars
  BY <1>12 DEF vars, CompletedMeansDelivered, InFlight, TypeOK
<1> QED
  BY <1>1, <1>2, <1>3, <1>4, <1>5, <1>6, <1>7, <1>8, <1>9, <1>10, <1>11, <1>12 DEF Next,
      Environment

\* An earlier batch stays settled while a later one is in flight.
LEMMA NextOrder ==
    TypeOK /\ DownInv /\ TaskInv /\ HeldInv /\ VerdictInv /\ BatchInv /\ TurnInv /\ InOrder /\ TypeOK' /\ [Next]_vars => InOrder'
<1> SUFFICES ASSUME TypeOK, DownInv, TaskInv, HeldInv, VerdictInv, BatchInv, TurnInv, InOrder, TypeOK', [Next]_vars PROVE InOrder'
    OBVIOUS
<1> USE DispatchAssumption DEF inbox, runs, cancels, queue, jobs
<1>1. ASSUME NEW r \in Resources, TaskStep(r) PROVE InOrder'
  <2>1. CASE StartTask(r)
    BY <2>1 DEF StartTask, InOrder, Earlier, Settled, Closed, InFlight, TaskInv, TypeOK
  <2>2. CASE EndTask(r)
    BY <2>2 DEF EndTask, InOrder, Earlier, Settled, Closed, InFlight, TaskInv, TypeOK
  <2>3. CASE Plan(r)
    <3>1. \A d \in Events : evStatus'[d] # evStatus[d] => InFlight(d) /\ evStatus'[d] = "triggered"
      BY <2>3 DEF Plan, Dispatch, BatchInvs, TaskInv
    <3>2. UNCHANGED <<evAttempts, evRetry>>
      BY <2>3 DEF Plan
    <3> QED
      BY <3>1, <3>2 DEF InOrder, InFlight, Closed
  <2>4. CASE GateReady(r)
    <3>1. \A d \in Events : evStatus'[d] # evStatus[d] => InFlight(d) /\ evStatus'[d] = "triggered"
      BY <2>4 DEF GateReady, Dispatch, BatchInvs, TaskInv
    <3>2. UNCHANGED <<evAttempts, evRetry>>
      BY <2>4 DEF GateReady
    <3> QED
      BY <3>1, <3>2 DEF InOrder, InFlight, Closed
  <2>5. ASSUME NEW err \in BOOLEAN, GateClosed(r, err) PROVE InOrder'
    BY <2>5 DEF GateClosed, InOrder, Earlier, Settled, Closed, InFlight, TaskInv, TypeOK
  <2>6. CASE Decide(r)
    BY <2>6 DEF Decide, BatchInvs, InOrder, Earlier, Settled, Closed, InFlight, TaskInv,
        TypeOK
  <2>7. CASE FinishBatch(r)
    BY <2>7 DEF FinishBatch, InOrder, Earlier, Settled, Closed, InFlight, TaskInv, TypeOK
  <2>8. ASSUME NEW e \in Events, Claim(r, e) PROVE InOrder'
    <3>1. /\ e \in todo[r] /\ ResourceOf[e] = r /\ mode # "down"
          /\ \A d \in Events : ResourceOf[d] = r => verdict[d] = "none"
      BY <2>8, ClaimEffect DEF NextToClaim, TaskInv, VerdictInv, DownInv, AllIdle
    <3>2. \A d \in todo[r] \union claimed[r] : ~(Batch[d] < Batch[e])
      BY <2>8, ClaimEffect DEF NextToClaim, TypeOK
    <3>3. \A d \in Events : Earlier(d, e) => Settled(d)
      BY <3>1, <3>2 DEF TurnInv, Earlier
    <3>4. CASE ~Claimable(e)
      BY <2>8, <3>4, ClaimEffect DEF InOrder, InFlight, Closed
    <3>5. CASE Claimable(e)
      <4>1. ~Settled(e)
        BY <3>5 DEF Claimable, Settled, Closed, TypeOK
      <4>2. \A d \in Events \ {e} : /\ evStatus'[d] = evStatus[d]
                                   /\ evAttempts'[d] = evAttempts[d]
                                   /\ evRetry'[d] = evRetry[d]
        BY <2>8, ClaimEffect
      <4>3. \A d, f \in Events : Earlier(d, f) /\ (f = e \/ InFlight(f)) => d # e /\ Settled(d)
        BY <3>3, <4>1 DEF InOrder, Earlier, Settled
      <4>4. \A d \in Events \ {e} : Settled(d) => Settled(d)'
        BY <4>2 DEF Settled, Closed
      <4>5. \A f \in Events : InFlight(f)' => f = e \/ InFlight(f)
        BY <4>2 DEF InFlight
      <4>6. \A d, f \in Events : Earlier(d, f) /\ InFlight(f)' => Settled(d)'
        BY <4>3, <4>4, <4>5
      <4> QED
        BY <4>6 DEF InOrder, Earlier, Settled
    <3> QED
      BY <3>4, <3>5
  <2>9. ASSUME NEW e \in Events, SettleUnmatched(r, e) PROVE InOrder'
    BY <2>9 DEF SettleUnmatched, InOrder, Earlier, Settled, Closed, InFlight, TaskInv,
        TypeOK
  <2>10. ASSUME NEW e \in Events, Settle(r, e) PROVE InOrder'
    BY <2>10 DEF Settle, HeldInv, BatchInv, DownInv, AllIdle, Refund, InOrder, Earlier,
        Settled, Closed, InFlight, TaskInv, TypeOK
  <2> QED
    BY <1>1, <2>1, <2>2, <2>3, <2>4, <2>5, <2>6, <2>7, <2>8, <2>9, <2>10 DEF TaskStep
<1>2. ASSUME NEW i \in Invs, JobStep(i) PROVE InOrder'
  <2>1. CASE RefuseCall(i)
    BY <2>1 DEF RefuseCall, Return, Flagged, InOrder, Earlier, Settled, Closed, InFlight,
        TaskInv, TypeOK
  <2>2. CASE Reserve(i)
    BY <2>2 DEF Reserve, Interrupted, RetryDue, InOrder, Earlier, Settled, Closed,
        InFlight, TaskInv, TypeOK
  <2>3. CASE NotReserved(i)
    BY <2>3 DEF NotReserved, Return, InOrder, Earlier, Settled, Closed, InFlight, TaskInv,
        TypeOK
  <2>4. CASE RecheckFlag(i)
    BY <2>4 DEF RecheckFlag, RequestCancel, LateToCancel, Flagged, ActiveRun, InOrder,
        Earlier, Settled, Closed, InFlight, TaskInv, TypeOK
  <2>5. CASE Start(i)
    BY <2>5 DEF Start, InOrder, Earlier, Settled, Closed, InFlight, TaskInv, TypeOK
  <2>6. ASSUME NEW res \in {"completed", "failed", "fatal", "cancelled"}, AgentEnds(i, res) PROVE InOrder'
    BY <2>6 DEF AgentEnds, InOrder, Earlier, Settled, Closed, InFlight, TaskInv, TypeOK
  <2>7. CASE Finish(i)
    BY <2>7 DEF Finish, InOrder, Earlier, Settled, Closed, InFlight, TaskInv, TypeOK
  <2> QED
    BY <1>2, <2>1, <2>2, <2>3, <2>4, <2>5, <2>6, <2>7 DEF JobStep
<1>3. CASE NextCycle
  BY <1>3 DEF NextCycle, InOrder, Earlier, Settled, Closed, InFlight, TaskInv, TypeOK
<1>4. CASE Sweep
  BY <1>4 DEF Sweep, RequestCancel, ActiveRun, InOrder, Earlier, Settled, Closed, InFlight,
      TaskInv, TypeOK
<1>5. CASE Exit
  BY <1>5 DEF Exit, InOrder, Earlier, Settled, Closed, InFlight, TaskInv, TypeOK
<1>6. CASE Restart
  BY <1>6 DEF Restart, InFlight, ActiveRun, InOrder, Earlier, Settled, Closed, TaskInv,
      TypeOK
<1>7. ASSUME NEW e \in Events, Store(e) PROVE InOrder'
  BY <1>7 DEF Store, InOrder, Earlier, Settled, Closed, InFlight, TaskInv, TypeOK
<1>8. ASSUME NEW e \in Events, SettleWaiting(e) PROVE InOrder'
  BY <1>8 DEF SettleWaiting, InOrder, Earlier, Settled, Closed, InFlight, TaskInv, TypeOK
<1>9. ASSUME NEW i \in Invs, AdminCancel(i) PROVE InOrder'
  BY <1>9 DEF AdminCancel, RequestCancel, ActiveRun, InOrder, Earlier, Settled, Closed,
      InFlight, TaskInv, TypeOK
<1>10. CASE RequestShutdown
  BY <1>10 DEF RequestShutdown, InOrder, Earlier, Settled, Closed, InFlight, TaskInv, TypeOK
<1>11. CASE Crash
  BY <1>11 DEF Crash, InOrder, Earlier, Settled, Closed, InFlight, TaskInv, TypeOK
<1>12. CASE UNCHANGED vars
  BY <1>12 DEF vars, InOrder, Earlier, Settled, Closed, InFlight, TaskInv, TypeOK
<1> QED
  BY <1>1, <1>2, <1>3, <1>4, <1>5, <1>6, <1>7, <1>8, <1>9, <1>10, <1>11, <1>12 DEF Next,
      Environment

\* How EventDelivery sees an event and a run.
Mark(e) == IF evStatus[e] = "absent" THEN "absent" ELSE IF Closed(e) THEN "closed" ELSE "open"
Succeeded(i) == runStatus[i] = "completed"

EventStep ==
    \/ \A d \in Events : Mark(d)' = Mark(d)
    \/ /\ UNCHANGED runStatus
       /\ \E e \in Events :
            /\ \/ Mark(e) = "absent" /\ Mark(e)' = "open"
               \/ Mark(e) = "open" /\ Mark(e)' = "closed"
            /\ \A d \in Events \ {e} : Mark(d)' = Mark(d)

RunStep ==
    \/ \A j \in Invs : Succeeded(j)' = Succeeded(j)
    \/ /\ UNCHANGED <<evStatus, evAttempts, evRetry>>
       /\ \E i \in Invs :
            /\ ~Succeeded(i) /\ Succeeded(i)' /\ Mark(EventOf[i]) = "open"
            /\ \A j \in Invs \ {i} : Succeeded(j)' = Succeeded(j)

\* At most one event moves on, from absent to open to closed.
LEMMA NextEventStep ==
    TypeOK /\ TaskInv /\ TypeOK' /\ [Next]_vars => EventStep
<1> SUFFICES ASSUME TypeOK, TaskInv, TypeOK', [Next]_vars PROVE EventStep
    OBVIOUS
<1> USE DispatchAssumption DEF inbox, runs, cancels, queue, jobs
<1>1. ASSUME NEW r \in Resources, TaskStep(r) PROVE EventStep
  <2>1. CASE StartTask(r)
    BY <2>1 DEF StartTask, EventStep, Mark, Closed, InFlight, TypeOK
  <2>2. CASE EndTask(r)
    BY <2>2 DEF EndTask, EventStep, Mark, Closed, InFlight, TypeOK
  <2>3. CASE Plan(r)
    <3>1. \A d \in Events : evStatus'[d] # evStatus[d] => InFlight(d) /\ evStatus'[d] = "triggered"
      BY <2>3 DEF Plan, Dispatch, BatchInvs, TaskInv
    <3>2. UNCHANGED <<evAttempts, evRetry>>
      BY <2>3 DEF Plan
    <3> QED
      BY <3>1, <3>2 DEF EventStep, Mark, Closed, InFlight
  <2>4. CASE GateReady(r)
    <3>1. \A d \in Events : evStatus'[d] # evStatus[d] => InFlight(d) /\ evStatus'[d] = "triggered"
      BY <2>4 DEF GateReady, Dispatch, BatchInvs, TaskInv
    <3>2. UNCHANGED <<evAttempts, evRetry>>
      BY <2>4 DEF GateReady
    <3> QED
      BY <3>1, <3>2 DEF EventStep, Mark, Closed, InFlight
  <2>5. ASSUME NEW err \in BOOLEAN, GateClosed(r, err) PROVE EventStep
    BY <2>5 DEF GateClosed, EventStep, Mark, Closed, InFlight, TypeOK
  <2>6. CASE Decide(r)
    BY <2>6 DEF Decide, BatchInvs, EventStep, Mark, Closed, InFlight, TypeOK
  <2>7. CASE FinishBatch(r)
    BY <2>7 DEF FinishBatch, EventStep, Mark, Closed, InFlight, TypeOK
  <2>8. ASSUME NEW e \in Events, Claim(r, e) PROVE EventStep
    BY <2>8 DEF Claim, Claimable, EventStep, Mark, Closed, InFlight, TypeOK
  <2>9. ASSUME NEW e \in Events, SettleUnmatched(r, e) PROVE EventStep
    <3>1. /\ evStatus'[e] = "unmatched" /\ InFlight(e)
          /\ \A d \in Events \ {e} : evStatus'[d] = evStatus[d]
      BY <2>9 DEF SettleUnmatched, TaskInv, TypeOK
    <3>2. UNCHANGED <<evAttempts, evRetry, runStatus>>
      BY <2>9 DEF SettleUnmatched
    <3>3. Mark(e) = "open" /\ Mark(e)' = "closed"
      BY <3>1 DEF Mark, Closed, InFlight
    <3>4. \A d \in Events \ {e} : Mark(d)' = Mark(d)
      BY <3>1, <3>2 DEF Mark, Closed
    <3> QED
      BY <3>2, <3>3, <3>4 DEF EventStep
  <2>10. ASSUME NEW e \in Events, Settle(r, e) PROVE EventStep
    <3>1. Mark(e) = "open" /\ UNCHANGED runStatus
      BY <2>10, SettleEffect DEF TaskInv, InFlight, Mark, Closed
    <3>2. Mark(e)' \in {"open", "closed"}
      BY <2>10, SettleEffect DEF Mark, Closed, TypeOK, Verdicts
    <3>3. \A d \in Events \ {e} : Mark(d)' = Mark(d)
      BY <2>10, SettleEffect DEF Mark, Closed
    <3> QED
      BY <3>1, <3>2, <3>3 DEF EventStep
  <2> QED
    BY <1>1, <2>1, <2>2, <2>3, <2>4, <2>5, <2>6, <2>7, <2>8, <2>9, <2>10 DEF TaskStep
<1>2. ASSUME NEW e \in Events, Store(e) PROVE EventStep
  BY <1>2 DEF Store, EventStep, Mark, Closed, InFlight, TypeOK
<1>3. ASSUME NEW e \in Events, SettleWaiting(e) PROVE EventStep
  BY <1>3 DEF SettleWaiting, EventStep, Mark, Closed, InFlight, TypeOK
<1>4. CASE Crash
  BY <1>4 DEF Crash, EventStep, Mark, Closed, InFlight, TypeOK
<1>5. CASE Restart
  BY <1>5 DEF Restart, InFlight, ActiveRun, EventStep, Mark, Closed, TypeOK
<1>6. CASE UNCHANGED <<inbox, queue>>
  BY <1>6 DEF EventStep, Mark, Closed, InFlight, TypeOK
<1> QED
  BY <1>1, <1>2, <1>3, <1>4, <1>5, <1>6, EventFrame

\* At most one run succeeds, while its event is open.
LEMMA NextRunStep ==
    TypeOK /\ RowsInv /\ TaskInv /\ JobInv /\ TypeOK' /\ [Next]_vars => RunStep
<1> SUFFICES ASSUME TypeOK, RowsInv, TaskInv, JobInv, TypeOK', [Next]_vars PROVE RunStep
    OBVIOUS
<1> USE DispatchAssumption DEF inbox, runs, cancels, queue, jobs
<1>1. ASSUME NEW r \in Resources, Plan(r) PROVE RunStep
  BY <1>1 DEF Plan, Dispatch, BatchInvs, RunStep, Succeeded, TypeOK
<1>2. ASSUME NEW r \in Resources, GateReady(r) PROVE RunStep
  BY <1>2 DEF GateReady, Dispatch, BatchInvs, RunStep, Succeeded, TypeOK
<1>3. ASSUME NEW r \in Resources, FinishBatch(r) PROVE RunStep
  BY <1>3 DEF FinishBatch, RunStep, Succeeded, TypeOK
<1>4. ASSUME NEW i \in Invs, JobStep(i) PROVE RunStep
  <2>1. CASE RefuseCall(i)
    BY <2>1 DEF RefuseCall, Return, Flagged, RunStep, Succeeded, TypeOK
  <2>2. CASE Reserve(i)
    BY <2>2 DEF Reserve, Interrupted, RetryDue, RunStep, Succeeded, TypeOK
  <2>3. CASE NotReserved(i)
    BY <2>3 DEF NotReserved, Return, RunStep, Succeeded, TypeOK
  <2>4. CASE RecheckFlag(i)
    BY <2>4 DEF RecheckFlag, RequestCancel, LateToCancel, Flagged, ActiveRun, RunStep,
        Succeeded, TypeOK
  <2>5. CASE Start(i)
    BY <2>5 DEF Start, RunStep, Succeeded, TypeOK
  <2>6. ASSUME NEW res \in {"completed", "failed", "fatal", "cancelled"}, AgentEnds(i, res) PROVE RunStep
    BY <2>6 DEF AgentEnds, RunStep, Succeeded, TypeOK
  <2>7. CASE Finish(i)
    <3>1. /\ result[i] \in {"completed", "failed", "fatal", "cancelled"} /\ ~Succeeded(i)
          /\ EventOf[i] \in claimed[ResOf(i)] /\ ResOf(i) \in Resources
      BY <2>7 DEF Finish, RowsInv, JobInv, Running, Succeeded, ResOf
    <3>2. Mark(EventOf[i]) = "open"
      BY <3>1 DEF TaskInv, InFlight, Mark, Closed
    <3>3. runStatus' = [runStatus EXCEPT ![i] = IF result[i] = "fatal" THEN "failed" ELSE result[i]]
          /\ UNCHANGED <<evStatus, evAttempts, evRetry>>
      BY <2>7 DEF Finish
    <3>4. \A j \in Invs \ {i} : Succeeded(j)' = Succeeded(j)
      BY <3>3 DEF Succeeded, TypeOK
    <3>5. runStatus'[i] = IF result[i] = "fatal" THEN "failed" ELSE result[i]
      BY <3>3 DEF TypeOK
    <3>6. Succeeded(i)' <=> result[i] = "completed"
      BY <3>1, <3>5 DEF Succeeded
    <3>7. CASE result[i] = "completed"
      <4>1. Succeeded(i)'
        BY <3>6, <3>7
      <4> QED
        BY <3>1, <3>2, <3>3, <3>4, <4>1 DEF RunStep
    <3>8. CASE result[i] # "completed"
      <4>1. Succeeded(i)' = Succeeded(i)
        BY <3>1, <3>6, <3>8 DEF Succeeded
      <4> QED
        BY <3>4, <4>1 DEF RunStep
    <3> QED
      BY <3>7, <3>8
  <2> QED
    BY <1>4, <2>1, <2>2, <2>3, <2>4, <2>5, <2>6, <2>7 DEF JobStep
<1>5. ASSUME NEW i \in Invs, AdminCancel(i) PROVE RunStep
  BY <1>5 DEF AdminCancel, RequestCancel, ActiveRun, RunStep, Succeeded, TypeOK
<1>6. CASE Sweep
  BY <1>6 DEF Sweep, RequestCancel, ActiveRun, RunStep, Succeeded, TypeOK
<1>7. CASE Crash
  BY <1>7 DEF Crash, RunStep, Succeeded, TypeOK
<1>8. CASE Restart
  BY <1>8 DEF Restart, InFlight, ActiveRun, RunStep, Succeeded, TypeOK
<1>9. CASE UNCHANGED <<runs, cancels, jobs>>
  BY <1>9 DEF RunStep, Succeeded, TypeOK
<1> QED
  BY <1>1, <1>2, <1>3, <1>4, <1>5, <1>6, <1>7, <1>8, <1>9, RunFrame

\* A step of the queue is a step of what it promises, or none.
LEMMA StepImplements == IInv /\ IInv' /\ [Next]_vars => [Delivery!Next]_(Delivery!vars)
<1> SUFFICES ASSUME IInv, IInv', [Next]_vars PROVE [Delivery!Next]_(Delivery!vars)
    OBVIOUS
<1> USE DispatchAssumption
<1> DEFINE stateOf == [e \in Events |-> Mark(e)]
           successes == {i \in Invs : Succeeded(i)}
<1>1. Delivery!vars = <<stateOf, successes>>
  BY DEF Delivery!vars, Mark, Succeeded
<1>2. EventStep /\ RunStep
  BY NextEventStep, NextRunStep DEF IInv
<1>3. CASE (\A d \in Events : Mark(d)' = Mark(d)) /\ (\A j \in Invs : Succeeded(j)' = Succeeded(j))
  <2>1. stateOf' = stateOf
    BY <1>3
  <2>2. successes' = successes
    BY <1>3
  <2> QED
    BY <1>1, <2>1, <2>2 DEF Delivery!vars, Mark, Succeeded
<1>4. ASSUME NEW e \in Events, UNCHANGED runStatus,
             \/ Mark(e) = "absent" /\ Mark(e)' = "open"
             \/ Mark(e) = "open" /\ Mark(e)' = "closed",
             \A d \in Events \ {e} : Mark(d)' = Mark(d)
      PROVE  Delivery!Next
  <2>1. stateOf' = [stateOf EXCEPT ![e] = Mark(e)']
    BY <1>4
  <2>2. successes' = successes
    BY <1>4 DEF Succeeded
  <2>3. Delivery!Store(e) \/ Delivery!Close(e)
    BY <1>4, <2>1, <2>2 DEF Delivery!Store, Delivery!Close, Mark, Succeeded
  <2> QED
    BY <2>3 DEF Delivery!Next
<1>5. ASSUME NEW i \in Invs, UNCHANGED <<evStatus, evAttempts, evRetry>>,
             ~Succeeded(i), Succeeded(i)', Mark(EventOf[i]) = "open",
             \A j \in Invs \ {i} : Succeeded(j)' = Succeeded(j)
      PROVE  Delivery!Next
  <2>1. stateOf' = stateOf
    BY <1>5 DEF Mark, Closed
  <2>2. successes' = successes \union {i}
    BY <1>5
  <2>3. i \notin successes /\ stateOf[EventOf[i]] = "open"
    BY <1>5
  <2>4. Delivery!Succeed(i)
    BY <2>1, <2>2, <2>3 DEF Delivery!Succeed, Mark, Succeeded
  <2> QED
    BY <2>4 DEF Delivery!Next
<1>6. \/ \A d \in Events : Mark(d)' = Mark(d)
      \/ Delivery!Next
  BY <1>2, <1>4 DEF EventStep
<1>7. \/ \A j \in Invs : Succeeded(j)' = Succeeded(j)
      \/ Delivery!Next
  BY <1>2, <1>5 DEF RunStep
<1> QED
  BY <1>3, <1>6, <1>7

-----------------------------------------------------------------------------
\* Nothing has happened yet.
LEMMA InitIInv == Init => IInv
<1> SUFFICES ASSUME Init PROVE IInv
    OBVIOUS
<1> USE DispatchAssumption DEF Init
<1>1. used \in [crashes : 0 .. MaxCrashes, stops : 0 .. MaxStops, cancels : 0 .. MaxCancels]
  OBVIOUS
<1>2. TypeOK
  <2>1. /\ evStatus \in [Events -> EvStatuses]
        /\ evAttempts \in [Events -> 0 .. MaxAttempts]
        /\ evRetry \in [Events -> BOOLEAN]
        /\ verdict \in [Events -> Verdicts]
        /\ genuine \in [Events -> Nat]
    BY DEF EvStatuses, Verdicts
  <2>2. /\ runStatus \in [Invs -> RunStatuses]
        /\ runAttempts \in [Invs -> 0 .. MaxAttempts]
        /\ runRetry \in [Invs -> BOOLEAN]
        /\ cancelReq \in [Invs -> BOOLEAN]
        /\ source \in [Invs -> Sources]
        /\ job \in [Invs -> Jobs]
        /\ result \in [Invs -> Results]
    BY DEF RunStatuses, Sources, Jobs, Results
  <2>3. /\ phase \in [Resources -> Phases]
        /\ todo \in [Resources -> SUBSET Events]
        /\ claimed \in [Resources -> SUBSET Events]
        /\ gateErr \in [Resources -> BOOLEAN]
    BY DEF Phases
  <2> QED
    BY <1>1, <2>1, <2>2, <2>3 DEF TypeOK
<1>3. RowsInv /\ DownInv /\ TaskInv /\ HeldInv
  BY DEF RowsInv, DownInv, AllIdle, TaskInv, HeldInv, InFlight
<1>4. JobInv /\ CalledInv /\ VerdictInv
  BY DEF JobInv, CalledInv, VerdictInv, Running, ActiveRun, ResOf, InvsOf
<1>5. ChargeInv /\ CreatedInv /\ BatchInv /\ TurnInv
  BY DEF ChargeInv, CreatedInv, BatchInv, TurnInv, InFlight, Earlier
<1>6. CompletedMeansDelivered /\ InOrder
  BY DEF CompletedMeansDelivered, InOrder, InFlight
<1> QED
  BY <1>2, <1>3, <1>4, <1>5, <1>6 DEF IInv

\* Every step preserves the invariant.
LEMMA NextIInv == IInv /\ [Next]_vars => IInv'
<1> SUFFICES ASSUME IInv, [Next]_vars PROVE IInv'
    OBVIOUS
<1>1. TypeOK'
  BY NextTypeOK DEF IInv
<1>2. RowsInv' /\ DownInv' /\ TaskInv' /\ JobInv' /\ CalledInv'
  BY <1>1, NextRows, NextDown, NextTask, NextJob, NextCalled DEF IInv
<1>3. VerdictInv' /\ ChargeInv' /\ CreatedInv' /\ HeldInv' /\ BatchInv' /\ TurnInv'
  BY <1>1, NextVerdict, NextCharge, NextCreated, NextHeld, NextBatch, NextTurn DEF IInv
<1>4. CompletedMeansDelivered' /\ InOrder'
  BY <1>1, NextDelivered, NextOrder DEF IInv
<1> QED
  BY <1>1, <1>2, <1>3, <1>4 DEF IInv

\* The inductive invariant holds in every state of the specification.
THEOREM Inductive == Spec => []IInv
  BY InitIInv, NextIInv, PTL DEF Spec

\* Every variable keeps its type.
THEOREM TypeCorrect == Spec => []TypeOK
<1>1. IInv => TypeOK
  BY DEF IInv
<1> QED
  BY <1>1, Inductive, PTL

\* An event is only called completed when its direct Agents have completed.
THEOREM Delivered == Spec => []CompletedMeansDelivered
<1>1. IInv => CompletedMeansDelivered
  BY DEF IInv
<1> QED
  BY <1>1, Inductive, PTL

\* Batches of a pull request are worked on in order, whatever is retried,
\* released, cancelled or interrupted.
THEOREM Ordered == Spec => []InOrder
<1>1. IInv => InOrder
  BY DEF IInv
<1> QED
  BY <1>1, Inductive, PTL

\* A stop of the service costs an event no attempt.
THEOREM StopsAreFree == Spec => []OnlyFailuresExhaust
<1>1. IInv => OnlyFailuresExhaust
  BY DEF IInv, ChargeInv, OnlyFailuresExhaust
<1> QED
  BY <1>1, Inductive, PTL

\* In every state the dispatch is of its types and only failures use up attempts.
THEOREM DispatchKept == Spec => []DispatchInv
  BY TypeCorrect, StopsAreFree, PTL DEF DispatchInv

\* No Agent starts after the sweep of a stop.
THEOREM NoLateStart == Spec => NoStartAfterSweep
<1> DEFINE Stays == \A i \in Invs : mode = "stopping" /\ runStatus'[i] = "running"
                                        => runStatus[i] = "running"
<1>1. IInv /\ [Next]_vars => [Stays]_vars
  <2> SUFFICES ASSUME IInv, [Next]_vars, mode = "stopping", NEW i \in Invs,
                      runStatus'[i] = "running", runStatus[i] # "running"
               PROVE  FALSE
    BY DEF vars
  <2> USE DispatchAssumption DEF inbox, runs, cancels, queue, jobs
  <2>1. TypeOK /\ RowsInv /\ JobInv
    BY DEF IInv
  <2>2. ASSUME NEW j \in Invs, JobStep(j) PROVE FALSE
    <3>1. CASE RefuseCall(j) \/ NotReserved(j)
      BY <3>1 DEF RefuseCall, NotReserved
    <3>2. CASE Reserve(j)
      BY <3>2, <2>1 DEF Reserve, TypeOK
    <3>3. CASE RecheckFlag(j)
      BY <3>3, <2>1 DEF RecheckFlag, RequestCancel, TypeOK
    <3>4. CASE Start(j)
      BY <3>4, <2>1 DEF Start, JobInv, TypeOK
    <3>5. ASSUME NEW res \in {"completed", "failed", "fatal", "cancelled"}, AgentEnds(j, res)
          PROVE  FALSE
      BY <3>5 DEF AgentEnds
    <3>6. CASE Finish(j)
      BY <3>6, <2>1 DEF Finish, RowsInv, TypeOK
    <3> QED
      BY <2>2, <3>1, <3>2, <3>3, <3>4, <3>5, <3>6 DEF JobStep
  <2>3. ASSUME NEW j \in Invs, AdminCancel(j) PROVE FALSE
    BY <2>3, <2>1 DEF AdminCancel, RequestCancel, TypeOK
  <2>4. CASE Sweep \/ Crash \/ Restart
    BY <2>4, <2>1 DEF Sweep, Crash, Restart, TypeOK
  <2>5. ASSUME NEW r \in Resources, Plan(r) \/ GateReady(r) \/ FinishBatch(r) PROVE FALSE
    BY <2>5 DEF Plan, GateReady, FinishBatch
  <2>6. CASE UNCHANGED <<runs, cancels, jobs>>
    BY <2>6
  <2> QED
    BY <2>2, <2>3, <2>4, <2>5, <2>6, RunFrame
<1> QED
  BY <1>1, Inductive, PTL DEF Spec, NoStartAfterSweep

\* The queue implements EventDelivery: no closed event is opened again, and no
\* Agent run succeeds twice or for a closed event.
THEOREM Implements == Spec => ImplementsDelivery
<1>1. Init => Delivery!Init
  BY DispatchAssumption DEF Init, Delivery!Init
<1> QED
  BY <1>1, StepImplements, Inductive, PTL DEF Spec, ImplementsDelivery, Delivery!Spec

-----------------------------------------------------------------------------
(* Schedule, whose steps the same runtime makes.  It is a system of its own:  *)
(* a name of its that EventDispatch has too is written S!name.                *)

S == INSTANCE Schedule

\* Arithmetic of the period: a number, its quotient and its remainder.
LEMMA Division ==
    ASSUME NEW p \in Nat \ {0}, NEW x \in Nat
    PROVE  x = p * (x \div p) + (x % p) /\ x % p \in 0 .. p - 1 /\ x \div p \in Nat
OBVIOUS

\* The quotient and the remainder of a multiple and a rest.
LEMMA Quotient ==
    ASSUME NEW p \in Nat \ {0}, NEW k \in Nat, NEW r \in 0 .. p - 1
    PROVE  (p * k + r) % p = r /\ (p * k + r) \div p = k
OBVIOUS

\* One period later the remainder is the same.
LEMMA OneMore ==
    ASSUME NEW p \in Nat \ {0}, NEW x \in Nat
    PROVE  (x + p) \div p = x \div p + 1 /\ (x + p) % p = x % p
<1> DEFINE k == x \div p
           r == x % p
<1>1. x = p * k + r /\ r \in 0 .. p - 1 /\ k \in Nat
    BY Division
<1> HIDE DEF k, r
<1>2. x + p = p * (k + 1) + r
    BY <1>1
<1>3. (p * (k + 1) + r) \div p = k + 1 /\ (p * (k + 1) + r) % p = r
    BY <1>1, Quotient
<1> QED
    BY <1>2, <1>3 DEF k, r

\* Two numbers of the same remainder are a period apart.
LEMMA Apart ==
    ASSUME NEW p \in Nat \ {0}, NEW x \in Nat, NEW y \in Nat, x % p = y % p, x < y
    PROVE  x + p <= y
<1> DEFINE k == x \div p
           l == y \div p
           r == x % p
<1>1. x = p * k + r /\ y = p * l + r /\ r \in Nat /\ k \in Nat /\ l \in Nat
    <2>1. x = p * k + (x % p) /\ x % p \in 0 .. p - 1 /\ k \in Nat
        BY Division
    <2>2. y = p * l + (y % p) /\ y % p \in 0 .. p - 1 /\ l \in Nat
        BY Division
    <2> HIDE DEF k, l
    <2> QED
        BY <2>1, <2>2
<1> HIDE DEF k, l, r
<1>2. p * k < p * l /\ p * k \in Nat /\ p * l \in Nat
    BY <1>1
<1>3. k < l
    BY <1>1, <1>2
<1>4. p * (k + 1) <= p * l
    BY <1>1, <1>3
<1>5. p * (k + 1) = p * k + p
    BY <1>1
<1> QED
    BY <1>1, <1>2, <1>4, <1>5

\* The first multiple after a number.
LEMMA Above ==
    ASSUME NEW p \in Nat \ {0}, NEW x \in Nat
    PROVE  (x \div p + 1) * p \in x + 1 .. x + p /\ ((x \div p + 1) * p) % p = 0
OBVIOUS

\* Two times of one grid are a period apart.
LEMMA Difference ==
    ASSUME NEW p \in Nat \ {0}, NEW s \in Nat, NEW x \in Nat, NEW y \in Nat, s <= x, s <= y,
           (x - s) % p = 0, (y - s) % p = 0, x < y
    PROVE  x + p <= y
<1>1. x - s \in Nat /\ y - s \in Nat /\ x - s < y - s
    OBVIOUS
<1>2. (x - s) + p <= y - s
    BY <1>1, Apart
<1> QED
    BY <1>1, <1>2

\* What is of the grid of a time of the grid is of the grid.
LEMMA RemainderSum ==
    ASSUME NEW p \in Nat \ {0}, NEW s \in Nat, NEW x \in Nat, NEW y \in Nat, s <= x, x <= y,
           (x - s) % p = 0, (y - x) % p = 0
    PROVE  (y - s) % p = 0
<1> DEFINE k == (x - s) \div p
           l == (y - x) \div p
<1>1. x - s \in Nat /\ y - x \in Nat
    OBVIOUS
<1>2. x - s = p * k + 0 /\ k \in Nat
    BY <1>1, Division
<1>3. y - x = p * l + 0 /\ l \in Nat
    BY <1>1, Division
<1> HIDE DEF k, l
<1>4. y - s = (x - s) + (y - x)
    OBVIOUS
<1>5. y - s = p * (k + l) + 0
    BY <1>2, <1>3, <1>4
<1> QED
    BY <1>2, <1>3, <1>5, Quotient

\* And two times of a grid are on each other's.
LEMMA Remainder ==
    ASSUME NEW p \in Nat \ {0}, NEW s \in Nat, NEW x \in Nat, NEW y \in Nat, s <= x, x <= y,
           (x - s) % p = 0, (y - s) % p = 0
    PROVE  (y - x) % p = 0
<1> DEFINE k == (x - s) \div p
           l == (y - s) \div p
<1>1. x - s \in Nat /\ y - s \in Nat
    OBVIOUS
<1>2. x - s = p * k + 0 /\ k \in Nat
    BY <1>1, Division
<1>3. y - s = p * l + 0 /\ l \in Nat
    BY <1>1, Division
<1> HIDE DEF k, l
<1>4. p * k <= p * l /\ p * l \in Nat /\ p * k \in Nat
    BY <1>2, <1>3
<1>5. k <= l
    BY <1>2, <1>3, <1>4
<1>6. l - k \in Nat /\ l - k + k = l
    BY <1>2, <1>3, <1>5
<1>7. p * (l - k) + p * k = p * l /\ p * (l - k) \in Nat
    BY <1>2, <1>3, <1>6
<1>8. y - x = p * (l - k) + 0
    BY <1>2, <1>3, <1>4, <1>7
<1> QED
    BY SMTT(30), <1>6, <1>8, Quotient

\* A set of naturals that is not empty has a least element.
LEMMA Least ==
    ASSUME NEW T, T \subseteq Nat, T # {}
    PROVE  \E x \in T : \A y \in T : x <= y
<1>1. PICK x \in T : \A y \in T : <<y, x>> \notin OpToRel(<, Nat)
    BY WFMin, NatLessThanWellFounded, Zenon
<1>2. \A y \in T : ~(y < x)
    BY <1>1 DEF OpToRel
<1> QED
    BY <1>2

\* What holds of a time when it holds of every later one, holds of every time.
LEMMA FromLater ==
    ASSUME NEW m \in Nat, NEW C, C \subseteq 0 .. m,
           \A t \in 0 .. m : (\A u \in t + 1 .. m : u \in C) => t \in C
    PROVE  C = 0 .. m
<1> DEFINE T == {k \in 0 .. m : m - k \notin C}
<1>1. ASSUME T # {} PROVE FALSE
    <2>1. T \subseteq Nat
        OBVIOUS
    <2>2. PICK k \in T : \A y \in T : k <= y
        BY <1>1, <2>1, Least, Zenon
    <2>3. k \in 0 .. m /\ m - k \in 0 .. m /\ m - k \notin C
        OBVIOUS
    <2>4. ASSUME NEW u \in (m - k) + 1 .. m PROVE u \in C
        <3>1. m - u \in 0 .. m /\ m - u < k /\ m - (m - u) = u
            BY <2>3
        <3>2. m - u \notin T
            BY <2>2, <3>1
        <3> QED
            BY <3>2
    <2> QED
        BY <2>4
<1>2. ASSUME NEW t \in 0 .. m PROVE t \in C
    <2>1. m - t \in 0 .. m /\ m - (m - t) = t
        OBVIOUS
    <2> QED
        BY <1>1
<1> QED
    BY <1>2

\* What is assumed of the constants, in one place.
LEMMA Consts ==
    ASSUME S!Sorts
    PROVE  Period \in Nat \ {0} /\ MaxTime \in Nat \ {0} /\ S!Time = 0 .. MaxTime + Period
           /\ MaxTime + Period \in Nat
BY DEF S!Sorts, S!Time

\* The next deadline is at most a period ahead.
LEMMA Ahead ==
    ASSUME Period \in Nat \ {0}, NEW v, NEW t \in Nat
    PROVE  S!NextAt(v, t) \in t + 1 .. t + Period
<1>1. (t \div Period + 1) * Period \in t + 1 .. t + Period
    BY Above
<1>2. t + Period \in t + 1 .. t + Period
    OBVIOUS
<1> QED
    BY <1>1, <1>2, Zenon DEF S!NextAt

----
\* The recursions of the deadlines up to a time, and of the first after it.
PassedFrom(v, f, till) ==
    f = [t \in S!Time |-> IF t > till THEN {} ELSE {t} \cup f[S!FollowedBy(v, t)]]
LaterFrom(v, f, till) ==
    f = [t \in S!Time |-> IF t > till THEN t ELSE f[S!FollowedBy(v, t)]]

\* In closed form.
Reached(v, t, u) == u = t \/ (u > t /\ IF v \in Crons THEN u % Period = 0 ELSE (u - t) % Period = 0)
PassedAt(v, t, till) == {u \in t .. till : Reached(v, t, u)}
LaterAt(v, t, till) ==
    IF t > till THEN t
    ELSE IF v \in Crons THEN (till \div Period + 1) * Period
    ELSE t + ((till - t) \div Period + 1) * Period

\* The deadlines taken one by one: the closed form satisfies the recursion.
LEMMA PassedNext ==
    ASSUME S!Sorts, NEW till \in 0 .. MaxTime, NEW v, NEW t \in S!Time, t <= till
    PROVE  S!NextAt(v, t) \in S!Time /\ PassedAt(v, t, till) = {t} \cup PassedAt(v, S!NextAt(v, t), till)
<1> DEFINE n == S!NextAt(v, t)
<1>1. Period \in Nat \ {0} /\ MaxTime \in Nat /\ till \in Nat /\ t \in Nat
    BY Consts
<1>2. n \in t + 1 .. t + Period /\ n \in S!Time
    BY Ahead, Consts
<1>3. ASSUME NEW u \in t + 1 .. till
      PROVE  Reached(v, t, u) <=> u >= n /\ Reached(v, n, u)
    <2>1. CASE v \in Crons
        <3>1. n % Period = 0 /\ n \in Nat /\ u \in Nat
            <4>1. n = (t \div Period + 1) * Period
                BY <2>1 DEF S!NextAt
            <4>2. ((t \div Period + 1) * Period) % Period = 0
                BY <1>1
            <4> HIDE DEF n
            <4> QED
                BY <1>1, <4>1, <4>2
        <3>2. u % Period = 0 => u >= n
            BY <1>1, <1>2, <3>1, Apart
        <3> HIDE DEF n
        <3> QED
            BY <1>2, <2>1, <3>1, <3>2 DEF Reached
    <2>2. CASE v \notin Crons
        <3>1. n = t + Period
            BY <2>2 DEF S!NextAt
        <3> HIDE DEF n
        <3>2. u - t \in Nat /\ 0 % Period = 0 /\ u - t > 0
            BY <1>1
        <3>3. (u - t) % Period = 0 => u - t >= Period
            BY <1>1, Apart
        <3>4. ASSUME u >= n PROVE (u - t) % Period = (u - n) % Period
            <4>1. u - n \in Nat /\ (u - n) + Period = u - t
                BY <1>1, <3>1, <3>4
            <4> QED
                BY <1>1, <4>1, OneMore
        <3>5. (n - t) % Period = 0
            <4>1. n - t = 0 + Period
                BY <1>1, <3>1
            <4> QED
                BY <1>1, <4>1, OneMore
        <3> QED
            BY <1>1, <1>2, <2>2, <3>1, <3>2, <3>3, <3>4, <3>5 DEF Reached
    <2> QED
        BY <2>1, <2>2
<1> HIDE DEF n
<1>4. Reached(v, t, t)
    BY DEF Reached
<1>5. \A u \in t .. till : u = t \/ u \in t + 1 .. till
    BY <1>1
<1>6. \A u \in n .. till : u \in t + 1 .. till /\ u \in t .. till /\ u >= n
    BY <1>2
<1>7. \A u \in t + 1 .. till : u >= n => u \in n .. till
    OBVIOUS
<1>8. t \in t .. till
    BY <1>1
<1>9. PassedAt(v, t, till) = {t} \cup PassedAt(v, n, till)
    BY <1>3, <1>4, <1>5, <1>6, <1>7, <1>8 DEF PassedAt
<1> QED
    BY <1>2, <1>9 DEF n

\* The same of the first deadline after it.
LEMMA LaterNext ==
    ASSUME S!Sorts, NEW till \in 0 .. MaxTime, NEW v, NEW t \in S!Time, t <= till
    PROVE  LaterAt(v, t, till) = LaterAt(v, S!NextAt(v, t), till)
<1> DEFINE n == S!NextAt(v, t)
<1>1. Period \in Nat \ {0} /\ MaxTime \in Nat /\ till \in Nat /\ t \in Nat
    BY Consts
<1>2. n \in t + 1 .. t + Period
    BY <1>1, Ahead
<1>3. CASE v \in Crons /\ n <= till
    BY <1>1, <1>2, <1>3 DEF LaterAt
<1>4. CASE v \in Crons /\ n > till
    <2> DEFINE m == (till \div Period + 1) * Period
    <2>1. m \in till + 1 .. till + Period /\ m % Period = 0
        BY <1>1
    <2>2. n % Period = 0
        <3>1. n = (t \div Period + 1) * Period
            BY <1>4 DEF S!NextAt
        <3>2. ((t \div Period + 1) * Period) % Period = 0
            BY <1>1
        <3> HIDE DEF n
        <3> QED
            BY <3>1, <3>2
    <2> HIDE DEF m, n
    <2>3. n <= till + Period /\ n \in Nat /\ m \in Nat
        BY <1>1, <1>2, <2>1
    <2>4. n < m => n + Period <= m
        BY <1>1, <2>1, <2>2, <2>3, Apart
    <2>5. m < n => m + Period <= n
        BY <1>1, <2>1, <2>2, <2>3, Apart
    <2>6. m = n
        BY <1>1, <1>4, <2>1, <2>3, <2>4, <2>5
    <2>7. LaterAt(v, t, till) = m /\ LaterAt(v, n, till) = n
        BY <1>1, <1>4 DEF LaterAt, m
    <2> QED
        BY <2>6, <2>7 DEF n
<1>5. CASE v \notin Crons
    <2>1. n = t + Period
        BY <1>5 DEF S!NextAt
    <2> HIDE DEF n
    <2>2. CASE n > till
        <3>1. (till - t) \in 0 .. Period - 1 /\ till - t = Period * 0 + (till - t)
            BY <1>1, <2>1, <2>2
        <3>2. (till - t) \div Period = 0
            BY <1>1, <3>1, Quotient
        <3>3. LaterAt(v, t, till) = t + (0 + 1) * Period
            BY <1>1, <1>5, <3>2 DEF LaterAt
        <3> QED
            BY <1>1, <2>1, <2>2, <3>3 DEF LaterAt, n
    <2>3. CASE n <= till
        <3> DEFINE k == (till - n) \div Period
        <3>1. till - n \in Nat /\ (till - n) + Period = till - t
            BY <1>1, <2>1, <2>3
        <3>2. k \in Nat /\ (till - t) \div Period = k + 1
            BY <1>1, <3>1, OneMore, Division
        <3>3. LaterAt(v, t, till) = t + ((k + 1) + 1) * Period /\ LaterAt(v, n, till) = n + (k + 1) * Period
            BY <1>1, <1>2, <1>5, <2>1, <2>3, <3>2 DEF LaterAt
        <3> HIDE DEF k
        <3>4. t + ((k + 1) + 1) * Period = (t + Period) + (k + 1) * Period
            BY <1>1, <3>2
        <3> QED
            BY <2>1, <3>3, <3>4 DEF n
    <2> QED
        BY <1>2, <2>2, <2>3
<1> QED
    BY <1>2, <1>3, <1>4, <1>5

\* The recursions are what their closed forms are: any function that satisfies one is its
\* closed form, by induction from the last time.
LEMMA PassedIs ==
    ASSUME S!Sorts, NEW till \in 0 .. MaxTime, NEW v, NEW first \in S!Time
    PROVE  S!Passed(v, first, till) = PassedAt(v, first, till)
<1> DEFINE w == [t \in S!Time |-> PassedAt(v, t, till)]
           due == CHOOSE f : PassedFrom(v, f, till)
           m == MaxTime + Period
<1>1. Period \in Nat \ {0} /\ MaxTime \in Nat /\ till \in Nat /\ S!Time = 0 .. m /\ m \in Nat
    BY Consts
<1>2. PassedFrom(v, w, till)
    <2>1. ASSUME NEW t \in S!Time
          PROVE  w[t] = IF t > till THEN {} ELSE {t} \cup w[S!FollowedBy(v, t)]
        <3>1. CASE t > till
            BY <1>1, <3>1 DEF PassedAt
        <3>2. CASE t <= till
            BY <3>2, <2>1, <1>1, PassedNext DEF S!FollowedBy
        <3> QED
            BY <1>1, <3>1, <3>2
    <2> QED
        BY <2>1 DEF PassedFrom
<1>3. PassedFrom(v, due, till)
    BY <1>2
<1>4. S!Passed(v, first, till) = due[first]
    BY DEF S!Passed, PassedFrom
<1> HIDE DEF due, w
<1> DEFINE C == {t \in 0 .. m : due[t] = PassedAt(v, t, till)}
<1>5. ASSUME NEW t \in 0 .. m, \A u \in t + 1 .. m : u \in C
      PROVE  t \in C
    <2>1. due[t] = IF t > till THEN {} ELSE {t} \cup due[S!NextAt(v, t)]
        BY <1>1, <1>3 DEF PassedFrom, S!FollowedBy
    <2>2. CASE t > till
        BY <2>1, <2>2 DEF PassedAt
    <2>3. CASE t <= till
        <3>1. S!NextAt(v, t) \in t + 1 .. m
            BY <1>1, <2>3, Ahead, PassedNext
        <3>2. due[S!NextAt(v, t)] = PassedAt(v, S!NextAt(v, t), till)
            BY <3>1, <1>5
        <3> QED
            <4>1. PassedAt(v, t, till) = {t} \cup PassedAt(v, S!NextAt(v, t), till)
                BY <1>1, <2>3, PassedNext
            <4>2. due[t] = {t} \cup due[S!NextAt(v, t)]
                BY <2>1, <2>3
            <4> QED
                BY <3>2, <4>1, <4>2, Zenon
    <2> QED
        BY <2>2, <2>3
<1>6. C = 0 .. m
    BY <1>1, <1>5, FromLater
<1> QED
    BY <1>1, <1>4, <1>6

\* The same of the first deadline after it.
LEMMA LaterIs ==
    ASSUME S!Sorts, NEW till \in 0 .. MaxTime, NEW v, NEW first \in S!Time
    PROVE  S!Later(v, first, till) = LaterAt(v, first, till)
<1> DEFINE w == [t \in S!Time |-> LaterAt(v, t, till)]
           next == CHOOSE f : LaterFrom(v, f, till)
           m == MaxTime + Period
<1>1. Period \in Nat \ {0} /\ MaxTime \in Nat /\ till \in Nat /\ S!Time = 0 .. m /\ m \in Nat
    BY Consts
<1>2. LaterFrom(v, w, till)
    <2>1. ASSUME NEW t \in S!Time
          PROVE  w[t] = IF t > till THEN t ELSE w[S!FollowedBy(v, t)]
        <3>1. CASE t > till
            BY <3>1 DEF LaterAt
        <3>2. CASE t <= till
            BY <3>2, <2>1, <1>1, PassedNext, LaterNext DEF S!FollowedBy
        <3> QED
            BY <1>1, <3>1, <3>2
    <2> QED
        BY <2>1 DEF LaterFrom
<1>3. LaterFrom(v, next, till)
    BY <1>2
<1>4. S!Later(v, first, till) = next[first]
    BY DEF S!Later, LaterFrom
<1> HIDE DEF next, w
<1> DEFINE C == {t \in 0 .. m : next[t] = LaterAt(v, t, till)}
<1>5. ASSUME NEW t \in 0 .. m, \A u \in t + 1 .. m : u \in C
      PROVE  t \in C
    <2>1. next[t] = IF t > till THEN t ELSE next[S!NextAt(v, t)]
        BY <1>1, <1>3 DEF LaterFrom, S!FollowedBy
    <2>2. CASE t > till
        BY <2>1, <2>2 DEF LaterAt
    <2>3. CASE t <= till
        <3>1. S!NextAt(v, t) \in t + 1 .. m
            BY <1>1, <2>3, Ahead, PassedNext
        <3>2. next[S!NextAt(v, t)] = LaterAt(v, S!NextAt(v, t), till)
            BY <3>1, <1>5
        <3> QED
            BY <1>1, <2>1, <2>3, <3>2, LaterNext
    <2> QED
        BY <2>2, <2>3
<1>6. C = 0 .. m
    BY <1>1, <1>5, FromLater
<1> QED
    BY <1>1, <1>4, <1>6

\* A deadline, and the grid of a rule that is counted from s.
Grid(v, s, t) == t > s /\ (IF v \in Crons THEN t ELSE t - s) % Period = 0

\* Every time of the grid from a deadline on, up to that time, is one of them.
LEMMA GridPassed ==
    ASSUME S!Sorts, NEW till \in 0 .. MaxTime, NEW v, NEW s \in Nat, NEW first \in S!Time,
           Grid(v, s, first), NEW t \in S!Time, Grid(v, s, t), t >= first, t <= till
    PROVE  t \in S!Passed(v, first, till)
<1>1. Period \in Nat \ {0} /\ till \in Nat /\ first \in Nat /\ t \in Nat
    BY Consts
<1>2. CASE t = first
    BY <1>1, <1>2, PassedIs DEF PassedAt, Reached
<1>3. CASE t > first /\ v \in Crons
    BY <1>1, <1>3, PassedIs DEF PassedAt, Reached, Grid
<1>4. CASE t > first /\ v \notin Crons
    <2>1. (t - s) % Period = 0 /\ (first - s) % Period = 0 /\ t - s \in Nat /\ first - s \in Nat
        BY <1>1, <1>4 DEF Grid
    <2>2. (t - first) % Period = 0
        <3>1. s <= first /\ first <= t
            BY <1>1, <1>4 DEF Grid
        <3> QED
            BY <1>1, <2>1, <3>1, Remainder
    <2> QED
        BY <1>1, <1>4, <2>2, PassedIs DEF PassedAt, Reached
<1> QED
    BY <1>1, <1>2, <1>3, <1>4

\* Each lies between the deadline and that time.
LEMMA PassedBounds ==
    ASSUME S!Sorts, NEW till \in 0 .. MaxTime, NEW v, NEW first \in S!Time, NEW t \in S!Passed(v, first, till)
    PROVE  t >= first /\ t <= till
<1> QED
    BY PassedIs DEF PassedAt

\* The first deadline after it is of the grid, and none is between.
LEMMA GridLater ==
    ASSUME S!Sorts, NEW till \in 0 .. MaxTime, NEW v, NEW s \in Nat, NEW first \in S!Time,
           Grid(v, s, first)
    PROVE  /\ S!Later(v, first, till) \in S!Time /\ S!Later(v, first, till) > till
           /\ S!Later(v, first, till) >= first /\ Grid(v, s, S!Later(v, first, till))
           /\ \A t \in S!Time : Grid(v, s, t) /\ t < S!Later(v, first, till) => t < first \/ t <= till
<1> DEFINE l == LaterAt(v, first, till)
<1>1. /\ Period \in Nat \ {0} /\ MaxTime \in Nat /\ till \in Nat /\ first \in Nat
      /\ S!Time = 0 .. MaxTime + Period
    BY Consts
<1>2. S!Later(v, first, till) = l
    BY LaterIs
<1>3. CASE first > till
    BY <1>1, <1>2, <1>3 DEF LaterAt
<1>4. CASE first <= till /\ v \in Crons
    <2>1. l = (till \div Period + 1) * Period
        BY <1>1, <1>4 DEF LaterAt
    <2>2. l \in till + 1 .. till + Period /\ l % Period = 0
        BY <1>1, <2>1, Above
    <2> HIDE DEF l
    <2>3. ASSUME NEW t \in S!Time, Grid(v, s, t), t < l PROVE t <= till
        <3>1. t + Period <= l
            <4>1. t % Period = l % Period /\ t \in Nat /\ l \in Nat
                BY <1>1, <1>4, <2>2, <2>3 DEF Grid
            <4> QED
                BY <1>1, <2>3, <4>1, Apart
        <3> QED
            BY <1>1, <2>2, <3>1
    <2>4. l \in S!Time /\ l > till /\ l >= first
        BY <1>1, <1>4, <2>2
    <2>5. Grid(v, s, l)
        BY <1>1, <1>4, <2>2, <2>4 DEF Grid
    <2> QED
        BY <1>2, <2>3, <2>4, <2>5
<1>5. CASE first <= till /\ v \notin Crons
    <2> DEFINE k == (till - first) \div Period
    <2>1. l = first + (k + 1) * Period
        BY <1>1, <1>5 DEF LaterAt
    <2>2. till - first \in Nat
        BY <1>1, <1>5
    <2>3. (k + 1) * Period \in (till - first) + 1 .. (till - first) + Period
          /\ ((k + 1) * Period) % Period = 0
        BY <1>1, <2>2, Above
    <2> HIDE DEF l, k
    <2>4. l \in till + 1 .. till + Period /\ l - first = (k + 1) * Period
        <3> DEFINE d == (k + 1) * Period
        <3>1. d \in (till - first) + 1 .. (till - first) + Period /\ l = first + d
            BY <2>1, <2>3
        <3> HIDE DEF d
        <3>2. l \in till + 1 .. till + Period /\ l - first = d
            BY <1>1, <2>2, <3>1
        <3> QED
            BY <3>2 DEF d
    <2>5. first > s /\ (first - s) % Period = 0
        BY <1>5 DEF Grid
    <2>6. (l - s) % Period = 0
        <3>1. (l - first) % Period = 0 /\ s <= first /\ first <= l /\ l \in Nat
            BY <1>1, <1>5, <2>3, <2>4, <2>5
        <3> QED
            BY <1>1, <2>5, <3>1, RemainderSum
    <2>7. ASSUME NEW t \in S!Time, Grid(v, s, t), t < l PROVE t <= till
        <3>1. t + Period <= l
            BY SMTT(30), <1>1, <1>5, <2>4, <2>5, <2>6, <2>7, Difference DEF Grid
        <3> QED
            BY <1>1, <2>4, <3>1
    <2> QED
        <3>1. l \in S!Time /\ l > till /\ l >= first /\ Grid(v, s, l)
            BY <1>1, <1>5, <2>4, <2>5, <2>6 DEF Grid
        <3> QED
            BY <1>2, <2>7, <3>1
<1> QED
    BY <1>1, <1>3, <1>4, <1>5

\* The first deadline from now on is of the grid, and none is before.
LEMMA GridNext ==
    ASSUME S!Sorts, now \in 0 .. MaxTime, NEW v
    PROVE  /\ S!NextAt(v, now) \in S!Time /\ S!NextAt(v, now) > now
           /\ Grid(v, now, S!NextAt(v, now))
           /\ \A t \in S!Time : Grid(v, now, t) => t >= S!NextAt(v, now)
<1> DEFINE n == S!NextAt(v, now)
<1>1. /\ Period \in Nat \ {0} /\ MaxTime \in Nat /\ now \in Nat
      /\ S!Time = 0 .. MaxTime + Period
    BY Consts
<1>2. n \in now + 1 .. now + Period
    BY <1>1, Ahead
<1>3. Grid(v, now, n)
    <2>1. CASE v \in Crons
        <3>1. n = (now \div Period + 1) * Period
            BY <2>1 DEF S!NextAt
        <3>2. ((now \div Period + 1) * Period) % Period = 0
            BY <1>1
        <3> HIDE DEF n
        <3> QED
            BY <1>2, <2>1, <3>1, <3>2 DEF Grid
    <2>2. CASE v \notin Crons
        <3>1. n - now = Period /\ Period = Period * 1 + 0
            BY <1>1, <2>2 DEF S!NextAt
        <3>2. (n - now) % Period = 0
            BY <1>1, <3>1, Quotient
        <3> HIDE DEF n
        <3> QED
            BY <1>2, <2>2, <3>2 DEF Grid
    <2> QED
        BY <2>1, <2>2
<1> HIDE DEF n
<1>4. ASSUME NEW t \in S!Time, Grid(v, now, t), t < n PROVE FALSE
    <2>1. CASE v \in Crons
        <3>1. t + Period <= n
            <4>1. t % Period = n % Period /\ t \in Nat /\ n \in Nat
                BY <1>1, <1>2, <1>3, <1>4, <2>1 DEF Grid
            <4> QED
                BY <1>1, <1>4, <4>1, Apart
        <3> QED
            BY <1>1, <1>2, <1>4, <3>1 DEF Grid
    <2>2. CASE v \notin Crons
        <3>1. t + Period <= n
            BY <1>1, <1>2, <1>3, <1>4, <2>2, Difference DEF Grid
        <3> QED
            BY <1>1, <1>2, <1>4, <3>1 DEF Grid
    <2> QED
        BY <2>1, <2>2
<1> QED
    BY <1>1, <1>2, <1>3, <1>4 DEF n

\* execute is called for the targets of an occurrence when its row is written, and only then.
CalledOnce == called = [c \in S!Occurrences \X Targets |-> IF c[1] \in rows THEN 1 ELSE 0]
\* A service that is paused knows of no deadline.
Cleared == paused => \A r \in Rules : deadline[r].at = 0
\* What the service slept through lies before every deadline.
Backlog ==
    up /\ ~stop /\ ~paused =>
        \A r \in Rules, t \in away : t <= now /\ deadline[r].at # 0 => t < deadline[r].at

\* The inductive invariant of Schedule.
SchedInv == S!ScheduleTypes /\ CalledOnce /\ S!NoPeriodSkipped /\ Cleared /\ Backlog

\* A rule without a deadline.
LEMMA NoneOk ==
    ASSUME S!Sorts
    PROVE  S!None \in [of : Versions, at : S!Time] /\ S!None.at = 0
<1>1. (CHOOSE v \in Versions : TRUE) \in Versions
    BY DEF S!Sorts
<1>2. 0 \in S!Time
    BY Consts
<1> QED
    BY <1>1, <1>2 DEF S!None

\* What holds of a rule's deadline before the loop takes what has passed.
LEMMA SyncedOk ==
    ASSUME S!Sorts, S!ScheduleTypes, S!NoPeriodSkipped, NEW r \in Rules,
           NEW s, s = (IF S!Fresh(r) THEN now ELSE since[r])
    PROVE  /\ S!Synced(r) \in [of : Versions, at : S!Time] /\ s \in S!Time
           /\ rule[r].on => S!Synced(r).of = rule[r].of /\ S!Synced(r).at # 0
           /\ ~rule[r].on => S!Synced(r).at = 0
           /\ S!Synced(r).at # 0 =>
                /\ Grid(S!Synced(r).of, s, S!Synced(r).at)
                /\ \A t \in S!Time : Grid(S!Synced(r).of, s, t) /\ t < S!Synced(r).at
                                        => <<r, S!Synced(r).of, t>> \in started
           /\ rule[r].on /\ S!Fresh(r) => S!Synced(r).at > now
           /\ rule[r].on /\ ~S!Fresh(r) => S!Synced(r) = deadline[r]
<1>0. /\ now \in 0 .. MaxTime /\ now \in S!Time /\ rule[r] \in [on : BOOLEAN, of : Versions]
      /\ deadline[r] \in [of : Versions, at : S!Time] /\ since[r] \in S!Time /\ S!Time \subseteq Nat
    BY Consts DEF S!ScheduleTypes
<1>1. CASE ~rule[r].on
    BY <1>0, <1>1, NoneOk DEF S!Synced
<1>2. CASE rule[r].on /\ S!Fresh(r)
    <2> DEFINE v == rule[r].of
               n == S!NextAt(v, now)
    <2>1. S!Synced(r) = [of |-> v, at |-> n] /\ s = now
        BY <1>2 DEF S!Synced
    <2>2. v \in Versions
        BY <1>0
    <2> HIDE DEF v
    <2>3. n \in S!Time /\ n > now /\ Grid(v, now, n) /\ \A t \in S!Time : Grid(v, now, t) => t >= n
        BY <1>0, GridNext
    <2> HIDE DEF n
    <2>4. \A t \in S!Time : Grid(v, now, t) => ~(t < n)
        <3> TAKE t \in S!Time
        <3>1. t \in Nat /\ n \in Nat /\ (Grid(v, now, t) => t >= n)
            BY <1>0, <2>3
        <3> QED
            BY <3>1
    <2>5. n # 0
        BY <1>0, <2>3
    <2>6. S!Synced(r).of = v /\ S!Synced(r).at = n /\ v = rule[r].of
        BY <2>1 DEF v
    <2>7. S!Synced(r) \in [of : Versions, at : S!Time] /\ s \in S!Time
        BY <1>0, <2>1, <2>2, <2>3
    <2> QED
        BY <1>2, <2>1, <2>3, <2>4, <2>5, <2>6, <2>7
<1>3. CASE rule[r].on /\ ~S!Fresh(r)
    <2>1. S!Synced(r) = deadline[r] /\ s = since[r] /\ deadline[r].at # 0 /\ deadline[r].of = rule[r].of
        BY <1>3 DEF S!Synced, S!Fresh
    <2>2. S!DueAt(r, deadline[r].at)
          /\ \A t \in S!Time : S!DueAt(r, t) /\ t < deadline[r].at => <<r, deadline[r].of, t>> \in started
        BY <2>1 DEF S!NoPeriodSkipped
    <2>3. \A t : S!DueAt(r, t) <=> Grid(deadline[r].of, since[r], t)
        BY DEF S!DueAt, Grid
    <2> QED
        BY <1>0, <1>3, <2>1, <2>2, <2>3
<1> QED
    BY <1>1, <1>2, <1>3

\* The loop takes the deadlines of a rule up to upTo[r]: each is started, and the next one is
\* later and skips none.
LEMMA FireOk ==
    ASSUME S!Sorts, SchedInv, NEW upTo \in [Rules -> 0 .. now], S!Fire(upTo)
    PROVE  /\ waiting' \in [S!Occurrences -> Nat] /\ started' \subseteq S!Occurrences
           /\ deadline' \in [Rules -> [of : Versions, at : S!Time]] /\ since' \in [Rules -> S!Time]
           /\ S!NoPeriodSkipped'
           /\ \A o \in started' \ started : o[3] <= now /\ deadline[o[1]].at # 0 /\ o[3] >= deadline[o[1]].at
           /\ \A r \in Rules : deadline'[r].at # 0 =>
                 \/ deadline'[r].at > now
                 \/ deadline[r].at # 0 /\ deadline'[r].at >= deadline[r].at
<1> DEFINE due == {o \in S!Occurrences : rule[o[1]].on /\ o[2] = rule[o[1]].of
                                  /\ o[3] \in S!Passed(o[2], S!Synced(o[1]).at, upTo[o[1]])}
           Deadline(r) == IF rule[r].on
                          THEN [of |-> rule[r].of, at |-> S!Later(rule[r].of, S!Synced(r).at, upTo[r])]
                          ELSE S!Synced(r)
           Since(r) == IF S!Fresh(r) THEN now ELSE since[r]
<1>1. /\ waiting' = [o \in S!Occurrences |-> waiting[o] + IF o \in due THEN 1 ELSE 0]
      /\ started' = started \cup due
      /\ deadline' = [r \in Rules |-> Deadline(r)]
      /\ since' = [r \in Rules |-> Since(r)]
    BY DEF S!Fire
<1>2. /\ now \in 0 .. MaxTime /\ S!Time \subseteq Nat /\ S!NoPeriodSkipped
      /\ waiting \in [S!Occurrences -> Nat] /\ started \subseteq S!Occurrences
      /\ rule \in [Rules -> [on : BOOLEAN, of : Versions]]
      /\ deadline \in [Rules -> [of : Versions, at : S!Time]]
    BY Consts DEF SchedInv, S!ScheduleTypes
<1>3. waiting' \in [S!Occurrences -> Nat] /\ started' \subseteq S!Occurrences
    <2> HIDE DEF due
    <2>1. due \subseteq S!Occurrences
        BY DEF due
    <2> QED
        BY <1>1, <1>2, <2>1
<1>4. ASSUME NEW r \in Rules
      PROVE  /\ Deadline(r) \in [of : Versions, at : S!Time] /\ Since(r) \in S!Time
             /\ Deadline(r).at # 0 =>
                  /\ Grid(Deadline(r).of, Since(r), Deadline(r).at)
                  /\ \A t \in S!Time : Grid(Deadline(r).of, Since(r), t) /\ t < Deadline(r).at
                                         => <<r, Deadline(r).of, t>> \in started \cup due
                  /\ \/ Deadline(r).at > now
                     \/ deadline[r].at # 0 /\ Deadline(r).at >= deadline[r].at
    <2> DEFINE s == Since(r)
               y == S!Synced(r)
    <2>1. /\ y \in [of : Versions, at : S!Time] /\ s \in S!Time /\ s \in Nat
          /\ rule[r].on => y.of = rule[r].of /\ y.at # 0
          /\ ~rule[r].on => y.at = 0
          /\ y.at # 0 =>
                /\ Grid(y.of, s, y.at)
                /\ \A t \in S!Time : Grid(y.of, s, t) /\ t < y.at => <<r, y.of, t>> \in started
          /\ rule[r].on /\ S!Fresh(r) => y.at > now
          /\ rule[r].on /\ ~S!Fresh(r) => y = deadline[r]
        BY <1>2, SyncedOk DEF SchedInv
    <2>2. rule[r].of \in Versions /\ rule[r].on \in BOOLEAN
        BY <1>2
    <2> HIDE DEF s, y
    <2>3. CASE ~rule[r].on
        <3>1. Deadline(r) = y
            BY <2>3 DEF y
        <3> HIDE DEF Deadline, due
        <3> QED
            BY <2>1, <2>3, <3>1 DEF s
    <2>4. CASE rule[r].on
        <3> DEFINE v == rule[r].of
                   l == S!Later(v, y.at, upTo[r])
        <3>0. upTo[r] \in 0 .. MaxTime /\ upTo[r] <= now
            BY <1>2, Consts
        <3>1. Deadline(r) = [of |-> v, at |-> l]
            BY <2>4 DEF y
        <3>2. y.of = v /\ y.at # 0 /\ y.at \in S!Time /\ Grid(v, s, y.at)
            BY <2>1, <2>4
        <3> HIDE DEF v
        <3>3. /\ l \in S!Time /\ l >= y.at /\ Grid(v, s, l)
              /\ \A t \in S!Time : Grid(v, s, t) /\ t < l => t < y.at \/ t <= upTo[r]
            BY <2>1, <3>0, <3>2, GridLater
        <3> HIDE DEF l
        <3>4. ASSUME NEW t \in S!Time, Grid(v, s, t), t < l
              PROVE  <<r, v, t>> \in started \cup due
            <4>1. CASE t < y.at
                BY <2>1, <3>2, <3>4, <4>1
            <4>2. CASE ~(t < y.at)
                <5>1. t <= upTo[r] /\ t >= y.at
                    <6>1. t \in Nat /\ y.at \in Nat /\ (t < y.at \/ t <= upTo[r])
                        BY <1>2, <3>2, <3>3, <3>4
                    <6> QED
                        BY <4>2, <6>1
                <5>2. t \in S!Passed(v, y.at, upTo[r])
                    BY <2>1, <3>0, <3>2, <3>4, <5>1, GridPassed
                <5>3. <<r, v, t>> \in S!Occurrences
                    BY <2>2 DEF S!Occurrences, v
                <5>4. <<r, v, t>>[1] = r /\ <<r, v, t>>[2] = v /\ <<r, v, t>>[3] = t
                    OBVIOUS
                <5>5. <<r, v, t>> \in due
                    BY <2>4, <5>2, <5>3, <5>4 DEF v, y
                <5> QED
                    BY <5>5
            <4> QED
                BY <4>1, <4>2
        <3>5. Deadline(r) \in [of : Versions, at : S!Time] /\ Deadline(r).of = v /\ Deadline(r).at = l
            BY <2>2, <3>1, <3>3 DEF v
        <3> HIDE DEF Deadline, due
        <3>6. l > now \/ (deadline[r].at # 0 /\ l >= deadline[r].at)
            <4>1. l \in Nat /\ y.at \in Nat /\ now \in Nat
                BY <1>2, <2>1, <3>3, Consts
            <4>2. y.at > now \/ y = deadline[r]
                BY <2>1, <2>4
            <4> QED
                BY <3>2, <3>3, <4>1, <4>2
        <3> QED
            BY <2>1, <3>3, <3>4, <3>5, <3>6 DEF s
    <2> QED
        BY <2>3, <2>4
<1>5. ASSUME NEW o \in due
      PROVE  o[3] <= now /\ deadline[o[1]].at # 0 /\ o[3] >= deadline[o[1]].at
    <2> DEFINE r == o[1]
               y == S!Synced(r)
    <2>1. r \in Rules /\ rule[r].on /\ o[3] \in S!Passed(o[2], y.at, upTo[r])
        <3>1. o \in S!Occurrences /\ o[1] \in Rules
            BY DEF S!Occurrences
        <3> QED
            BY <3>1
    <2>2. /\ y.at \in S!Time /\ y.at # 0
          /\ S!Fresh(r) => y.at > now
          /\ ~S!Fresh(r) => y = deadline[r]
        <3> HIDE DEF r
        <3> QED
            BY <2>1, SyncedOk DEF SchedInv
    <2> HIDE DEF y
    <2>3. o[3] \in Nat
        BY <1>2 DEF S!Occurrences
    <2>4. o[3] >= y.at /\ o[3] <= now
        <3>1. upTo[r] \in 0 .. MaxTime /\ upTo[r] <= now
            BY <1>2, <2>1, Consts
        <3>2. o[3] >= y.at /\ o[3] <= upTo[r]
            BY <2>1, <2>2, <3>1, PassedBounds
        <3> QED
            BY <1>2, <2>3, <3>1, <3>2, Consts
    <2>5. ~S!Fresh(r)
        <3>1. y.at \in Nat /\ now \in Nat
            BY <1>2, <2>2, Consts
        <3> QED
            BY <2>2, <2>3, <2>4, <3>1
    <2> QED
        BY <2>2, <2>4, <2>5
<1> HIDE DEF due, Deadline, Since
<1>6. deadline' \in [Rules -> [of : Versions, at : S!Time]] /\ since' \in [Rules -> S!Time]
    BY <1>1, <1>4
<1>7. S!NoPeriodSkipped'
    <2>1. ASSUME NEW r \in Rules, deadline'[r].at # 0
          PROVE  /\ Grid(deadline'[r].of, since'[r], deadline'[r].at)
                 /\ \A t \in S!Time : Grid(deadline'[r].of, since'[r], t) /\ t < deadline'[r].at
                                        => <<r, deadline'[r].of, t>> \in started'
        <3>1. deadline'[r] = Deadline(r) /\ since'[r] = Since(r)
            BY <1>1
        <3> QED
            BY <1>1, <1>4, <2>1, <3>1
    <2>2. \A r, t : S!DueAt(r, t)' <=> Grid(deadline'[r].of, since'[r], t)
        BY DEF S!DueAt, Grid
    <2> QED
        BY <2>1, <2>2 DEF S!NoPeriodSkipped
<1>8. \A r \in Rules : deadline'[r].at # 0 =>
         \/ deadline'[r].at > now
         \/ deadline[r].at # 0 /\ deadline'[r].at >= deadline[r].at
    BY <1>1, <1>4
<1> QED
    BY <1>1, <1>3, <1>5, <1>6, <1>7, <1>8

\* One task less.
LEMMA LessOk ==
    ASSUME NEW T \in [S!Occurrences -> Nat], NEW o \in S!Occurrences, T[o] > 0
    PROVE  S!Less(T, o) \in [S!Occurrences -> Nat]
<1> QED
    BY DEF S!Less

\* What the loop takes when it wakes, of all rules or of some.
LEMMA Firings ==
    ASSUME S!Sorts, SchedInv, S!Wake \/ S!WakeFails
    PROVE  \E upTo \in [Rules -> 0 .. now] : S!Fire(upTo)
<1>0. now \in Nat
    BY DEF SchedInv, S!ScheduleTypes, S!Sorts
<1>1. CASE S!Wake
    <2>1. [r \in Rules |-> now] \in [Rules -> 0 .. now]
        BY <1>0
    <2> QED
        BY <1>1, <2>1, Zenon DEF S!Wake
<1>2. CASE S!WakeFails
    <2>1. PICK R \in SUBSET Rules, q \in Rules, t \in 0 .. now :
             S!Fire([r \in Rules |-> IF r = q THEN t ELSE IF r \in R THEN now ELSE 0])
        BY <1>2, Zenon DEF S!WakeFails
    <2>2. [r \in Rules |-> IF r = q THEN t ELSE IF r \in R THEN now ELSE 0] \in [Rules -> 0 .. now]
        BY <1>0
    <2> QED
        BY <2>1, <2>2, Zenon
<1> QED
    BY <1>1, <1>2

\* What a step may do to the clock, the switches and the deadlines.
LEMMA Turns ==
    ASSUME S!Sorts, SchedInv, [S!Next]_S!vars
    PROVE  \/ S!Tick
           \/ S!SetBack
           \/ deadline' = [r \in Rules |-> S!None] /\ UNCHANGED <<now, away, since, started>>
           \/ /\ up /\ ~stop /\ ~paused /\ UNCHANGED <<now, away, up, stop, paused>>
              /\ \E upTo \in [Rules -> 0 .. now] : S!Fire(upTo)
           \/ /\ UNCHANGED <<now, away, deadline, since, started>>
              /\ (paused' => paused) /\ (up' => up) /\ (stop => stop')
<1>1. CASE S!Wake \/ S!WakeFails
    BY <1>1, Firings DEF S!Wake, S!WakeFails, S!Fire, S!clock, S!process
<1>2. CASE S!Start \/ S!Pause \/ S!WakePaused
    BY <1>2 DEF S!Start, S!Pause, S!WakePaused, S!clock, S!tasks
<1>3. CASE S!Crash \/ S!AskToStop \/ S!Shutdown \/ S!Stopped \/ S!Resume \/ (\E r \in Rules : S!Edit(r))
    BY <1>3 DEF S!Crash, S!AskToStop, S!Shutdown, S!Stopped, S!Resume, S!Edit, S!Forget,
        S!clock, S!process, S!plan, S!tasks
<1>4. CASE \E o \in S!Occurrences : S!Occur(o) \/ S!Reserve(o) \/ S!ReserveFails(o)
    BY <1>4 DEF S!Occur, S!Reserve, S!ReserveFails, S!clock, S!process, S!plan
<1>5. CASE \E c \in calls : S!Enter(c) \/ S!Create(c) \/ S!CreateFails(c)
    BY <1>5 DEF S!Enter, S!Create, S!CreateFails, S!clock, S!process, S!plan
<1>6. CASE UNCHANGED S!vars
    BY <1>6 DEF S!vars, S!clock, S!process, S!plan, S!tasks
<1> QED
    BY <1>1, <1>2, <1>3, <1>4, <1>5, <1>6 DEF S!Next, S!Task

\* Every step keeps the clock and the deadlines in their ranges.
LEMMA NextPlan ==
    ASSUME S!Sorts, SchedInv, [S!Next]_S!vars
    PROVE  /\ now' \in 0 .. MaxTime /\ away' \subseteq 0 .. MaxTime
           /\ deadline' \in [Rules -> [of : Versions, at : S!Time]] /\ since' \in [Rules -> S!Time]
           /\ started' \subseteq S!Occurrences
<1>0. /\ now \in 0 .. MaxTime /\ away \subseteq 0 .. MaxTime
      /\ deadline \in [Rules -> [of : Versions, at : S!Time]] /\ since \in [Rules -> S!Time]
      /\ started \subseteq S!Occurrences /\ MaxTime \in Nat
    BY DEF SchedInv, S!ScheduleTypes, S!Sorts
<1>1. CASE S!Tick
    <2>1. now + 1 \in 0 .. MaxTime
        BY <1>0, <1>1 DEF S!Tick
    <2> QED
        BY <1>0, <1>1, <2>1 DEF S!Tick, S!plan, S!tasks
<1>2. CASE S!SetBack
    <2>1. now - 1 \in 0 .. MaxTime
        BY <1>0, <1>2 DEF S!SetBack
    <2> QED
        BY <1>0, <1>2, <2>1 DEF S!SetBack, S!plan, S!tasks
<1>3. CASE deadline' = [r \in Rules |-> S!None] /\ UNCHANGED <<now, away, since, started>>
    BY <1>0, <1>3, NoneOk
<1>4. ASSUME NEW upTo \in [Rules -> 0 .. now], S!Fire(upTo), UNCHANGED <<now, away>>
      PROVE  /\ now' \in 0 .. MaxTime /\ away' \subseteq 0 .. MaxTime
             /\ deadline' \in [Rules -> [of : Versions, at : S!Time]] /\ since' \in [Rules -> S!Time]
             /\ started' \subseteq S!Occurrences
    BY <1>0, <1>4, FireOk
<1>5. CASE UNCHANGED <<now, away, deadline, since, started>>
    BY <1>0, <1>5
<1> QED
    BY <1>1, <1>2, <1>3, <1>4, <1>5, Turns

\* Every step keeps the tasks, the calls and the tables in their ranges.
LEMMA NextTasks ==
    ASSUME S!Sorts, SchedInv, [S!Next]_S!vars
    PROVE  /\ waiting' \in [S!Occurrences -> Nat] /\ asking' \in [S!Occurrences -> Nat]
           /\ calls' \subseteq S!Occurrences \X Targets \X {"called", "checked"}
           /\ called' \in [S!Occurrences \X Targets -> Nat] /\ rows' \subseteq S!Occurrences
           /\ roots' \subseteq S!Occurrences \X Targets /\ lost' \subseteq S!Occurrences \X Targets
<1> DEFINE Ok(w, a, cs, n, rs, as, ls) ==
               /\ w \in [S!Occurrences -> Nat] /\ a \in [S!Occurrences -> Nat]
               /\ cs \subseteq S!Occurrences \X Targets \X {"called", "checked"}
               /\ n \in [S!Occurrences \X Targets -> Nat] /\ rs \subseteq S!Occurrences
               /\ as \subseteq S!Occurrences \X Targets /\ ls \subseteq S!Occurrences \X Targets
           OkNext == Ok(waiting', asking', calls', called', rows', roots', lost')
<1> SUFFICES OkNext
    OBVIOUS
<1>0. Ok(waiting, asking, calls, called, rows, roots, lost)
    BY DEF SchedInv, S!ScheduleTypes
<1>1. CASE UNCHANGED <<waiting, asking, calls, called, rows, roots, lost>>
    BY <1>0, <1>1
<1>2. CASE S!Forget /\ UNCHANGED <<rows, roots>>
    <2>1. lost' \subseteq S!Occurrences \X Targets
        <3>1. \A c \in calls : <<c[1], c[2]>> \in S!Occurrences \X Targets
            BY <1>0
        <3> QED
            BY <1>0, <1>2, <3>1 DEF S!Forget, S!Loses
    <2>2. S!NoTasks \in [S!Occurrences -> Nat]
        BY DEF S!NoTasks
    <2> QED
        BY <1>0, <1>2, <2>1, <2>2 DEF S!Forget
<1>3. ASSUME NEW upTo \in [Rules -> 0 .. now], S!Fire(upTo)
      PROVE  OkNext
    BY <1>0, <1>3, FireOk DEF S!Fire, S!tables
<1>4. ASSUME NEW o \in S!Occurrences, S!Occur(o)
      PROVE  OkNext
    <2>1. S!Less(waiting, o) \in [S!Occurrences -> Nat]
        BY <1>0, <1>4, LessOk DEF S!Occur
    <2>2. [asking EXCEPT ![o] = @ + 1] \in [S!Occurrences -> Nat]
        BY <1>0
    <2>3. {o} \X Targets \subseteq S!Occurrences \X Targets
        OBVIOUS
    <2> QED
        BY <1>0, <1>4, <2>1, <2>2, <2>3 DEF S!Occur, S!tables, S!Loses
<1>5. ASSUME NEW o \in S!Occurrences, S!Reserve(o)
      PROVE  OkNext
    <2>1. S!Less(asking, o) \in [S!Occurrences -> Nat]
        BY <1>0, <1>5, LessOk DEF S!Reserve
    <2>2. calls \cup {<<o, x, "called">> : x \in Targets} \subseteq S!Occurrences \X Targets \X {"called", "checked"}
        BY <1>0
    <2>3. [c \in DOMAIN called |-> called[c] + IF c[1] = o THEN 1 ELSE 0] \in [S!Occurrences \X Targets -> Nat]
        BY <1>0
    <2> QED
        BY <1>0, <1>5, <2>1, <2>2, <2>3 DEF S!Reserve
<1>6. ASSUME NEW o \in S!Occurrences, S!ReserveFails(o)
      PROVE  OkNext
    <2>1. S!Less(asking, o) \in [S!Occurrences -> Nat]
        BY <1>0, <1>6, LessOk DEF S!ReserveFails
    <2>2. {o} \X Targets \subseteq S!Occurrences \X Targets
        OBVIOUS
    <2> QED
        BY <1>0, <1>6, <2>1, <2>2 DEF S!ReserveFails, S!tables, S!Loses
<1>7. ASSUME NEW c \in calls, S!Enter(c) \/ S!Create(c) \/ S!CreateFails(c)
      PROVE  OkNext
    <2>1. /\ <<c[1], c[2]>> \in S!Occurrences \X Targets
          /\ <<c[1], c[2], "checked">> \in S!Occurrences \X Targets \X {"called", "checked"}
        BY <1>0
    <2> QED
        BY <1>0, <1>7, <2>1 DEF S!Enter, S!Create, S!CreateFails, S!tables, S!Loses
<1> QED
    <2> HIDE DEF Ok, OkNext
    <2>1. CASE S!Wake \/ S!WakeFails
        <3>1. PICK upTo \in [Rules -> 0 .. now] : S!Fire(upTo)
            BY <2>1, Firings
        <3> QED
            BY <1>3, <3>1
    <2>2. CASE \/ S!Tick \/ S!SetBack \/ S!Start \/ S!AskToStop \/ S!Shutdown \/ S!Stopped
               \/ S!Pause \/ S!Resume \/ (\E r \in Rules : S!Edit(r)) \/ S!WakePaused \/ UNCHANGED S!vars
        BY <1>1, <2>2 DEF S!Tick, S!SetBack, S!Start, S!AskToStop, S!Shutdown, S!Stopped,
            S!Pause, S!Resume, S!Edit, S!WakePaused, S!tasks, S!tables, S!vars
    <2>3. CASE S!Crash
        BY <1>2, <2>3 DEF S!Crash, S!tables
    <2> QED
        BY <1>4, <1>5, <1>6, <1>7, <2>1, <2>2, <2>3 DEF S!Next, S!Task

\* Every step keeps the types.
LEMMA NextTypes ==
    ASSUME S!Sorts, SchedInv, [S!Next]_S!vars
    PROVE  S!ScheduleTypes'
<1>1. {up', paused', stop', shut'} \subseteq BOOLEAN /\ rule' \in [Rules -> [on : BOOLEAN, of : Versions]]
    <2>0. {up, paused, stop, shut} \subseteq BOOLEAN /\ rule \in [Rules -> [on : BOOLEAN, of : Versions]]
        BY DEF SchedInv, S!ScheduleTypes
    <2>1. CASE \E r \in Rules : S!Edit(r)
        BY <2>0, <2>1 DEF S!Edit, S!process
    <2>2. CASE UNCHANGED <<S!process, rule>>
        BY <2>0, <2>2 DEF S!process
    <2>3. CASE S!Start \/ S!Crash \/ S!AskToStop \/ S!Shutdown \/ S!Stopped \/ S!Pause \/ S!Resume
        BY <2>0, <2>3 DEF S!Start, S!Crash, S!AskToStop, S!Shutdown, S!Stopped, S!Pause,
            S!Resume, S!plan
    <2>4. CASE S!Tick \/ S!SetBack \/ S!Wake \/ S!WakeFails \/ S!WakePaused \/ UNCHANGED S!vars
        BY <2>2, <2>4 DEF S!Tick, S!SetBack, S!Wake, S!WakeFails, S!WakePaused, S!Fire,
            S!vars, S!plan
    <2>5. CASE \/ \E o \in S!Occurrences : S!Occur(o) \/ S!Reserve(o) \/ S!ReserveFails(o)
               \/ \E c \in calls : S!Enter(c) \/ S!Create(c) \/ S!CreateFails(c)
        BY <2>2, <2>5 DEF S!Occur, S!Reserve, S!ReserveFails, S!Enter, S!Create,
            S!CreateFails, S!plan
    <2> QED
        BY <2>1, <2>3, <2>4, <2>5 DEF S!Next, S!Task
<1> QED
    BY <1>1, NextPlan, NextTasks DEF S!ScheduleTypes

\* Every step calls the targets of an occurrence only when it writes its row.
LEMMA NextCounted ==
    ASSUME S!Sorts, SchedInv, [S!Next]_S!vars
    PROVE  CalledOnce'
<1>1. ASSUME NEW o \in S!Occurrences, S!Reserve(o)
      PROVE  CalledOnce'
    <2> DEFINE C == S!Occurrences \X Targets
    <2>1. /\ called = [c \in C |-> IF c[1] \in rows THEN 1 ELSE 0]
          /\ rows' = rows \cup {o}
          /\ o \notin rows => called' = [c \in C |-> called[c] + IF c[1] = o THEN 1 ELSE 0]
          /\ o \in rows => called' = called
        BY <1>1 DEF SchedInv, CalledOnce, S!Reserve, S!New
    <2> HIDE DEF C
    <2>2. CASE o \in rows
        BY <2>1, <2>2 DEF CalledOnce, C
    <2>3. CASE o \notin rows
        <3>1. \A c \in C : called'[c] = IF c[1] \in rows' THEN 1 ELSE 0
            BY <2>1
        <3>2. called' = [c \in C |-> called'[c]]
            BY <2>1
        <3> QED
            BY <3>1, <3>2, Zenon DEF CalledOnce, C
    <2> QED
        BY <2>2, <2>3
<1>2. UNCHANGED <<called, rows>> \/ \E o \in S!Occurrences : S!Reserve(o)
    BY DEF S!Next, S!Task, S!vars, S!tasks, S!tables, S!Forget, S!Fire, S!Tick, S!SetBack,
        S!Start, S!Crash, S!AskToStop, S!Shutdown, S!Stopped, S!Pause, S!Resume, S!Edit,
        S!Wake, S!WakeFails, S!WakePaused, S!Occur, S!Reserve, S!ReserveFails, S!Enter,
        S!Create, S!CreateFails
<1> QED
    BY <1>1, <1>2 DEF SchedInv, CalledOnce

\* No step skips a deadline while the loop runs.
LEMMA NextPeriods ==
    ASSUME S!Sorts, SchedInv, [S!Next]_S!vars
    PROVE  S!NoPeriodSkipped'
<1>1. CASE deadline' = [r \in Rules |-> S!None]
    BY <1>1, NoneOk DEF S!NoPeriodSkipped
<1>2. CASE UNCHANGED <<deadline, since, started>>
    BY <1>2 DEF SchedInv, S!NoPeriodSkipped, S!DueAt
<1>3. ASSUME NEW upTo \in [Rules -> 0 .. now], S!Fire(upTo)
      PROVE  S!NoPeriodSkipped'
    BY <1>3, FireOk
<1> QED
    BY <1>1, <1>2, <1>3, Turns DEF S!Tick, S!SetBack, S!plan, S!tasks

\* Every step of a pause leaves no deadline.
LEMMA NextCleared ==
    ASSUME S!Sorts, SchedInv, [S!Next]_S!vars
    PROVE  Cleared'
<1>1. CASE deadline' = [r \in Rules |-> S!None]
    BY <1>1, NoneOk DEF Cleared
<1> QED
    BY <1>1, Turns DEF SchedInv, Cleared, S!Tick, S!SetBack, S!plan, S!process

\* Every step keeps what was slept through before the deadlines.
LEMMA NextBacklog ==
    ASSUME S!Sorts, SchedInv, [S!Next]_S!vars
    PROVE  Backlog'
<1>0. /\ now \in Nat /\ away \subseteq Nat /\ \A r \in Rules : deadline[r].at \in Nat
      /\ Backlog /\ Cleared
    BY Consts DEF SchedInv, S!ScheduleTypes
<1>1. CASE S!Tick
    <2>1. /\ now' = now + 1 /\ away' = (IF S!Idle THEN away \cup {now'} ELSE away \ {now'})
          /\ UNCHANGED <<up, stop, paused, deadline>>
        BY <1>1 DEF S!Tick, S!process, S!plan
    <2>2. CASE S!Idle
        BY <2>1, <2>2 DEF Backlog, S!Idle
    <2>3. CASE ~S!Idle
        <3> SUFFICES ASSUME NEW r \in Rules, NEW t \in away \ {now + 1}, t <= now + 1, deadline[r].at # 0
                     PROVE  t < deadline[r].at
            BY <2>1, <2>3 DEF Backlog
        <3>1. t <= now
            BY <1>0
        <3> QED
            BY <1>0, <2>3, <3>1 DEF Backlog, S!Idle
    <2> QED
        BY <2>2, <2>3
<1>2. CASE S!SetBack
    <2>1. now' = now - 1 /\ UNCHANGED <<away, up, stop, paused, deadline>>
        BY <1>2 DEF S!SetBack, S!process, S!plan
    <2>2. \A t \in away : t <= now - 1 => t <= now
        BY <1>0
    <2> QED
        BY <1>0, <2>1, <2>2 DEF Backlog
<1>3. CASE deadline' = [r \in Rules |-> S!None]
    BY <1>3, NoneOk DEF Backlog
<1>4. ASSUME up, ~stop, ~paused, UNCHANGED <<now, away, up, stop, paused>>,
             NEW upTo \in [Rules -> 0 .. now], S!Fire(upTo)
      PROVE  Backlog'
    <2> SUFFICES ASSUME NEW r \in Rules, NEW t \in away, t <= now, deadline'[r].at # 0
                 PROVE  t < deadline'[r].at
        BY <1>4, Zenon DEF Backlog
    <2>1. deadline'[r].at > now \/ (deadline[r].at # 0 /\ deadline'[r].at >= deadline[r].at)
        BY <1>4, FireOk
    <2>2. deadline'[r].at \in Nat
        BY Consts, NextPlan
    <2>3. CASE deadline'[r].at > now
        BY <1>0, <2>2, <2>3
    <2>4. CASE deadline[r].at # 0 /\ deadline'[r].at >= deadline[r].at
        <3>1. t < deadline[r].at
            BY <1>0, <1>4, <2>4 DEF Backlog
        <3> QED
            BY <1>0, <2>2, <2>4, <3>1
    <2> QED
        BY <2>1, <2>3, <2>4
<1>5. CASE /\ UNCHANGED <<now, away, deadline>> /\ (up' => up) /\ (stop => stop')
    BY <1>0, <1>5 DEF Backlog, Cleared
<1> QED
    BY <1>1, <1>2, <1>3, <1>4, <1>5, Turns

\* It holds at first.
LEMMA SchedInvInit ==
    ASSUME S!Sorts, S!Init
    PROVE  SchedInv
<1>1. 0 \in 0 .. MaxTime /\ 0 \in S!Time /\ S!Time \subseteq Nat
    BY Consts
<1>2. \A r \in Rules : deadline[r].at = 0
    BY NoneOk DEF S!Init
<1>3. S!ScheduleTypes
    BY <1>1, NoneOk DEF S!Init, S!ScheduleTypes, S!NoTasks
<1> QED
    BY <1>2, <1>3 DEF SchedInv, CalledOnce, Cleared, Backlog, S!NoPeriodSkipped, S!Init

\* Every step keeps it.
LEMMA SchedInvNext ==
    ASSUME S!Sorts, SchedInv, [S!Next]_S!vars
    PROVE  SchedInv'
BY NextTypes, NextCounted, NextPeriods, NextCleared, NextBacklog DEF SchedInv

\* Its sorts are those that are assumed.
LEMMA SortsGiven == S!Sorts
BY ScheduleAssumption DEF Sorts, S!Sorts

\* An occurrence calls each of its targets at most once, however often it is claimed, and
\* no deadline of a rule is passed over while the loop runs (scheduler.py,
\* claim_scheduled_occurrence).
THEOREM SchedulesKept == S!Spec => []ScheduleInv
<1>1. SchedInv => S!ScheduleInv
    <2>1. SchedInv => S!RunsOnce
        BY DEF SchedInv, CalledOnce, S!RunsOnce
    <2> QED
        BY <2>1 DEF SchedInv, S!ScheduleInv
<1>2. S!ScheduleInv => ScheduleInv
    BY Zenon DEF S!ScheduleInv, ScheduleInv, S!ScheduleTypes, ScheduleTypes,
        S!NoPeriodSkipped,
        NoPeriodSkipped, S!RunsOnce, RunsOnce, S!DueAt, DueAt, S!Time, Time, S!Occurrences,
        Occurrences
<1> QED
    BY <1>1, <1>2, SortsGiven, SchedInvInit, SchedInvNext, PTL DEF S!Spec

\* What came while the service was down or paused is not made up for: no occurrence of such
\* a time is started (scheduler.py).
THEOREM SleptIsNotRun == S!Spec => NoBackfill
<1>1. ASSUME SchedInv, [S!Next]_S!vars
      PROVE  [\A o \in started' \ started : o[3] \notin away]_started
    <2> SUFFICES ASSUME NEW o \in started' \ started
                 PROVE  o[3] \notin away
        OBVIOUS
    <2>0. S!Sorts
        BY SortsGiven
    <2>1. PICK upTo \in [Rules -> 0 .. now] : S!Fire(upTo) /\ up /\ ~stop /\ ~paused
        BY <1>1, <2>0, Turns DEF S!Tick, S!SetBack, S!tasks
    <2>2. /\ o \in S!Occurrences /\ o[3] <= now /\ deadline[o[1]].at # 0 /\ o[3] >= deadline[o[1]].at
        BY <1>1, <2>0, <2>1, FireOk
    <2>3. /\ o[1] \in Rules /\ o[3] \in Nat /\ deadline[o[1]].at \in Nat
        BY <1>1, <2>0, <2>2, Consts DEF SchedInv, S!ScheduleTypes, S!Occurrences
    <2> QED
        BY <1>1, <2>1, <2>2, <2>3 DEF SchedInv, Backlog
<1> QED
    BY <1>1, SortsGiven, SchedInvInit, SchedInvNext, PTL DEF S!Spec, NoBackfill
================================================================================
