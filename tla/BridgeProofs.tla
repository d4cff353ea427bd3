------------------------------ MODULE BridgeProofs ------------------------------
(***************************************************************************)
(* Proofs about Bridge, for any set of calls, any plan and any number of   *)
(* troubles.                                                               *)
(*                                                                         *)
(* NothingOutlives rests on the lives of the three processes (Lives) and   *)
(* on a call being claimed once (Once).  CITimeoutKept rests on who may be *)
(* behind a cancel (Blamed): once the run is past its watch, the broker    *)
(* cancels it by itself, but only when no CI wait has timed out or Codex   *)
(* had exited before its CI did.                                           *)
(*                                                                         *)
(* The second part is about ModelLoop, for any chains of models, sizes of  *)
(* rounds and summaries and bounds on the rounds, the requests, the calls  *)
(* of tools and the tries.                                                 *)
(***************************************************************************)
EXTENDS Bridge, ModelLoopState, SequenceTheorems, WellFoundedInduction, TLAPS

Living == {"new", "busy", "hung", "cancelled"}

\* A call is asked for once and claimed once, and only a delegation has a run below.
Once ==
    \A c \in Calls :
        /\ call[c] = "idle" => c \notin req
        /\ call[c] = "idle" \/ c \in req => task[c] = "none"
        /\ kind[c] # "child" => child[c] = "none"
        /\ child[c] = "active" => task[c] \in {"busy", "cancelled"}

\* Codex runs under the watch only, tasks under a living broker only, and the broker
\* is gone when the runner has returned.
Lives ==
    /\ runner = "start" => broker = "none"
    /\ runner \in {"start", "check"} => codex = "none"
    /\ runner \notin {"watch", "looking"} => codex # "running"
    /\ runner \in {"watch", "looking"} => codex \in {"running", "exited"}
    /\ runner = "over" => broker \in {"none", "gone"}
    /\ \A c \in Calls : task[c] \in Living => broker \in {"up", "stopping", "dying"}
    /\ stopfile => runner \in {"closing", "over"}

\* The watch is over, or about to be.
Past == runner \in {"close", "closing", "over"} \/ codex \in {"exited", "killed"}

\* A cancel, decided or recorded, is somebody's, or the broker's at the end of a run
\* whose CI has not timed out or whose Codex exited by itself.
Blamed ==
    /\ flag => meant
    /\ cfile # {} => meant \/ codex \in {"exited", "killed"}
    /\ why = "ci_timeout" => TimedOut(wait)
    /\ source # "none" \/ asking \in {"administrator", "service_shutdown"} =>
           meant \/ codex = "exited" \/ (Past /\ why # "ci_timeout")

IInv == TypeOK /\ Once /\ Lives /\ Blamed

\* The invariant holds of a run of Codex CLI that is about to start (codex_runner.py: run).
LEMMA InitIInv == Init => IInv
<1> SUFFICES ASSUME Init PROVE IInv
    OBVIOUS
<1>1. PICK p \in Plans : kind = p[1] /\ sub = p[2]
    BY DEF Init
<1>2. <<kind, sub>> \in Plans
    BY <1>1, BridgeAssumption
<1>3. MaxTroubles \in Nat
    BY BridgeAssumption
<1>4. /\ call \in [Calls -> {"idle", "asked", "over"}]
     /\ task \in [Calls -> {"none", "new", "busy", "hung", "cancelled", "done", "reaped", "killed"}]
     /\ wait \in [Keys -> {"none", "waiting", "finished", "timed_out"}]
     /\ child \in [Calls -> {"none", "active", "ended", "ci", "lost"}]
    BY DEF Init
<1>5. {req, resp, cfile} \subseteq SUBSET Calls /\ troubles \in 0 .. MaxTroubles
    BY <1>3 DEF Init
<1>6. TypeOK
    BY <1>2, <1>4, <1>5, Zenon DEF Init, TypeOK
<1>7. Once /\ Lives
    BY DEF Init, Once, Lives, Living
<1>8. Blamed
    BY DEF Init, Blamed
<1> QED
    BY <1>6, <1>7, <1>8 DEF IInv

\* The invariant gives the two properties of the run `bridge`.
LEMMA IInvBridge == IInv => NothingOutlives /\ CITimeoutKept
BY DEF IInv, TypeOK, Once, Lives, Blamed, Living, Alive, NothingOutlives, CITimeoutKept

\* Each step of the runner, the broker, their calls and the world keeps the invariant.
LEMMA NextIInv == IInv /\ [Next]_vars => IInv'
<1> SUFFICES ASSUME IInv, [Next]_vars PROVE IInv'
    OBVIOUS
<1> USE BridgeAssumption DEF IInv, run, proc, files, work
<1>1. CASE StartBroker
  <2>1. TypeOK'
    BY <1>1 DEF StartBroker, Trouble, TypeOK, Keys
  <2>2. Once'
    BY <1>1 DEF StartBroker, Trouble, TypeOK, Once, Living
  <2>3. Lives'
    BY <1>1 DEF StartBroker, Trouble, TypeOK, Lives, Living
  <2>4. Blamed'
    BY <1>1 DEF StartBroker, Trouble, TypeOK, Lives, Blamed, Past, TimedOut, Keys
  <2> QED
    BY <2>1, <2>2, <2>3, <2>4
<1>2. CASE Launch
  <2>1. TypeOK'
    BY <1>2 DEF Launch, Trouble, TypeOK, Keys
  <2>2. Once'
    BY <1>2 DEF Launch, Trouble, TypeOK, Once, Living
  <2>3. Lives'
    BY <1>2 DEF Launch, Trouble, TypeOK, Lives, Living
  <2>4. Blamed'
    <3>8. runner = "check"
      BY <1>2 DEF Launch
    <3>0. codex = "none"
      BY <3>8 DEF Lives
    <3>1. flag => meant
      BY DEF Blamed
    <3>2. why' # "ci_timeout" \/ UNCHANGED why
      BY <1>2 DEF Launch
    <3>3. runner' = "close" \/ source = "none"
      BY <1>2 DEF Launch
    <3>4. TimedOut(wait)' = TimedOut(wait)
      BY <1>2 DEF Launch, TimedOut
    <3>5. why' = "ci_timeout" => why = "ci_timeout"
      BY <3>2
    <3>6. ~Past => cfile = {} \/ meant
      BY DEF Blamed, Past
    <3>7. UNCHANGED <<source, flag, meant, asking, cfile, wait>> /\ (codex' = codex \/ codex' = "running")
      BY <1>2 DEF Launch
    <3> QED
      BY <3>0, <3>1, <3>2, <3>3, <3>4, <3>5, <3>6, <3>7, <3>8 DEF Blamed, Past
  <2> QED
    BY <2>1, <2>2, <2>3, <2>4
<1>3. CASE CodexEnds
  <2>1. TypeOK'
    BY <1>3 DEF CodexEnds, CodexDies, TypeOK, Keys
  <2>2. Once'
    BY <1>3 DEF CodexEnds, CodexDies, TypeOK, Once, Living
  <2>3. Lives'
    BY <1>3 DEF CodexEnds, CodexDies, TypeOK, Lives, Living
  <2>4. Blamed'
    BY <1>3 DEF CodexEnds, CodexDies, TypeOK, Lives, Blamed, Past, TimedOut, Keys
  <2> QED
    BY <2>1, <2>2, <2>3, <2>4
<1>4. CASE \E s \in {"failed", "cancelled", "ci_timeout", "total_timeout", "idle_timeout"} : Stop(s)
  <2>1. TypeOK'
    BY <1>4 DEF Stop, CodexDies, Marked, Reasons, TypeOK, Keys
  <2>2. Once'
    BY <1>4 DEF Stop, CodexDies, Marked, Reasons, TypeOK, Once, Living
  <2>3. Lives'
    BY <1>4 DEF Stop, CodexDies, Marked, Reasons, TypeOK, Lives, Living
  <2>4. Blamed'
    BY <1>4 DEF Stop, CodexDies, Marked, Reasons, TypeOK, Lives, Blamed, Past, TimedOut,
        Keys
  <2> QED
    BY <2>1, <2>2, <2>3, <2>4
<1>5. CASE Look \/ StreamFails
  <2>1. TypeOK'
    BY <1>5 DEF Look, StreamFails, Trouble, TypeOK, Keys
  <2>2. Once'
    BY <1>5 DEF Look, StreamFails, Trouble, TypeOK, Once, Living
  <2>3. Lives'
    BY <1>5 DEF Look, StreamFails, Trouble, TypeOK, Lives, Living
  <2>4. Blamed'
    BY <1>5 DEF Look, StreamFails, Trouble, TypeOK, Lives, Blamed, Past, TimedOut, Keys
  <2> QED
    BY <2>1, <2>2, <2>3, <2>4
<1>6. CASE Ended
  <2>1. TypeOK'
    BY <1>6 DEF Ended, TypeOK, Keys
  <2>2. Once'
    BY <1>6 DEF Ended, TypeOK, Once, Living
  <2>3. Lives'
    BY <1>6 DEF Ended, TypeOK, Lives, Living
  <2>4. Blamed'
    BY <1>6 DEF Ended, TypeOK, Lives, Blamed, Past, TimedOut, Keys
  <2> QED
    BY <2>1, <2>2, <2>3, <2>4
<1>7. CASE AskToStop
  <2>1. TypeOK'
    BY <1>7 DEF AskToStop, TypeOK, Keys
  <2>2. Once'
    BY <1>7 DEF AskToStop, TypeOK, Once, Living
  <2>3. Lives'
    BY <1>7 DEF AskToStop, TypeOK, Lives, Living
  <2>4. Blamed'
    BY <1>7 DEF AskToStop, TypeOK, Lives, Blamed, Past, TimedOut, Keys
  <2> QED
    BY <2>1, <2>2, <2>3, <2>4
<1>8. CASE Closed
  <2>1. TypeOK'
    BY <1>8 DEF Closed, Cleanup, TypeOK, Keys
  <2>2. Once'
    BY <1>8 DEF Closed, Cleanup, TypeOK, Once, Living
  <2>3. Lives'
    BY <1>8 DEF Closed, Cleanup, TypeOK, Lives, Living
  <2>4. Blamed'
    BY <1>8 DEF Closed, Cleanup, TypeOK, Lives, Blamed, Past, TimedOut, Keys
  <2> QED
    BY <2>1, <2>2, <2>3, <2>4
<1>9. CASE Kill
  <2>1. TypeOK'
    BY <1>9 DEF Kill, Cleanup, Alive, TypeOK, Keys
  <2>2. Once'
    BY <1>9 DEF Kill, Cleanup, Alive, TypeOK, Once, Living
  <2>3. Lives'
    BY <1>9 DEF Kill, Cleanup, Alive, TypeOK, Lives, Living
  <2>4. Blamed'
    BY <1>9 DEF Kill, Cleanup, Alive, TypeOK, Lives, Blamed, Past, TimedOut, Keys
  <2> QED
    BY <2>1, <2>2, <2>3, <2>4
<1>10. CASE SeeStop
  <2>1. TypeOK'
    BY <1>10 DEF SeeStop, Decide, Decision, Marked, Loop, Claimed, TypeOK, Keys
  <2>2. Once'
    BY <1>10 DEF SeeStop, Decide, Decision, Marked, Loop, Claimed, TypeOK, Once, Living
  <2>3. Lives'
    BY <1>10 DEF SeeStop, Decide, Decision, Marked, Loop, Claimed, TypeOK, Lives, Living
  <2>4. Blamed'
    BY <1>10 DEF SeeStop, Decide, Decision, Marked, Loop, Claimed, TypeOK, Lives, Blamed,
        Past, TimedOut, Keys
  <2> QED
    BY <2>1, <2>2, <2>3, <2>4
<1>11. CASE Decided
  <2>1. TypeOK'
    BY <1>11 DEF Decided, CancelTasks, RequestCancel, Alive, TypeOK, Keys
  <2>2. Once'
    BY <1>11 DEF Decided, CancelTasks, RequestCancel, Alive, TypeOK, Once, Living
  <2>3. Lives'
    BY <1>11 DEF Decided, CancelTasks, RequestCancel, Alive, TypeOK, Lives, Living
  <2>4. Blamed'
    BY <1>11 DEF Decided, CancelTasks, RequestCancel, Alive, TypeOK, Lives, Blamed, Past,
        TimedOut, Keys
  <2> QED
    BY <2>1, <2>2, <2>3, <2>4
<1>12. CASE Exit
  <2>1. TypeOK'
    BY <1>12 DEF Exit, MayExit, Claimed, Alive, TypeOK, Keys
  <2>2. Once'
    BY <1>12 DEF Exit, MayExit, Claimed, Alive, TypeOK, Once, Living
  <2>3. Lives'
    BY <1>12 DEF Exit, MayExit, Claimed, Alive, TypeOK, Lives, Living
  <2>4. Blamed'
    BY <1>12 DEF Exit, MayExit, Claimed, Alive, TypeOK, Lives, Blamed, Past, TimedOut, Keys
  <2> QED
    BY <2>1, <2>2, <2>3, <2>4
<1>13. CASE BrokerFails
  <2>1. TypeOK'
    BY <1>13 DEF BrokerFails, CancelTasks, Alive, Trouble, TypeOK, Keys
  <2>2. Once'
    BY <1>13 DEF BrokerFails, CancelTasks, Alive, Trouble, TypeOK, Once, Living
  <2>3. Lives'
    BY <1>13 DEF BrokerFails, CancelTasks, Alive, Trouble, TypeOK, Lives, Living
  <2>4. Blamed'
    BY <1>13 DEF BrokerFails, CancelTasks, Alive, Trouble, TypeOK, Lives, Blamed, Past,
        TimedOut, Keys
  <2> QED
    BY <2>1, <2>2, <2>3, <2>4
<1>14. CASE AdminCancel
  <2>1. TypeOK'
    BY <1>14 DEF AdminCancel, RequestCancel, Trouble, TypeOK, Keys
  <2>2. Once'
    BY <1>14 DEF AdminCancel, RequestCancel, Trouble, TypeOK, Once, Living
  <2>3. Lives'
    BY <1>14 DEF AdminCancel, RequestCancel, Trouble, TypeOK, Lives, Living
  <2>4. Blamed'
    BY <1>14 DEF AdminCancel, RequestCancel, Trouble, TypeOK, Lives, Blamed, Past,
        TimedOut, Keys
  <2> QED
    BY <2>1, <2>2, <2>3, <2>4
<1>15. CASE BeginShutdown
  <2>1. TypeOK'
    BY <1>15 DEF BeginShutdown, Trouble, TypeOK, Keys
  <2>2. Once'
    BY <1>15 DEF BeginShutdown, Trouble, TypeOK, Once, Living
  <2>3. Lives'
    BY <1>15 DEF BeginShutdown, Trouble, TypeOK, Lives, Living
  <2>4. Blamed'
    BY <1>15 DEF BeginShutdown, Trouble, TypeOK, Lives, Blamed, Past, TimedOut, Keys
  <2> QED
    BY <2>1, <2>2, <2>3, <2>4
<1>16. CASE Sweep
  <2>1. TypeOK'
    BY <1>16 DEF Sweep, RequestCancel, TypeOK, Keys
  <2>2. Once'
    BY <1>16 DEF Sweep, RequestCancel, TypeOK, Once, Living
  <2>3. Lives'
    BY <1>16 DEF Sweep, RequestCancel, TypeOK, Lives, Living
  <2>4. Blamed'
    BY <1>16 DEF Sweep, RequestCancel, TypeOK, Lives, Blamed, Past, TimedOut, Keys
  <2> QED
    BY <2>1, <2>2, <2>3, <2>4
<1>17. CASE TimePasses
  <2>1. TypeOK'
    BY <1>17 DEF TimePasses, TypeOK, Keys
  <2>2. Once'
    BY <1>17 DEF TimePasses, TypeOK, Once, Living
  <2>3. Lives'
    BY <1>17 DEF TimePasses, TypeOK, Lives, Living
  <2>4. Blamed'
    BY <1>17 DEF TimePasses, TypeOK, Lives, Blamed, Past, TimedOut, Keys
  <2> QED
    BY <2>1, <2>2, <2>3, <2>4
<1>18. CASE UNCHANGED vars
  <2>1. TypeOK'
    BY <1>18 DEF vars, TypeOK, Keys
  <2>2. Once'
    BY <1>18 DEF vars, TypeOK, Once, Living
  <2>3. Lives'
    BY <1>18 DEF vars, TypeOK, Lives, Living
  <2>4. Blamed'
    BY <1>18 DEF vars, TypeOK, Lives, Blamed, Past, TimedOut, Keys
  <2> QED
    BY <2>1, <2>2, <2>3, <2>4
<1>19. ASSUME NEW c \in Calls,
             Proxy(c) \/ Tool(c) \/ Claim(c) \/ SeeCancel(c) \/ Reap(c)
      PROVE IInv'
  <2>1. CASE Call(c)
    <3>1. TypeOK'
      BY <2>1 DEF Call, TypeOK, Keys
    <3>2. Once'
      BY <2>1 DEF Call, TypeOK, Once, Living
    <3>3. Lives'
      BY <2>1 DEF Call, TypeOK, Lives, Living
    <3>4. Blamed'
      BY <2>1 DEF Call, TypeOK, Lives, Blamed, Past, TimedOut, Keys
    <3> QED
      BY <3>1, <3>2, <3>3, <3>4
  <2>2. CASE Receive(c)
    <3>1. TypeOK'
      BY <2>2 DEF Receive, TypeOK, Keys
    <3>2. Once'
      BY <2>2 DEF Receive, TypeOK, Once, Living
    <3>3. Lives'
      BY <2>2 DEF Receive, TypeOK, Lives, Living
    <3>4. Blamed'
      BY <2>2 DEF Receive, TypeOK, Lives, Blamed, Past, TimedOut, Keys
    <3> QED
      BY <3>1, <3>2, <3>3, <3>4
  <2>3. CASE GiveUp(c)
    <3>1. TypeOK'
      BY <2>3 DEF GiveUp, TypeOK, Keys
    <3>2. Once'
      BY <2>3 DEF GiveUp, TypeOK, Once, Living
    <3>3. Lives'
      BY <2>3 DEF GiveUp, TypeOK, Lives, Living
    <3>4. Blamed'
      BY <2>3 DEF GiveUp, TypeOK, Lives, Blamed, Past, TimedOut, Keys
    <3> QED
      BY <3>1, <3>2, <3>3, <3>4
  <2>4. CASE Claim(c)
    <3>1. TypeOK'
      BY <2>4 DEF Claim, Loop, TypeOK, Keys
    <3>2. Once'
      BY <2>4 DEF Claim, Loop, TypeOK, Once, Living
    <3>3. Lives'
      BY <2>4 DEF Claim, Loop, TypeOK, Lives, Living
    <3>4. Blamed'
      BY <2>4 DEF Claim, Loop, TypeOK, Lives, Blamed, Past, TimedOut, Keys
    <3> QED
      BY <3>1, <3>2, <3>3, <3>4
  <2>5. CASE SeeCancel(c)
    <3>1. TypeOK'
      BY <2>5 DEF SeeCancel, Loop, Decide, Decision, Marked, TypeOK, Keys
    <3>2. Once'
      BY <2>5 DEF SeeCancel, Loop, Decide, Decision, Marked, TypeOK, Once, Living
    <3>3. Lives'
      BY <2>5 DEF SeeCancel, Loop, Decide, Decision, Marked, TypeOK, Lives, Living
    <3>4. Blamed'
      BY <2>5 DEF SeeCancel, Loop, Decide, Decision, Marked, TypeOK, Lives, Blamed, Past,
          TimedOut, Keys
    <3> QED
      BY <3>1, <3>2, <3>3, <3>4
  <2>6. CASE Reap(c)
    <3>1. TypeOK'
      BY <2>6 DEF Reap, Loop, TypeOK, Keys
    <3>2. Once'
      BY <2>6 DEF Reap, Loop, TypeOK, Once, Living
    <3>3. Lives'
      BY <2>6 DEF Reap, Loop, TypeOK, Lives, Living
    <3>4. Blamed'
      BY <2>6 DEF Reap, Loop, TypeOK, Lives, Blamed, Past, TimedOut, Keys
    <3> QED
      BY <3>1, <3>2, <3>3, <3>4
  <2>7. CASE Begin(c)
    <3>1. TypeOK'
      BY <2>7 DEF Begin, KeyOf, Keys, TypeOK, Keys
    <3>2. Once'
      BY <2>7 DEF Begin, KeyOf, Keys, TypeOK, Once, Living
    <3>3. Lives'
      BY <2>7 DEF Begin, KeyOf, Keys, TypeOK, Lives, Living
    <3>4. Blamed'
      BY <2>7 DEF Begin, KeyOf, Keys, TypeOK, Lives, Blamed, Past,
          TimedOut, Keys
    <3> QED
      BY <3>1, <3>2, <3>3, <3>4
  <2>8. CASE Delegate(c)
    <3>1. TypeOK'
      BY <2>8 DEF Delegate, TypeOK, Keys
    <3>2. Once'
      BY <2>8 DEF Delegate, TypeOK, Once, Living
    <3>3. Lives'
      BY <2>8 DEF Delegate, TypeOK, Lives, Living
    <3>4. Blamed'
      BY <2>8 DEF Delegate, TypeOK, Lives, Blamed, Past, TimedOut, Keys
    <3> QED
      BY <3>1, <3>2, <3>3, <3>4
  <2>9. CASE ChildEnds(c)
    <3>1. TypeOK'
      BY <2>9 DEF ChildEnds, TypeOK, Keys
    <3>2. Once'
      BY <2>9 DEF ChildEnds, TypeOK, Once, Living
    <3>3. Lives'
      BY <2>9 DEF ChildEnds, TypeOK, Lives, Living
    <3>4. Blamed'
      BY <2>9 DEF ChildEnds, TypeOK, Lives, Blamed, Past, TimedOut, Keys
    <3> QED
      BY <3>1, <3>2, <3>3, <3>4
  <2>10. CASE Done(c)
    <3>1. TypeOK'
      BY <2>10 DEF Done, Finish, Update, KeyOf, TypeOK, Keys
    <3>2. Once'
      BY <2>10 DEF Done, Finish, Update, KeyOf, TypeOK, Once, Living
    <3>3. Lives'
      BY <2>10 DEF Done, Finish, Update, KeyOf, TypeOK, Lives, Living
    <3>4. Blamed'
      BY <2>10 DEF Done, Finish, Update, KeyOf, TypeOK, Lives, Blamed, Past, TimedOut, Keys
    <3> QED
      BY <3>1, <3>2, <3>3, <3>4
  <2>11. CASE CITimesOut(c)
    <3>1. TypeOK'
      BY <2>11 DEF CITimesOut, Update, TypeOK, Keys
    <3>2. Once'
      BY <2>11 DEF CITimesOut, Update, TypeOK, Once, Living
    <3>3. Lives'
      BY <2>11 DEF CITimesOut, Update, TypeOK, Lives, Living
    <3>4. Blamed'
      BY <2>11 DEF CITimesOut, Update, TypeOK, Lives, Blamed, Past, TimedOut, Keys
    <3> QED
      BY <3>1, <3>2, <3>3, <3>4
  <2>12. CASE Cancelled(c)
    <3>1. TypeOK'
      BY <2>12 DEF Cancelled, Finish, Update, KeyOf, TypeOK, Keys
    <3>2. Once'
      BY <2>12 DEF Cancelled, Finish, Update, KeyOf, TypeOK, Once, Living
    <3>3. Lives'
      BY <2>12 DEF Cancelled, Finish, Update, KeyOf, TypeOK, Lives, Living
    <3>4. Blamed'
      BY <2>12 DEF Cancelled, Finish, Update, KeyOf, TypeOK, Lives, Blamed, Past, TimedOut,
          Keys
    <3> QED
      BY <3>1, <3>2, <3>3, <3>4
  <2> QED
    BY <1>19, <2>1, <2>2, <2>3, <2>4, <2>5, <2>6, <2>7, <2>8, <2>9, <2>10, <2>11, <2>12
        DEF Proxy, Tool
<1>20. CASE GoOn
  <2>1. TypeOK'
    BY <1>20 DEF GoOn, Marked, TypeOK, Keys
  <2>2. Once'
    BY <1>20 DEF GoOn, Marked, TypeOK, Once, Living
  <2>3. Lives'
    BY <1>20 DEF GoOn, Marked, TypeOK, Lives, Living
  <2>4. Blamed'
    BY <1>20 DEF GoOn, Marked, TypeOK, Lives, Blamed, Past, TimedOut, Keys
  <2> QED
    BY <2>1, <2>2, <2>3, <2>4
<1> QED
    BY <1>1, <1>2, <1>3, <1>4, <1>5, <1>6, <1>7, <1>8, <1>9, <1>10, <1>11, <1>12, <1>13,
        <1>14, <1>15, <1>16, <1>17, <1>18, <1>19, <1>20
       DEF Next, Watchdog, Limit, Broker, World, Over

\* When the run of Codex CLI has returned, neither Codex nor the broker nor a task or
\* sub-agent of theirs is left (codex_runner.py: run; mcp_bridge.py: close).
THEOREM OutlivedByNothing == Spec => []BridgeInv
<1>1. IInv => BridgeInv
    BY IInvBridge DEF IInv, BridgeInv
<1> QED
    BY InitIInv, NextIInv, <1>1, PTL DEF Spec, SafeSpec

\* The broker never makes an administrator's cancel of a CI that timed out, but for a
\* Codex that exited by itself (mcp_bridge.py: _request_current_run_cancellation).
THEOREM CITimeoutsKept == Spec => []CITimeoutKept
BY InitIInv, NextIInv, IInvBridge, PTL DEF Spec, SafeSpec

-----------------------------------------------------------------------------
(* ModelLoop, the other executor's way to run an Agent.  It is a system of    *)
(* its own: a name of its that Bridge has too is written L!name.              *)

L == INSTANCE ModelLoop

\* A set of naturals that is not empty has a least element.
LEMMA Least ==
    ASSUME NEW T, T \subseteq Nat, T # {}
    PROVE  \E x \in T : \A y \in T : x <= y
<1>1. PICK x \in T : \A y \in T : <<y, x>> \notin OpToRel(<, Nat)
    BY WFMin, NatLessThanWellFounded, Zenon
<1>2. \A y \in T : ~(y < x)
    BY <1>1 DEF OpToRel
<1> QED
    BY <1>2

\* And one that is bounded a greatest.
LEMMA Greatest ==
    ASSUME NEW n \in Nat, NEW T, T \subseteq 0 .. n, T # {}
    PROVE  \E x \in T : \A y \in T : x >= y
<1> DEFINE U == {k \in 0 .. n : n - k \in T}
<1>1. U \subseteq Nat /\ U # {}
    <2>1. PICK y \in T : y \in 0 .. n
        OBVIOUS
    <2>2. n - y \in 0 .. n /\ n - (n - y) = y
        BY <2>1
    <2>3. n - y \in U
        OBVIOUS
    <2>4. U \subseteq Nat
        OBVIOUS
    <2> HIDE DEF U
    <2> QED
        BY <2>3, <2>4
<1>2. PICK k \in U : \A y \in U : k <= y
    BY <1>1, Least, Zenon
<1>4. \A y \in T : n - k >= y
    <2> SUFFICES ASSUME NEW y \in T PROVE n - k >= y
        OBVIOUS
    <2>1. n - y \in U
        OBVIOUS
    <2> QED
        BY <1>2
<1> QED
    BY <1>4

\* So what Min and Max choose is of the set.
LEMMA MinIn ==
    ASSUME NEW S, S \subseteq Nat, S # {}
    PROVE  L!Min(S) \in S
BY Least DEF L!Min

\* The same of Max.
LEMMA MaxIn ==
    ASSUME NEW n \in Nat, NEW S, S \subseteq 0 .. n, S # {}
    PROVE  L!Max(S) \in S
BY Greatest DEF L!Max

\* A round of the history.
Rounds == [n : Nat, size : Nat, upto : Nat]

PlanTypes ==
    /\ plan \in Seq(L!Models) /\ compaction \in BOOLEAN
    /\ \E p \in Chains : plan = p.models /\ compaction = p.compaction
    /\ eff \in [1 .. Len(plan) -> Nat]
    /\ \A i \in 1 .. Len(plan) : eff[i] \in 0 .. plan[i].effort
    /\ exhausted \subseteq 1 .. Len(plan) /\ retried \subseteq 1 .. Len(plan)
FlowTypes ==
    /\ pc \in {"round", "budget", "summary", "ask", "tools", "end"}
    /\ round \in 0 .. MaxRounds /\ tries \in 0 .. Retries /\ force \in BOOLEAN
    /\ result \in {"none", "completed", "failed", "final", "stopped"}
    /\ pc = "end" <=> result # "none"
TalkTypes ==
    /\ rounds \in Seq(Rounds)
    /\ summary \in [of : 0 .. MaxRounds, size : {0} \cup DraftSizes]
    /\ draft \in [prefix : Nat, target : Nat, requests : 0 .. MaxSummaries, rewrites : 0 .. MaxRewrites]
    /\ calls \in [left : 0 .. MaxCalls, size : Nat]
    /\ pc = "tools" => calls.left > 0
LoopTypes == PlanTypes /\ FlowTypes /\ TalkTypes

\* Between rounds there is no draft, and the draft is of what the history holds.
DraftInv ==
    /\ pc \notin {"summary", "end"} => draft = L!NoDraft
    /\ draft.prefix \in 0 .. Len(rounds)
\* The candidate.
IdxInv ==
    /\ idx \in 0 .. Len(plan)
    /\ pc \in {"budget", "summary", "ask", "tools"} => idx \in 1 .. Len(plan)
    /\ pc \in {"budget", "summary", "ask", "tools"} => round >= 1

\* The inductive invariant of ModelLoop.
LoopIInv == LoopTypes /\ DraftInv /\ IdxInv /\ L!HistoryComplete /\ L!WithinWindow /\ L!QuotaRemembered

\* The last k rounds of the history.
LEMMA RecentOk ==
    ASSUME rounds \in Seq(Rounds), NEW k \in 0 .. Len(rounds)
    PROVE  /\ L!Recent(k) \in Seq(Rounds) /\ Len(L!Recent(k)) = k
           /\ \A i \in 1 .. k : L!Recent(k)[i] = rounds[Len(rounds) - k + i]
<1> DEFINE m == Len(rounds) - k + 1
           n == Len(rounds)
           w == SubSeq(rounds, m, n)
<1>3. /\ w \in Seq(Rounds) /\ Len(w) = IF m <= n THEN n - m + 1 ELSE 0
      /\ \A i \in 1 .. n - m + 1 : w[i] = rounds[m + i - 1]
    BY SubSeqProperties
<1>4. w = L!Recent(k)
    BY DEF L!Recent
<1> HIDE DEF w
<1>5. Len(w) = k
    BY <1>3
<1>6. \A i \in 1 .. k : w[i] = rounds[n - k + i]
    BY <1>3
<1> QED
    BY <1>3, <1>4, <1>5, <1>6

\* The size of a part of the history, the difference of two prefix sums.
LEMMA WeightOk ==
    ASSUME NEW s \in Seq(Rounds)
    PROVE  L!Weight(s) \in Int
<1>1. CASE s = <<>>
    BY <1>1 DEF L!Weight
<1>2. CASE s # <<>>
    <2>1. Len(s) \in Nat \ {0} /\ s[1] \in Rounds /\ s[Len(s)] \in Rounds
        BY <1>2, ElementOfSeq, EmptySeq
    <2> QED
        BY <1>2, <2>1 DEF L!Weight, Rounds
<1> QED
    BY <1>1, <1>2

\* What the compaction keeps; it cuts nothing only when everything fits and it is not forced.
LEMMA KeptOk ==
    ASSUME rounds \in Seq(Rounds), KeepRecent \in Nat
    PROVE  /\ L!Kept \in 0 .. Len(rounds) /\ L!Cut \in 0 .. Len(rounds)
           /\ L!Cut = 0 /\ rounds # <<>> => ~force /\ Len(rounds) \in L!Fitting
<1> DEFINE n == Len(rounds)
           k == IF L!Fitting = {} THEN 0 ELSE L!Max(L!Fitting)
<1>1. n \in Nat /\ (rounds # <<>> => n > 0)
    OBVIOUS
<1>2. L!Fitting \subseteq 0 .. n
    BY <1>1 DEF L!Fitting, L!Smaller
<1>3. L!Fitting # {} => L!Max(L!Fitting) \in L!Fitting
    BY <1>1, <1>2, MaxIn
<1>4. k \in 0 .. n /\ (k # 0 => k \in L!Fitting)
    <2>1. CASE L!Fitting = {}
        BY <2>1
    <2>2. CASE L!Fitting # {}
        BY <2>2, <1>2, <1>3
    <2> QED
        BY <2>2
<1>5. L!Kept = IF force /\ k = n /\ k > 0 THEN k - 1 ELSE k
    BY DEF L!Kept
<1> HIDE DEF k, n
<1>6. L!Kept \in 0 .. n
    BY <1>4, <1>5
<1>7. L!Cut = n - L!Kept
    BY DEF L!Cut, n
<1>8. L!Cut = 0 /\ n > 0 => ~force /\ n \in L!Fitting
    BY <1>1, <1>4, <1>5, <1>6, <1>7
<1> QED
    BY <1>6, <1>7, <1>8 DEF n

\* What goes to the model without a new summary fits its window: what introduces a
\* summary is longer than the slack (SUMMARY_PREFIX, chat_context.py), so a history of which
\* no round is cut and that has no summary is small.
LEMMA SentFits ==
    ASSUME L!Sorts, LoopIInv, pc = "budget", ~L!TooLarge, L!Unneeded
    PROVE  L!Before <= L!Window /\ L!Before \in Int /\ L!Window \in Int
<1> DEFINE w == L!Weight(rounds)
<1>1. rounds \in Seq(Rounds) /\ w \in Int
    BY WeightOk DEF LoopIInv, LoopTypes, PlanTypes, FlowTypes, TalkTypes
<1>2. idx \in 1 .. Len(plan) /\ plan[idx] \in L!Models
    BY ElementOfSeq DEF LoopIInv, LoopTypes, PlanTypes, FlowTypes, TalkTypes, IdxInv
<1>3. L!Window \in Nat /\ plan[idx].trigger \in Nat
    BY <1>2 DEF L!Models, L!Window
<1>4. {Fixed, Handover, Prefix, Slack, KeepRecent} \subseteq Nat /\ Slack <= Prefix
      /\ SummaryTarget \in Nat \ {0} /\ LeastTarget \in Nat \ {0}
    BY DEF L!Sorts
<1>5. L!Before = Fixed + (IF summary.size = 0 THEN 0 ELSE Prefix + summary.size) + w
    BY DEF L!Before, L!Cost
<1>6. summary.size \in Nat
    <2>1. summary.size \in {0} \cup DraftSizes
        BY DEF LoopIInv, LoopTypes, PlanTypes, FlowTypes, TalkTypes
    <2>2. DraftSizes \subseteq Nat
        BY DEF L!Sorts
    <2>3. summary.size = 0 \/ summary.size \in DraftSizes
        BY <2>1
    <2>4. CASE summary.size = 0
        BY <2>4
    <2> QED
        BY <2>2, <2>3, <2>4
<1>7. Fixed < L!Window
    BY <1>3, <1>4 DEF L!TooLarge
<1> HIDE DEF w
<1>8. L!Before \in Int
    BY <1>5, <1>6
<1>9. CASE ~force /\ L!Before < L!Trigger
    BY <1>9, <1>3, <1>4, <1>7, <1>8 DEF L!Trigger, L!Smaller, L!Larger
<1>10. CASE L!NoHistory
    <2>1. w = 0
        BY <1>10 DEF w, L!NoHistory, L!Weight
    <2> QED
        BY <1>10, <2>1, <1>3, <1>4, <1>5, <1>7 DEF L!NoHistory
<1>11. CASE L!Cut = 0 /\ summary.size = 0 /\ ~L!NoHistory
    <2>1. ~force /\ Len(rounds) \in L!Fitting /\ Len(rounds) \in Nat \ {0}
        BY <1>1, <1>4, <1>11, KeptOk, LenProperties, EmptySeq DEF L!NoHistory
    <2>2. L!Weight(L!Recent(Len(rounds))) = w
        <3> DEFINE s == L!Recent(Len(rounds))
        <3>1. Len(s) = Len(rounds) /\ s[1] = rounds[1] /\ s[Len(rounds)] = rounds[Len(rounds)]
            BY <1>1, RecentOk
        <3>2. s # <<>> /\ rounds # <<>>
            BY <3>1, <2>1, EmptySeq
        <3> QED
            BY <3>1, <3>2 DEF L!Weight, w
    <2>3. L!Cost(L!Target0, L!Recent(Len(rounds))) <= L!Goal
        BY <2>1 DEF L!Fitting
    <2>4. L!Target0 \in Nat \ {0}
        BY <1>3, <1>4, <1>7 DEF L!Target0, L!Smaller, L!Larger
    <2>5. Fixed + Prefix + L!Target0 + w <= L!Goal
        BY <1>4, <2>2, <2>3, <2>4 DEF L!Cost
    <2>6. L!Goal <= L!Window \div 2 \/ L!Goal <= Fixed + L!Target0 + Slack
        BY <2>1, <1>3, <1>4, <2>4 DEF L!Goal, L!Larger
    <2>7. L!Goal \in Int
        BY <2>1, <1>3, <1>4, <2>4 DEF L!Goal, L!Larger
    <2>8. L!Window \div 2 <= L!Window /\ L!Window \div 2 \in Nat
        BY <1>3
    <2> QED
        BY SMTT(30), <1>1, <1>3, <1>4, <1>5, <1>7, <1>11, <2>4, <2>5, <2>6, <2>7, <2>8
<1>12. CASE ~force /\ L!Before <= L!Window /\ L!Cost(1, L!Recent(L!Kept)) >= L!Before
    BY <1>12, <1>3, <1>8
<1> QED
    BY <1>8, <1>9, <1>10, <1>11, <1>12 DEF L!Unneeded

\* The steps of the loop.
LEMMA Nexts ==
    ASSUME [L!Next]_L!vars
    PROVE  L!Begin \/ L!Budget \/ L!Summary \/ L!Retry \/ L!Refused \/ L!Answer \/ L!Tool
           \/ L!Stop \/ UNCHANGED L!vars
BY DEF L!Next

\* What is assumed of the constants, in one place.
LEMMA Constants ==
    ASSUME L!Sorts
    PROVE  /\ {Fixed, Handover, Prefix, Slack, KeepRecent, MaxRewrites, MaxSummaries, Retries,
                Reference, MaxCalls, SummaryTarget, LeastTarget, MaxRounds} \subseteq Nat
           /\ MaxRounds > 0 /\ SummaryTarget > 0 /\ LeastTarget > 0 /\ Slack <= Prefix
           /\ RoundSizes \subseteq Nat \ {0} /\ DraftSizes \subseteq Nat \ {0}
<1>1. SummaryTarget \in Nat \ {0} /\ LeastTarget \in Nat \ {0} /\ MaxRounds \in Nat \ {0}
    BY DEF L!Sorts
<1>2. RoundSizes \subseteq Nat \ {0} /\ DraftSizes \subseteq Nat \ {0}
    BY DEF L!Sorts
<1> QED
    BY <1>1, <1>2 DEF L!Sorts

\* Every step keeps the chain and the efforts within those of its models.
LEMMA NextPlanTypes ==
    ASSUME L!Sorts, LoopIInv, [L!Next]_L!vars
    PROVE  PlanTypes'
<1>1. CASE L!Begin
    BY <1>1 DEF L!Begin, L!Fail, L!chain, L!talk, L!vars, LoopIInv, LoopTypes, PlanTypes,
        IdxInv
<1>2. CASE L!Budget
    BY <1>2 DEF L!Budget, L!Fail, L!chain, L!talk, L!vars, LoopIInv, LoopTypes, PlanTypes,
        IdxInv
<1>3. CASE L!Summary
    BY <1>3 DEF L!Summary, L!Fail, L!chain, L!talk, L!vars, LoopIInv, LoopTypes, PlanTypes,
        IdxInv
<1>4. CASE L!Retry
    BY <1>4 DEF L!Retry, L!Fail, L!chain, L!talk, L!vars, LoopIInv, LoopTypes, PlanTypes,
        IdxInv
<1>5. CASE L!Refused
    <2>1. UNCHANGED <<plan, compaction>> /\ idx \in 1 .. Len(plan)
        BY <1>5 DEF L!Refused, L!Asking, LoopIInv, IdxInv
    <2>2. exhausted' \in {exhausted, exhausted \cup {idx}} /\ retried' \in {retried, retried \cup {idx}}
        BY <1>5 DEF L!Refused
    <2>3. eff' = eff \/ (eff[idx] > 0 /\ eff' = [eff EXCEPT ![idx] = @ - 1])
        BY <1>5 DEF L!Refused, L!NextEffort
    <2>4. plan[idx] \in L!Models /\ eff[idx] \in Nat
        BY <2>1, ElementOfSeq DEF LoopIInv, LoopTypes, PlanTypes
    <2>5. eff' \in [1 .. Len(plan) -> Nat] /\ \A i \in 1 .. Len(plan) : eff'[i] \in 0 .. plan[i].effort
        <3>1. CASE eff' = eff
            BY <3>1 DEF LoopIInv, LoopTypes, PlanTypes
        <3>2. CASE eff[idx] > 0 /\ eff' = [eff EXCEPT ![idx] = @ - 1]
            <4>1. eff'[idx] = eff[idx] - 1 /\ eff[idx] - 1 \in Nat
                BY <3>2, <2>1, <2>4 DEF LoopIInv, LoopTypes, PlanTypes
            <4>2. \A i \in 1 .. Len(plan) : i # idx => eff'[i] = eff[i]
                BY <3>2 DEF PlanTypes
            <4>3. eff' \in [1 .. Len(plan) -> Nat]
                BY <3>2, <4>1 DEF LoopIInv, LoopTypes, PlanTypes
            <4>4. plan[idx].effort \in Nat
                BY <2>4 DEF L!Models
            <4> QED
                BY <2>1, <4>1, <4>2, <4>3, <4>4 DEF LoopIInv, LoopTypes, PlanTypes
        <3> QED
            BY <2>3, <3>1, <3>2
    <2> QED
        BY <2>1, <2>2, <2>5 DEF LoopIInv, LoopTypes, PlanTypes
<1>6. CASE L!Answer
    BY <1>6 DEF L!Answer, L!Fail, L!chain, L!talk, L!vars, LoopIInv, LoopTypes, PlanTypes,
        IdxInv
<1>7. CASE L!Tool
    BY <1>7 DEF L!Tool, L!Fail, L!chain, L!talk, L!vars, LoopIInv, LoopTypes, PlanTypes,
        IdxInv
<1>8. CASE L!Stop
    BY <1>8 DEF L!Stop, L!Fail, L!chain, L!talk, L!vars, LoopIInv, LoopTypes, PlanTypes,
        IdxInv
<1>9. CASE UNCHANGED L!vars
    BY <1>9 DEF L!vars, L!chain, L!talk, LoopIInv, LoopTypes, PlanTypes, IdxInv
<1> QED
    BY <1>1, <1>2, <1>3, <1>4, <1>5, <1>6, <1>7, <1>8, <1>9, Nexts

\* How the loop moves on in a step.
Moves ==
    /\ \/ pc' = "end" /\ result' \in {"completed", "failed", "final", "stopped"} /\ round' = round
       \/ pc' = "budget" /\ pc = "round" /\ result' = result /\ round < MaxRounds /\ round' = round + 1
       \/ /\ pc' \in {"round", "budget", "summary", "ask", "tools"} /\ round' = round
          /\ pc # "end" /\ result' = result
       \/ pc' = pc /\ round' = round /\ result' = result
    /\ tries' \in {tries, 0} \/ (tries < Retries /\ tries' = tries + 1)
    /\ force' \in {force, TRUE, FALSE}

\* How a step may move the loop, whatever it does to the history.
LEMMA NextMoves ==
    ASSUME L!Sorts, LoopIInv, [L!Next]_L!vars
    PROVE  Moves
<1> USE DEF Moves
<1>1. CASE L!Begin
    BY <1>1 DEF L!Begin, L!End, L!Fail, L!chain, L!talk, L!vars, Moves
<1>2. CASE L!Budget
    BY <1>2 DEF L!Budget, L!End, L!Fail, L!chain, L!talk, L!vars, Moves
<1>3. CASE L!Summary
    BY <1>3 DEF L!Summary, L!Summarised, L!End, L!Fail, L!chain, L!talk, L!vars, Moves
<1>4. CASE L!Retry
    BY <1>4 DEF L!Retry, L!End, L!Fail, L!chain, L!talk, L!vars, Moves
<1>5. CASE L!Refused
    BY <1>5 DEF L!Refused, L!Asking, L!Fallback, L!Again, L!End, L!Fail, L!chain, L!talk,
        L!vars, Moves
<1>6. CASE L!Answer
    BY <1>6 DEF L!Answer, L!End, L!Fail, L!chain, L!talk, L!vars, Moves
<1>7. CASE L!Tool
    BY <1>7 DEF L!Tool, L!End, L!Fail, L!chain, L!talk, L!vars, Moves
<1>8. CASE L!Stop
    BY <1>8 DEF L!Stop, L!End, L!Fail, L!chain, L!talk, L!vars, Moves
<1>9. CASE UNCHANGED L!vars
    BY <1>9 DEF L!vars, L!chain, L!talk, Moves
<1> QED
    BY <1>1, <1>2, <1>3, <1>4, <1>5, <1>6, <1>7, <1>8, <1>9, Nexts

\* Every step keeps the round, the tries and the result in their ranges.
LEMMA NextFlowTypes ==
    ASSUME L!Sorts, LoopIInv, [L!Next]_L!vars
    PROVE  FlowTypes'
<1>1. MaxRounds \in Nat /\ Retries \in Nat /\ FlowTypes /\ Moves
    BY Constants, NextMoves DEF LoopIInv, LoopTypes
<1>2. tries' \in 0 .. Retries
    BY <1>1 DEF Moves, FlowTypes
<1>3. round' \in 0 .. MaxRounds
    BY <1>1 DEF Moves, FlowTypes
<1>4. force' \in BOOLEAN
    BY <1>1, Zenon DEF Moves, FlowTypes
<1> QED
    BY <1>1, <1>2, <1>3, <1>4 DEF Moves, FlowTypes

\* The target of a summary is a size.
LEMMA Target0Ok ==
    ASSUME L!Sorts, LoopIInv, pc = "budget"
    PROVE  L!Target0 \in Nat
<1>1. L!Window \in Nat
    <2>1. idx \in 1 .. Len(plan) /\ plan \in Seq(L!Models)
        BY DEF LoopIInv, LoopTypes, PlanTypes, IdxInv
    <2>2. plan[idx] \in L!Models
        BY <2>1
    <2> QED
        BY <2>2 DEF L!Window, L!Models
<1>2. Fixed \in Nat /\ SummaryTarget \in Nat /\ LeastTarget \in Nat
    BY Constants
<1> QED
    BY <1>1, <1>2 DEF L!Target0, L!Larger, L!Smaller

\* A round that is recorded follows the others.
LEMMA RecordOk ==
    ASSUME rounds \in Seq(Rounds), round \in Nat, NEW size \in Nat, L!Record(size)
    PROVE  /\ rounds' \in Seq(Rounds) /\ Len(rounds') = Len(rounds) + 1
           /\ \A i \in 1 .. Len(rounds) : rounds'[i] = rounds[i]
           /\ rounds'[Len(rounds) + 1].n = round
<1> DEFINE before == IF rounds = <<>> THEN 0 ELSE rounds[Len(rounds)].upto
           x == [n |-> round, size |-> size, upto |-> before + size]
<1>2. rounds # <<>> => rounds[Len(rounds)] \in Rounds
    OBVIOUS
<1>3. before \in Nat
    BY <1>2 DEF Rounds
<1> HIDE DEF before
<1>4. x \in Rounds /\ x.n = round
    BY <1>3 DEF Rounds
<1>5. rounds' = Append(rounds, x)
    BY DEF L!Record, before
<1> HIDE DEF x
<1> QED
    BY <1>4, <1>5, AppendProperties

\* Every step keeps the history, the summary and the draft well formed.
LEMMA NextTalkTypes ==
    ASSUME L!Sorts, LoopIInv, [L!Next]_L!vars
    PROVE  TalkTypes'
<1>0. /\ {MaxSummaries, MaxRewrites, MaxCalls, MaxRounds, Reference} \subseteq Nat
      /\ RoundSizes \subseteq Nat \ {0} /\ DraftSizes \subseteq Nat \ {0}
    BY Constants
<1>t. /\ rounds \in Seq(Rounds) /\ Len(rounds) \in Nat
      /\ summary \in [of : 0 .. MaxRounds, size : {0} \cup DraftSizes]
      /\ draft \in [prefix : Nat, target : Nat, requests : 0 .. MaxSummaries, rewrites : 0 .. MaxRewrites]
      /\ calls \in [left : 0 .. MaxCalls, size : Nat]
      /\ pc = "tools" => calls.left > 0
    BY LenProperties DEF LoopIInv, LoopTypes, TalkTypes
<1>n. L!NoDraft \in [prefix : Nat, target : Nat, requests : 0 .. MaxSummaries, rewrites : 0 .. MaxRewrites]
    BY <1>0 DEF L!NoDraft
<1> DEFINE Drafts == [prefix : Nat, target : Nat, requests : 0 .. MaxSummaries, rewrites : 0 .. MaxRewrites]
           Summaries == [of : 0 .. MaxRounds, size : {0} \cup DraftSizes]
           Callss == [left : 0 .. MaxCalls, size : Nat]
<1> USE DEF TalkTypes
<1>1. CASE L!Begin
    BY <1>1, <1>t, <1>n DEF L!Begin, L!End, L!Fail, L!chain, L!talk, L!vars, TalkTypes
<1>2. CASE L!Budget
    <2>1. UNCHANGED <<rounds, summary, calls>> /\ pc' # "tools"
        BY <1>2 DEF L!Budget, L!talk, L!End
    <2>2. CASE draft' = draft
        BY <2>1, <2>2, <1>t
    <2>3. CASE /\ draft' = [[L!NoDraft EXCEPT !.prefix = L!Cut, !.target = L!Target0] EXCEPT !.requests = 1]
               /\ L!MayRequest([L!NoDraft EXCEPT !.prefix = L!Cut, !.target = L!Target0])
        <3>1. L!Cut \in Nat /\ L!Target0 \in Nat
            BY <1>2, <1>t, KeptOk, Target0Ok, Constants DEF L!Budget
        <3>2. MaxSummaries >= 1
            BY <2>3, <1>0 DEF L!MayRequest, L!NoDraft
        <3> QED
          <4>1. draft' = [prefix |-> L!Cut, target |-> L!Target0, requests |-> 1, rewrites |-> 0]
            BY <2>3 DEF L!NoDraft
          <4>2. draft' \in Drafts
            BY <4>1, <3>1, <3>2, <1>0
          <4> QED
            BY <2>1, <4>2, <1>t
    <2> QED
        BY <2>2, <2>3, <1>2 DEF L!Budget
<1>3. CASE L!Summary
    <2>1. calls' = calls /\ pc' # "tools" /\ pc = "summary"
        BY <1>3 DEF L!Summary, L!Summarised, L!End
    <2>2. draft' \in Drafts
        <3>1. CASE draft' = L!NoDraft
            BY <3>1, <1>n
        <3>2. CASE /\ draft' = [draft EXCEPT !.requests = @ + 1, !.rewrites = @ + 1,
                                         !.target = L!Larger(1, @ \div 2)]
                   /\ draft.rewrites < MaxRewrites /\ draft.requests < MaxSummaries
            <4>1. L!Larger(1, draft.target \div 2) \in Nat
                BY <1>t DEF L!Larger
            <4>2. draft.requests + 1 \in 0 .. MaxSummaries /\ draft.rewrites + 1 \in 0 .. MaxRewrites
                BY SMTT(30), <1>t, <1>0, <3>2
            <4> QED
                BY <4>1, <4>2, <3>2, <1>t
        <3> QED
            BY <1>3, <3>1, <3>2 DEF L!Summary, L!Summarised, L!MayRequest
    <2>3. CASE UNCHANGED <<rounds, summary>>
        BY <2>1, <2>2, <2>3, <1>t
    <2>4. ASSUME NEW size \in DraftSizes, L!Commit(size)
          PROVE  rounds' \in Seq(Rounds) /\ summary' \in Summaries
        <3>1. draft.prefix \in 0 .. Len(rounds)
            BY DEF LoopIInv, DraftInv
        <3>2. Len(rounds) - draft.prefix \in 0 .. Len(rounds)
            BY <3>1
        <3>3. rounds' \in Seq(Rounds)
            BY <2>4, <3>2, <1>t, RecentOk DEF L!Commit
        <3>4. summary.of + Len(rounds) = round - 1 /\ round \in 0 .. MaxRounds
            BY <2>1 DEF LoopIInv, LoopTypes, FlowTypes, L!HistoryComplete
        <3>5. summary.of + draft.prefix \in 0 .. MaxRounds
            <4>1. summary.of \in Nat /\ MaxRounds \in Nat
                BY <1>t, <1>0
            <4> QED
                BY <4>1, <3>1, <3>4, <1>t
        <3> QED
            BY <2>4, <3>3, <3>5 DEF L!Commit
    <2>5. UNCHANGED <<rounds, summary>> \/ \E size \in DraftSizes : L!Commit(size)
        BY <1>3 DEF L!Summary, L!Summarised, L!talk
    <2> QED
        BY <2>1, <2>2, <2>3, <2>4, <2>5, <1>t
<1>4. CASE L!Retry
    BY <1>4, <1>t, <1>n DEF L!Retry, L!Fail, L!chain, L!talk, L!vars, TalkTypes
<1>5. CASE L!Refused
    <2>1. UNCHANGED <<rounds, summary, calls>> /\ pc' # "tools" /\ draft' = L!NoDraft
        BY <1>5 DEF L!Refused, L!Fallback, L!Again, L!End, L!Fail, L!talk
    <2> QED
        BY <2>1, <1>t, <1>n
<1>6. CASE L!Answer
    <2>1. UNCHANGED <<rounds, summary, draft>>
        BY <1>6 DEF L!Answer, L!talk
    <2>2. CASE calls' = calls /\ pc' # "tools"
        BY <2>1, <2>2, <1>t
    <2>3. ASSUME NEW n \in 1 .. MaxCalls, NEW size \in RoundSizes, calls' = [left |-> n, size |-> size]
          PROVE  TalkTypes'
        BY <2>1, <2>3, <1>t, <1>0
    <2> QED
        BY <2>2, <2>3, <1>6 DEF L!Answer, L!End, L!Fail
<1>7. CASE L!Tool
    <2>1. UNCHANGED <<summary, draft>> /\ calls.left > 0
        BY <1>7, <1>t DEF L!Tool
    <2>2. CASE UNCHANGED <<rounds, calls>> /\ pc' # "tools"
        BY <2>1, <2>2, <1>t
    <2>3. ASSUME NEW size \in RoundSizes,
                 IF calls.left > 1
                 THEN /\ calls' = [left |-> calls.left - 1, size |-> calls.size + L!Recorded(size)]
                      /\ UNCHANGED <<rounds, pc>>
                 ELSE /\ L!Record(calls.size + L!Recorded(size)) /\ calls' = [left |-> 0, size |-> 0]
                      /\ pc' = "round"
          PROVE  TalkTypes'
        <3>1. L!Recorded(size) \in Nat
            BY <1>0 DEF L!Recorded
        <3>2. CASE calls.left > 1
            <4>1. calls.left - 1 \in 0 .. MaxCalls /\ calls.size + L!Recorded(size) \in Nat
                BY SMTT(30), <3>1, <3>2, <1>t, <1>0
            <4>2. calls' \in Callss /\ calls'.left > 0
                BY <2>3, <3>2, <4>1, <1>t
            <4> QED
                BY <2>1, <2>3, <3>2, <4>2, <1>t
        <3>3. CASE ~(calls.left > 1)
            <4> DEFINE total == calls.size + L!Recorded(size)
            <4>1. total \in Nat /\ round \in Nat
                BY SMTT(30), <3>1, <1>t, <1>0 DEF LoopIInv, LoopTypes, FlowTypes
            <4> HIDE DEF total
            <4>2. rounds' \in Seq(Rounds)
                BY <2>3, <3>3, <4>1, RecordOk, <1>t DEF total
            <4> QED
                BY SMTT(30), <2>1, <2>3, <3>3, <4>2, <1>t, <1>0
        <3> QED
            BY <3>2, <3>3
    <2> QED
        BY <2>2, <2>3, <1>7 DEF L!Tool, L!End, L!Fail
<1>8. CASE L!Stop
    BY <1>8, <1>t, <1>n DEF L!Stop, L!End, L!Fail, L!chain, L!talk, L!vars, TalkTypes
<1>9. CASE UNCHANGED L!vars
    BY <1>9, <1>t, <1>n DEF L!vars, L!talk, TalkTypes
<1> QED
    BY <1>1, <1>2, <1>3, <1>4, <1>5, <1>6, <1>7, <1>8, <1>9, Nexts

\* Every step keeps the draft to what the history holds.
LEMMA NextDraft ==
    ASSUME L!Sorts, LoopIInv, [L!Next]_L!vars
    PROVE  DraftInv'
<1>0. rounds \in Seq(Rounds) /\ Len(rounds) \in Nat
    BY LenProperties DEF LoopIInv, LoopTypes, TalkTypes
<1>n. L!NoDraft.prefix = 0
    BY DEF L!NoDraft
<1>1. CASE L!Begin
    BY <1>1, <1>0, <1>n DEF L!Begin, L!Fail, L!chain, L!talk, L!vars, LoopIInv, DraftInv
<1>2. CASE L!Budget
    <2>1. draft = L!NoDraft /\ UNCHANGED rounds
        BY <1>2 DEF L!Budget, L!talk, LoopIInv, DraftInv
    <2>2. draft' = draft \/ (pc' = "summary" /\ draft'.prefix = L!Cut)
        BY <1>2 DEF L!Budget, L!NoDraft
    <2>3. L!Cut \in 0 .. Len(rounds)
        BY <1>0, KeptOk, Constants
    <2> QED
        BY <2>1, <2>2, <2>3, <1>0, <1>n DEF DraftInv
<1>3. CASE L!Summary
    <2>1. \/ draft' = L!NoDraft
          \/ pc' = "summary" /\ UNCHANGED rounds /\ draft'.prefix = draft.prefix
        <3>1. CASE draft' = [draft EXCEPT !.requests = @ + 1, !.rewrites = @ + 1,
                                         !.target = L!Larger(1, @ \div 2)]
                   /\ UNCHANGED <<pc, rounds>>
            BY <3>1, <1>3 DEF TalkTypes, L!Summary
        <3> QED
            BY <3>1, <1>3 DEF L!Summary, L!Summarised, L!talk
    <2>2. rounds' \in Seq(Rounds)
        BY NextTalkTypes DEF TalkTypes
    <2>3. Len(rounds') \in Nat
        OBVIOUS
    <2> QED
        BY <2>1, <2>3, <1>n DEF LoopIInv, DraftInv
<1>4. CASE L!Retry
    BY <1>4, <1>0, <1>n DEF L!Retry, L!Fail, L!chain, L!talk, L!vars, LoopIInv, DraftInv
<1>5. CASE L!Refused
    BY <1>5, <1>0, <1>n DEF L!Refused, L!Fallback, L!Again, L!End, L!Fail, L!chain, L!talk,
        L!vars, LoopIInv, DraftInv
<1>6. CASE L!Answer
    BY <1>6, <1>0, <1>n DEF L!Answer, L!Fail, L!chain, L!talk, L!vars, LoopIInv, DraftInv
<1>7. CASE L!Tool
    <2>1. draft = L!NoDraft /\ draft' = draft
        BY <1>7 DEF L!Tool, LoopIInv, DraftInv
    <2>2. rounds' \in Seq(Rounds)
        BY NextTalkTypes DEF TalkTypes
    <2>3. Len(rounds') \in Nat
        OBVIOUS
    <2> QED
        BY <2>1, <2>3, <1>n DEF DraftInv
<1>8. CASE L!Stop
    BY <1>8, <1>0, <1>n DEF L!Stop, L!End, L!Fail, L!chain, L!talk, L!vars, LoopIInv,
        DraftInv
<1>9. CASE UNCHANGED L!vars
    BY <1>9, <1>0, <1>n DEF L!vars, L!talk, LoopIInv, DraftInv
<1> QED
    BY <1>1, <1>2, <1>3, <1>4, <1>5, <1>6, <1>7, <1>8, <1>9, Nexts

\* The next model of the chain that is not exhausted.
LEMMA FromOk ==
    ASSUME NEW i \in Nat, plan \in Seq(L!Models), L!From(i) # {}
    PROVE  L!Min(L!From(i)) \in i .. Len(plan) /\ L!Min(L!From(i)) \notin exhausted
<1>1. L!From(i) \subseteq Nat
    BY DEF L!From
<1>2. L!Min(L!From(i)) \in L!From(i)
    BY <1>1, MinIn
<1> QED
    BY <1>2 DEF L!From, L!Available

\* Every step keeps the candidate in the chain.
LEMMA NextIdx ==
    ASSUME L!Sorts, LoopIInv, [L!Next]_L!vars
    PROVE  IdxInv'
<1>0. plan \in Seq(L!Models) /\ Len(plan) \in Nat /\ round \in Nat /\ plan' = plan /\ MaxRounds \in Nat
    <2>1. UNCHANGED plan
        BY Nexts DEF L!Begin, L!Budget, L!Summary, L!Retry, L!Refused, L!Answer, L!Tool,
            L!Stop, L!vars, L!chain
    <2> QED
        BY SMTT(30), <2>1, LenProperties, Constants DEF LoopIInv, LoopTypes, PlanTypes, FlowTypes
<1>1. CASE L!Begin
    <2>1. CASE L!Activate(1) /\ round' = round + 1
        BY <2>1, <1>0, FromOk DEF L!Activate, IdxInv
    <2>2. CASE pc' = "end" /\ idx' = idx
        BY <2>2, <1>0 DEF LoopIInv, IdxInv
    <2> QED
        BY <1>1, <2>1, <2>2 DEF L!Begin, L!End
<1>2. CASE L!Budget
    BY <1>2, <1>0 DEF L!Budget, L!Fail, L!chain, L!talk, L!vars, LoopIInv, IdxInv
<1>3. CASE L!Summary
    BY <1>3, <1>0 DEF L!Summary, L!End, L!Fail, L!chain, L!talk, L!vars, LoopIInv, IdxInv
<1>4. CASE L!Retry
    BY <1>4, <1>0 DEF L!Retry, L!Fail, L!chain, L!talk, L!vars, LoopIInv, IdxInv
<1>5. CASE L!Refused
    <2>1. idx \in 1 .. Len(plan) /\ round >= 1 /\ round' = round
        BY <1>5 DEF L!Refused, L!Asking, LoopIInv, IdxInv
    <2>2. CASE L!From(idx + 1) # {} /\ L!Activate(idx + 1)
        <3>1. idx' \in idx + 1 .. Len(plan)
            BY <2>1, <2>2, <1>0, FromOk DEF L!Activate
        <3> QED
            BY <2>1, <3>1, <1>0 DEF IdxInv
    <2>3. CASE idx' = idx
        BY <2>1, <2>3, <1>0 DEF IdxInv
    <2> QED
        BY <1>5, <2>2, <2>3 DEF L!Refused, L!Fallback
<1>6. CASE L!Answer
    BY <1>6, <1>0 DEF L!Answer, L!Fail, L!chain, L!talk, L!vars, LoopIInv, IdxInv
<1>7. CASE L!Tool
    BY <1>7, <1>0 DEF L!Tool, L!Fail, L!chain, L!talk, L!vars, LoopIInv, IdxInv
<1>8. CASE L!Stop
    BY <1>8, <1>0 DEF L!Stop, L!End, L!Fail, L!chain, L!talk, L!vars, LoopIInv, IdxInv
<1>9. CASE UNCHANGED L!vars
    BY <1>9, <1>0 DEF L!vars, L!chain, L!talk, LoopIInv, IdxInv
<1> QED
    BY <1>1, <1>2, <1>3, <1>4, <1>5, <1>6, <1>7, <1>8, <1>9, Nexts

\* No step asks a model that has no quota left.
LEMMA NextQuota ==
    ASSUME L!Sorts, LoopIInv, [L!Next]_L!vars
    PROVE  L!QuotaRemembered'
<1>0. plan \in Seq(L!Models) /\ (pc # "end" /\ pc # "round" => idx \in 1 .. Len(plan))
    BY DEF LoopIInv, LoopTypes, PlanTypes, FlowTypes, IdxInv
<1>1. CASE L!Begin
    <2>1. exhausted' = exhausted
        BY <1>1 DEF L!Begin
    <2>2. CASE L!Activate(1)
        BY <2>1, <2>2, <1>0, FromOk DEF L!Activate, L!QuotaRemembered
    <2> QED
        BY <1>1, <2>2 DEF L!Begin, L!End, L!QuotaRemembered
<1>2. CASE L!Budget
    BY <1>2, <1>0 DEF L!Budget, L!Fail, L!chain, L!talk, L!vars, LoopIInv, L!QuotaRemembered
<1>3. CASE L!Summary
    BY <1>3, <1>0 DEF L!Summary, L!End, L!Fail, L!chain, L!talk, L!vars, LoopIInv,
        L!QuotaRemembered
<1>4. CASE L!Retry
    BY <1>4, <1>0 DEF L!Retry, L!End, L!Fail, L!chain, L!talk, L!vars, LoopIInv,
        L!QuotaRemembered
<1>5. CASE L!Refused
    <2>1. idx \in 1 .. Len(plan) /\ idx \notin exhausted
        BY <1>5, <1>0 DEF L!Refused, L!Asking, LoopIInv, L!QuotaRemembered
    <2>2. PICK e \in L!Errors :
            /\ exhausted' = IF e = "quota" THEN exhausted \cup {idx} ELSE exhausted
            /\ \/ e # "quota" /\ idx' = idx
               \/ L!Fallback(e)
        BY <1>5 DEF L!Refused
    <2>3. CASE e # "quota" /\ idx' = idx
        BY <2>1, <2>2, <2>3 DEF L!QuotaRemembered
    <2>4. CASE pc' = "end"
        BY <2>4 DEF L!QuotaRemembered
    <2>5. CASE L!From(idx + 1) # {} /\ L!Activate(idx + 1)
        <3>1. idx' \in idx + 1 .. Len(plan) /\ idx' \notin exhausted
            BY <2>1, <2>5, <1>0, FromOk DEF L!Activate
        <3>2. idx' # idx
            BY <3>1
        <3> QED
            BY <2>2, <3>1, <3>2 DEF L!QuotaRemembered
    <2> QED
        BY <2>2, <2>3, <2>4, <2>5 DEF L!Fallback, L!Fail, L!End
<1>6. CASE L!Answer
    BY <1>6, <1>0 DEF L!Answer, L!Fail, L!chain, L!talk, L!vars, LoopIInv, L!QuotaRemembered
<1>7. CASE L!Tool
    BY <1>7, <1>0 DEF L!Tool, L!End, L!Fail, L!chain, L!talk, L!vars, LoopIInv,
        L!QuotaRemembered
<1>8. CASE L!Stop
    BY <1>8, <1>0 DEF L!Stop, L!End, L!Fail, L!chain, L!talk, L!vars, LoopIInv,
        L!QuotaRemembered
<1>9. CASE UNCHANGED L!vars
    BY <1>9, <1>0 DEF L!vars, L!chain, L!talk, LoopIInv, L!QuotaRemembered
<1> QED
    BY <1>1, <1>2, <1>3, <1>4, <1>5, <1>6, <1>7, <1>8, <1>9, Nexts

\* No step loses a round: it is in the history or in the summary.
LEMMA NextHistory ==
    ASSUME L!Sorts, LoopIInv, [L!Next]_L!vars
    PROVE  L!HistoryComplete'
<1>0. rounds \in Seq(Rounds) /\ Len(rounds) \in Nat /\ round \in Nat /\ summary.of \in Nat
    BY Constants, LenProperties DEF LoopIInv, LoopTypes, TalkTypes, FlowTypes
<1>1. CASE L!Begin
    BY <1>1, <1>0 DEF L!Begin, L!End, L!Fail, L!chain, L!talk, L!vars, LoopIInv,
        L!HistoryComplete
<1>2. CASE L!Budget
    <2>1. UNCHANGED <<rounds, summary, round>> /\ pc' # "round"
        BY <1>2 DEF L!Budget, L!talk, L!End
    <2> QED
        BY <1>2, <2>1 DEF L!Budget, LoopIInv, L!HistoryComplete
<1>3. CASE L!Summary
    <2>1. round' = round /\ pc' # "round" /\ pc = "summary"
        BY <1>3 DEF L!Summary, L!Summarised, L!End
    <2>2. CASE UNCHANGED <<rounds, summary>>
        BY <2>1, <2>2 DEF LoopIInv, L!HistoryComplete
    <2>3. ASSUME NEW size \in DraftSizes, L!Commit(size)
          PROVE  L!HistoryComplete'
        <3> DEFINE k == Len(rounds) - draft.prefix
        <3>1. draft.prefix \in 0 .. Len(rounds)
            BY DEF LoopIInv, DraftInv
        <3>2. k \in 0 .. Len(rounds) /\ Len(rounds) - k = draft.prefix
            BY <3>1
        <3>3. rounds' = L!Recent(k) /\ summary'.of = summary.of + draft.prefix
            BY <2>3 DEF L!Commit
        <3> HIDE DEF k
        <3>4. Len(rounds') = k /\ \A i \in 1 .. k : rounds'[i] = rounds[draft.prefix + i]
            BY <3>2, <3>3, <1>0, RecentOk
        <3>5. \A i \in 1 .. k : rounds'[i].n = summary.of + draft.prefix + i
            <4>1. \A j \in 1 .. Len(rounds) : rounds[j].n = summary.of + j
                BY DEF LoopIInv, L!HistoryComplete
            <4>2. \A i \in 1 .. k : draft.prefix + i \in 1 .. Len(rounds)
                BY <3>2, <1>0
            <4>3. \A i \in 1 .. k : summary.of + (draft.prefix + i) = summary.of + draft.prefix + i
                BY <3>2, <1>0
            <4> QED
                BY <3>4, <4>1, <4>2, <4>3
        <3>6. summary.of + Len(rounds) = round - 1
            BY <2>1 DEF LoopIInv, L!HistoryComplete
        <3>7. summary'.of + Len(rounds') = round' - 1
            BY <2>1, <3>2, <3>3, <3>4, <3>6, <1>0
        <3> QED
            BY <2>1, <3>1, <3>3, <3>4, <3>5, <3>7, <1>0 DEF L!HistoryComplete
    <2>5. UNCHANGED <<rounds, summary>> \/ \E size \in DraftSizes : L!Commit(size)
        BY <1>3 DEF L!Summary, L!Summarised, L!talk
    <2> QED
        BY <2>2, <2>3, <2>5
<1>4. CASE L!Retry
    BY <1>4, <1>0 DEF L!Retry, L!End, L!Fail, L!chain, L!talk, L!vars, LoopIInv,
        L!HistoryComplete
<1>5. CASE L!Refused
    BY <1>5, <1>0 DEF L!Refused, L!Fallback, L!Again, L!Asking, L!End, L!Fail, L!chain,
        L!talk, L!vars, LoopIInv, L!HistoryComplete
<1>6. CASE L!Answer
    BY <1>6, <1>0 DEF L!Answer, L!End, L!Fail, L!chain, L!talk, L!vars, LoopIInv,
        L!HistoryComplete
<1>7. CASE L!Tool
    <2>1. summary' = summary /\ round' = round /\ pc = "tools"
        BY <1>7 DEF L!Tool
    <2>2. CASE UNCHANGED rounds /\ pc' # "round"
        BY <2>1, <2>2 DEF LoopIInv, L!HistoryComplete
    <2>3. ASSUME NEW size \in RoundSizes, pc' = "round",
                 L!Record(calls.size + L!Recorded(size))
          PROVE  L!HistoryComplete'
        <3>1. L!Recorded(size) \in Nat /\ calls.size \in Nat
            BY Constants DEF L!Recorded, LoopIInv, LoopTypes, TalkTypes
        <3>2. /\ Len(rounds') = Len(rounds) + 1 /\ rounds'[Len(rounds) + 1].n = round
              /\ \A i \in 1 .. Len(rounds) : rounds'[i] = rounds[i]
            BY <2>3, <3>1, <1>0, RecordOk
        <3>3. summary.of + Len(rounds) = round - 1
            BY <2>1 DEF LoopIInv, L!HistoryComplete
        <3>4. \A i \in 1 .. Len(rounds) : rounds[i].n = summary.of + i
            BY DEF LoopIInv, L!HistoryComplete
        <3> QED
            <4>1. summary.of + (Len(rounds) + 1) = round /\ summary.of + Len(rounds') = round
                BY <3>2, <3>3, <1>0
            <4>2. \A i \in 1 .. Len(rounds) + 1 : rounds'[i].n = summary.of + i
                <5> TAKE i \in 1 .. Len(rounds) + 1
                <5>1. CASE i \in 1 .. Len(rounds)
                    BY <5>1, <3>2, <3>4
                <5>2. CASE i = Len(rounds) + 1
                    BY <5>2, <3>2, <4>1
                <5> QED
                    BY <5>1, <5>2, <1>0
            <4> QED
                BY <2>1, <2>3, <3>2, <4>1, <4>2 DEF L!HistoryComplete
    <2> QED
        BY <1>7, <2>2, <2>3 DEF L!Tool, L!End, L!Fail, LoopIInv, LoopTypes, FlowTypes
<1>8. CASE L!Stop
    BY <1>8, <1>0 DEF L!Stop, L!End, L!Fail, L!chain, L!talk, L!vars, LoopIInv,
        L!HistoryComplete
<1>9. CASE UNCHANGED L!vars
    BY <1>9, <1>0 DEF L!vars, L!talk, LoopIInv, L!HistoryComplete
<1> QED
    BY <1>1, <1>2, <1>3, <1>4, <1>5, <1>6, <1>7, <1>8, <1>9, Nexts

\* No step asks a model for more than its window.
LEMMA NextWindow ==
    ASSUME L!Sorts, LoopIInv, [L!Next]_L!vars
    PROVE  L!WithinWindow'
<1>1. CASE L!Begin
    BY <1>1 DEF L!Begin, L!End, L!Fail, L!chain, L!talk, L!vars, LoopIInv, L!WithinWindow,
        L!Before, L!Window, L!Cost, L!Weight
<1>2. CASE L!Budget
    <2>1. UNCHANGED <<rounds, summary, plan, idx, compaction>>
        BY <1>2 DEF L!Budget, L!talk
    <2>2. pc' = "ask" /\ compaction => pc = "budget" /\ ~L!TooLarge /\ L!Unneeded
        BY <1>2 DEF L!Budget, L!End
    <2>3. pc' = "ask" /\ compaction => L!Before <= L!Window
        BY <2>2, SentFits
    <2>4. L!Before' = L!Before /\ L!Window' = L!Window
        BY <2>1 DEF L!Before, L!Window, L!Cost, L!Weight
    <2> QED
        BY <2>1, <2>3, <2>4 DEF L!WithinWindow
<1>3. CASE L!Summary
    <2>1. UNCHANGED <<plan, idx, compaction>>
        BY <1>3 DEF L!Summary
    <2>2. L!Window' = L!Window
        BY <2>1 DEF L!Window
    <2>3. pc' = "ask" => \E size \in DraftSizes : L!Summarised(size)
        BY <1>3 DEF L!Summary, L!End
    <2>4. CASE UNCHANGED <<rounds, summary>> /\ L!OriginalFits
        <3>1. L!Before' = L!Before
            BY <2>4 DEF L!Before, L!Weight
        <3> QED
            BY <2>1, <2>2, <2>4, <3>1 DEF L!WithinWindow, L!OriginalFits
    <2>5. ASSUME NEW size \in DraftSizes, L!Usable(size), L!Commit(size)
          PROVE  L!WithinWindow'
        <3>1. L!Before' = L!Cost(size, L!Recent(Len(rounds) - draft.prefix))
            BY <2>5 DEF L!Before, L!Commit, L!Cost, L!Weight
        <3> QED
            BY <2>1, <2>2, <2>5, <3>1 DEF L!WithinWindow, L!Usable
    <2>6. CASE pc' # "ask"
        BY <2>6 DEF L!WithinWindow
    <2> QED
        <3>1. pc = "summary"
            BY <1>3 DEF L!Summary
        <3>2. CASE pc' = "ask"
            <4>1. PICK size \in DraftSizes : L!Summarised(size)
                BY <2>3, <3>2
            <4>2. \/ L!Usable(size) /\ L!Commit(size)
                  \/ UNCHANGED <<rounds, summary>> /\ L!OriginalFits
                BY <3>1, <3>2, <4>1 DEF L!Summarised, L!End, L!talk
            <4> QED
                BY <2>4, <2>5, <4>2
        <3> QED
            BY <2>6, <3>2
<1>4. CASE L!Retry
    BY <1>4 DEF L!Retry, L!End, L!Fail, L!chain, L!talk, L!vars, LoopIInv, L!WithinWindow,
        L!Before, L!Window, L!Cost, L!Weight
<1>5. CASE L!Refused
    BY <1>5 DEF L!Refused, L!Fallback, L!Again, L!Asking, L!End, L!Fail, L!chain, L!talk,
        L!vars, LoopIInv, L!WithinWindow, L!Before, L!Window, L!Cost, L!Weight
<1>6. CASE L!Answer
    BY <1>6 DEF L!Answer, L!Fail, L!chain, L!talk, L!vars, LoopIInv, L!WithinWindow,
        L!Before, L!Window, L!Cost, L!Weight
<1>7. CASE L!Tool
    BY <1>7 DEF L!Tool, L!End, L!Fail, L!chain, L!talk, L!vars, LoopIInv, L!WithinWindow,
        L!Before, L!Window, L!Cost, L!Weight
<1>8. CASE L!Stop
    BY <1>8 DEF L!Stop, L!End, L!Fail, L!chain, L!talk, L!vars, LoopIInv, L!WithinWindow,
        L!Before, L!Window, L!Cost, L!Weight
<1>9. CASE UNCHANGED L!vars
    BY <1>9 DEF L!vars, L!chain, L!talk, LoopIInv, L!WithinWindow, L!Before, L!Window,
        L!Cost, L!Weight
<1> QED
    BY <1>1, <1>2, <1>3, <1>4, <1>5, <1>6, <1>7, <1>8, <1>9, Nexts

\* Every step keeps the invariant.
LEMMA LoopIInvNext ==
    ASSUME L!Sorts, LoopIInv, [L!Next]_L!vars
    PROVE  LoopIInv'
BY NextPlanTypes, NextFlowTypes, NextTalkTypes, NextDraft, NextIdx, NextHistory,
    NextWindow, NextQuota DEF LoopIInv, LoopTypes

\* It holds at first.
LEMMA LoopIInvInit ==
    ASSUME L!Sorts, L!Init
    PROVE  LoopIInv
<1>1. /\ {MaxSummaries, MaxRewrites, MaxCalls, MaxRounds, Retries} \subseteq Nat
    BY Constants
<1>2. PICK p \in Chains : plan = p.models /\ compaction = p.compaction
    BY DEF L!Init
<1>3. plan \in Seq(L!Models) /\ compaction \in BOOLEAN /\ Len(plan) \in Nat
    BY <1>2, LenProperties DEF L!Sorts
<1>4. \A i \in 1 .. Len(plan) : plan[i].effort \in Nat
    <2>1. \A i \in 1 .. Len(plan) : plan[i] \in L!Models
        BY <1>3
    <2> QED
        BY <2>1 DEF L!Models
<1>5. PlanTypes
    BY <1>2, <1>3, <1>4 DEF L!Init, PlanTypes
<1>6. FlowTypes
    <2>1. 0 \in 0 .. MaxRounds /\ 0 \in 0 .. Retries
        BY <1>1
    <2> QED
        BY <2>1 DEF L!Init, FlowTypes
<1>7. rounds \in Seq(Rounds) /\ Len(rounds) = 0 /\ rounds = <<>>
    BY DEF L!Init
<1>8. TalkTypes
    BY <1>1, <1>7 DEF L!Init, TalkTypes, L!NoDraft
<1>9. DraftInv
    BY <1>7 DEF L!Init, DraftInv, L!NoDraft
<1>10. IdxInv /\ L!WithinWindow /\ L!QuotaRemembered
    BY <1>3 DEF L!Init, IdxInv, L!WithinWindow, L!QuotaRemembered
<1>11. L!HistoryComplete
    BY <1>7 DEF L!Init, L!HistoryComplete
<1> QED
    BY <1>5, <1>6, <1>8, <1>9, <1>10, <1>11 DEF LoopIInv, LoopTypes

\* And it implies what the run checks.
LEMMA LoopIInvLoop ==
    ASSUME L!Sorts, LoopIInv
    PROVE  L!LoopInv
<1>1. Len(plan) \in Nat /\ MaxSummaries \in Nat /\ MaxRewrites \in Nat
    BY Constants, LenProperties DEF PlanTypes
<1>2. L!ModelLoopTypes
    BY SMTT(30), <1>1 DEF LoopIInv, LoopTypes, PlanTypes, FlowTypes, TalkTypes, DraftInv, IdxInv,
        L!ModelLoopTypes
<1> QED
    BY <1>2 DEF LoopIInv, L!LoopInv

\* Its sorts are those that are assumed.
LEMMA SortsGiven == L!Sorts
BY ModelLoopAssumption DEF Sorts, L!Sorts, Models, L!Models

\* Whatever the models answer, no round of the conversation is lost, what is asked fits the
\* window of the model that is asked, and a model without quota is not asked again
\* (run_model_loop, codex_model_runner.py).
THEOREM LoopsKept == L!Spec => []LoopInv
<1>1. L!Init => LoopIInv
    BY SortsGiven, LoopIInvInit
<1>2. LoopIInv /\ [L!Next]_L!vars => LoopIInv'
    BY SortsGiven, LoopIInvNext
<1>3. LoopIInv => L!LoopInv
    BY SortsGiven, LoopIInvLoop
<1>4. L!LoopInv => LoopInv
    BY Zenon DEF L!LoopInv, LoopInv, L!ModelLoopTypes, ModelLoopTypes, L!HistoryComplete,
        HistoryComplete, L!WithinWindow, WithinWindow, L!QuotaRemembered, QuotaRemembered,
        L!Before, Before, L!Window, Window, L!Cost, Cost, L!Weight, Weight
<1> QED
    BY <1>1, <1>2, <1>3, <1>4, PTL DEF L!Spec

================================================================================
