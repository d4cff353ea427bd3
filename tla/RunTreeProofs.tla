---------------------------- MODULE RunTreeProofs ----------------------------
(***************************************************************************)
(* Proofs about RunTree, for any finite forest of runs, any limits and any *)
(* number of cancellations and time limits.                                *)
(*                                                                         *)
(* ForestAssumption says what a Parent without cycles gives by induction.  *)
(***************************************************************************)
EXTENDS RunTree, FiniteSetTheorems, TLAPS

Live(r) == pc[r] \notin {"idle", "over"}
Begun(r) == pc[r] \in {"running", "waiting", "ending", "over"}

\* Every run above a live one waits, and the live runs of a tree form a chain,
\* so that at most one of them does not wait.
ChainInv ==
    /\ \A d \in Runs : \A a \in Ancestors[d] :
        /\ pc[d] # "idle" => Begun(a)
        /\ Live(d) => pc[a] = "waiting"
    /\ \A t \in Runs : \A d, e \in Tree(t) :
        Live(d) /\ Live(e) => d = e \/ d \in Ancestors[e] \/ e \in Ancestors[d]

\* Where a run is says what its row says, and when it has a slot.
SlotInv ==
    \A r \in Runs :
        /\ pc[r] \in {"idle", "called", "counted"} => ~slot[r] /\ status[r] = "none"
        /\ pc[r] = "leasing" /\ status[r] = "queued" => slot[r]
        /\ pc[r] = "preparing" => slot[r] /\ status[r] = "preparing"
        /\ pc[r] \in {"running", "waiting"} => slot[r] /\ status[r] = "running"

\* The database counts slots right.
CapacityInv ==
    /\ Slots({r \in Runs : IsRoot(r)}) <= GlobalLimit
    /\ \A a \in Agents : Slots({r \in Runs : AgentOf[r] = a}) <= AgentLimit[a]

\* Under a stop nothing starts or goes on by itself.
StopInv ==
    \A r \in Runs :
        /\ pc[r] = "idle" => stop[r] = "none"
        /\ StopAbove(r) => pc[r] \in {"idle", "waiting", "ending", "over"}

\* Reasons to stop have an origin.
BlameInv ==
    \A r \in Runs :
        /\ stop[r] = "administrator" =>
               \E a \in {r} \union Ancestors[r] : request[a] = "administrator"
        /\ stop[r] = "service_shutdown" => shutdown
        /\ stop[r] = "parent_timeout" => \E a \in Ancestors[r] : stop[a] = "timeout"
        /\ request[r] = "service_shutdown" => shutdown
        /\ cause[r] # "none" => pc[r] = "over"

IInv ==
    /\ TypeOK
    /\ ChainInv
    /\ SlotInv
    /\ CapacityInv
    /\ StopInv
    /\ BlameInv
    /\ CauseIsTrue

LEMMA Forest ==
    \A r \in Runs :
        /\ Ancestors[r] \subseteq Runs /\ r \notin Ancestors[r]
        /\ IsRoot(r) => Ancestors[r] = {}
        /\ ~IsRoot(r) => Parent[r] \in Runs /\ Ancestors[r] = {Parent[r]} \union Ancestors[Parent[r]]
        /\ \A a \in Ancestors[r] :
            /\ Ancestors[a] \subseteq Ancestors[r]
            /\ \E c \in Runs : Parent[c] = a /\ c \in {r} \union Ancestors[r]
            /\ \A b \in Ancestors[r] : a = b \/ a \in Ancestors[b] \/ b \in Ancestors[a]
BY ForestAssumption, RunTreeAssumption DEF IsRoot

LEMMA Trees ==
    \A r \in Runs : Tree(r) \subseteq Runs /\ r \in Tree(r)
BY DEF Tree

\* A run is told to stop exactly if it or a run above it is.
LEMMA Effective ==
    ASSUME TypeOK, NEW r \in Runs
    PROVE  /\ EffectiveStop(r) \in Stops
           /\ EffectiveStop(r) # "none" <=> StopAbove(r)
           /\ stop[r] # "none" => EffectiveStop(r) = stop[r]
           /\ stop[r] = "none" /\ EffectiveStop(r) # "none" =>
                  \E a \in Ancestors[r] : EffectiveStop(r) = Inherited(stop[a])
<1> DEFINE above == {a \in Ancestors[r] : stop[a] # "none"}
           near == CHOOSE a \in above : above \intersect Tree(a) = {a}
<1>1. stop[r] \in Stops
    BY DEF TypeOK
<1>2. EffectiveStop(r) = IF stop[r] # "none" THEN stop[r]
                         ELSE IF above = {} THEN "none" ELSE Inherited(stop[near])
    BY DEF EffectiveStop
<1>3. \A s : Inherited(s) \in Stops /\ Inherited(s) # "none"
    BY DEF Inherited, Stops
<1>4. above # {} => near \in Ancestors[r]
    <2>1. above \in SUBSET Ancestors[r]
        OBVIOUS
    <2>2. \A S \in SUBSET Ancestors[r] :
              S # {} => \E a \in S : S \intersect Tree(a) = {a}
        BY ForestAssumption
    <2> HIDE DEF above, near
    <2>3. above # {} => \E a \in above : above \intersect Tree(a) = {a}
        BY <2>1, <2>2
    <2>4. above # {} => near \in above
        BY <2>3 DEF near
    <2> QED
        BY <2>1, <2>4
<1>5. StopAbove(r) <=> stop[r] # "none" \/ above # {}
    BY DEF StopAbove
<1> HIDE DEF above, near
<1> QED
    BY <1>1, <1>2, <1>3, <1>4, <1>5, SMTT(30) DEF Stops

\* The watchdog of r interrupts d, which awaits something, for reason s.
Stopped(r, d, s) ==
    /\ Watched(r)
    /\ d \in Tree(r) /\ pc[d] \notin {"idle", "over", "waiting"}
    /\ s # "none"
    /\ \/ s = EffectiveStop(r)
       \/ s = SourceOf(r)
       \/ s = "timeout"
    /\ stop' = [stop EXCEPT ![r] = s]
    /\ \E o \in {"none", "timed_out", "cancelled"} : outcome' = [outcome EXCEPT ![d] = o]
    /\ \/ /\ pc[d] \in {"capacity", "leasing", "preparing", "running"}
          /\ pc' = [pc EXCEPT ![d] = "ending"]
          /\ UNCHANGED <<status, slot>>
       \/ /\ pc[d] \in {"called", "counted", "reserved", "ending"}
          /\ pc' = [pc EXCEPT ![d] = "over"]
          /\ \/ UNCHANGED <<status, slot>>
             \/ pc[d] = "counted" /\ status' = [status EXCEPT ![d] = "queued"] /\ UNCHANGED slot
             \/ /\ pc[d] = "ending"
                /\ status' = [status EXCEPT ![d] = outcome[d]]
                /\ slot' = [slot EXCEPT ![d] = FALSE]
    /\ UNCHANGED <<request, cause, shutdown>>

LEMMA InterruptEffect ==
    ASSUME TypeOK, NEW r \in Runs, NEW s \in Stops \ {"none"}, NEW late \in BOOLEAN,
           Interrupt(r, s, late), Watched(r),
           s = EffectiveStop(r) \/ s = SourceOf(r) \/ s = "timeout",
           \E d \in Tree(r) : pc[d] \notin {"idle", "over", "waiting"}
    PROVE  \E d \in Runs : Stopped(r, d, s)
<1> DEFINE d == Innermost(r)
           seen == IF d = r THEN s ELSE "interrupted"
           caught == pc[d] \in {"capacity", "leasing", "preparing", "running"}
<1>1. d \in Tree(r) /\ pc[d] \notin {"idle", "over", "waiting"}
    BY DEF Innermost
<1>2. d \in Runs
    BY <1>1, Trees
<1>3. pc[d] \in {"called", "counted", "reserved", "capacity", "leasing", "preparing",
                 "running", "ending"}
    BY <1>1, <1>2 DEF TypeOK
<1>4. /\ caught =>
            outcome' = [outcome EXCEPT ![d] = StatusOf(seen)] /\ pc' = [pc EXCEPT ![d] = "ending"]
      /\ ~caught =>
            outcome' = [outcome EXCEPT ![d] = "none"] /\ pc' = [pc EXCEPT ![d] = "over"]
      /\ stop' = [stop EXCEPT ![r] = s]
      /\ UNCHANGED <<request, cause, shutdown>>
    BY DEF Interrupt
<1>5. \/ UNCHANGED <<status, slot>>
      \/ pc[d] = "counted" /\ status' = [status EXCEPT ![d] = "queued"] /\ UNCHANGED slot
      \/ /\ pc[d] = "ending"
         /\ status' = [status EXCEPT ![d] = outcome[d]]
         /\ slot' = [slot EXCEPT ![d] = FALSE]
    BY DEF Interrupt
<1>6. StatusOf(seen) \in {"timed_out", "cancelled"}
    BY DEF StatusOf
<1> HIDE DEF d, seen
<1>7. \E o \in {"none", "timed_out", "cancelled"} : outcome' = [outcome EXCEPT ![d] = o]
    BY <1>4, <1>6
<1> QED
    BY <1>1, <1>2, <1>3, <1>4, <1>5, <1>7 DEF Stopped

\* What the watchdog does.
LEMMA Watchdog ==
    ASSUME TypeOK, NEW r \in Runs, NEW late \in BOOLEAN,
           WatchdogStops(r, late) \/ WatchdogTimesOut(r, late)
    PROVE  /\ \E s \in Stops, d \in Runs : Stopped(r, d, s)
           /\ \/ used' = used
              \/ used.timeouts < MaxTimeouts /\ used' = [used EXCEPT !.timeouts = @ + 1]
<1>1. CASE WatchdogStops(r, late)
    <2> DEFINE s == IF EffectiveStop(r) # "none" THEN EffectiveStop(r) ELSE SourceOf(r)
    <2>1. s \in Stops \ {"none"}
        <3>1. CASE EffectiveStop(r) # "none"
            BY <3>1, Effective
        <3>2. CASE EffectiveStop(r) = "none"
            BY <1>1, <3>2 DEF WatchdogStops, CancelRequested, SourceOf, TypeOK, Stops
        <3> QED
            BY <3>1, <3>2
    <2>2. Interrupt(r, s, late) /\ Watched(r) /\ used' = used
        BY <1>1 DEF WatchdogStops
    <2>3. s = EffectiveStop(r) \/ s = SourceOf(r)
        OBVIOUS
    <2>4. \E d \in Tree(r) : pc[d] \notin {"idle", "over", "waiting"}
        BY <1>1 DEF WatchdogStops
    <2> HIDE DEF s
    <2> QED
        BY <2>1, <2>2, <2>3, <2>4, InterruptEffect
<1>2. CASE WatchdogTimesOut(r, late)
    <2>1. /\ Interrupt(r, "timeout", late) /\ Watched(r)
          /\ \E d \in Tree(r) : pc[d] \notin {"idle", "over", "waiting"}
          /\ used' = [used EXCEPT !.timeouts = @ + 1] /\ used.timeouts < MaxTimeouts
        BY <1>2 DEF WatchdogTimesOut
    <2>2. "timeout" \in Stops \ {"none"}
        BY DEF Stops
    <2> QED
        BY <2>1, <2>2, InterruptEffect
<1> QED
    BY <1>1, <1>2

LEMMA NextTypeOK ==
    ASSUME TypeOK, [Next]_vars
    PROVE  TypeOK'
<1>1. ASSUME NEW r \in Runs, Call(r) PROVE TypeOK'
    BY <1>1 DEF Call, rows, TypeOK, Terminal
<1>2. ASSUME NEW r \in Runs, CheckLimit(r) PROVE TypeOK'
    BY <1>2 DEF CheckLimit, rows, TypeOK, Terminal
<1>3. ASSUME NEW r \in Runs, Reserve(r) PROVE TypeOK'
    BY <1>3 DEF Reserve, rows, TypeOK, Terminal
<1>4. ASSUME NEW r \in Runs, RecheckFlag(r) PROVE TypeOK'
    BY <1>4 DEF RecheckFlag, RequestCancel, rows, TypeOK, Terminal
<1>5. ASSUME NEW r \in Runs, Acquire(r) PROVE TypeOK'
    BY <1>5 DEF Acquire, rows, TypeOK, Terminal
<1>6. ASSUME NEW r \in Runs, CapacityCancelled(r) PROVE TypeOK'
    BY <1>6 DEF CapacityCancelled, End, rows, TypeOK, Terminal
<1>7. ASSUME NEW r \in Runs, Prepare(r) PROVE TypeOK'
    BY <1>7 DEF Prepare, rows, TypeOK, Terminal
<1>8. ASSUME NEW r \in Runs, NEW res \in {"failed", "cancelled"}, PrepareFails(r, res) PROVE TypeOK'
    BY <1>8 DEF PrepareFails, End, rows, TypeOK, Terminal
<1>9. ASSUME NEW r \in Runs, Start(r) PROVE TypeOK'
    BY <1>9 DEF Start, End, rows, TypeOK, Terminal
<1>10. ASSUME NEW r \in Runs, NEW res \in {"completed", "failed"}, LoopEnds(r, res) PROVE TypeOK'
    <2>1. EffectiveStop(r) \in Stops
        BY Effective
    <2>2. (IF EffectiveStop(r) = "none" THEN res ELSE StatusOf(EffectiveStop(r))) \in Terminal
        BY DEF StatusOf, Terminal
    <2> QED
        BY <1>10, <2>1, <2>2 DEF LoopEnds, End, rows, TypeOK
<1>11. ASSUME NEW r \in Runs, Resume(r) PROVE TypeOK'
    <2>1. EffectiveStop(r) \in Stops
        BY Effective
    <2>2. StatusOf(EffectiveStop(r)) \in Terminal
        BY DEF StatusOf, Terminal
    <2> QED
        BY <1>11, <2>1, <2>2 DEF Resume, End, rows, TypeOK
<1>12. ASSUME NEW r \in Runs, Finish(r) PROVE TypeOK'
    <2>1. EffectiveStop(r) \in Stops
        BY Effective
    <2>2. SourceOf(r) \in Stops
        BY DEF SourceOf, Stops, TypeOK
    <2> DEFINE c == CASE outcome[r] = "timed_out" -> "timeout"
                      [] outcome[r] = "cancelled" /\ SourceOf(r) # "none" -> SourceOf(r)
                      [] outcome[r] = "cancelled" /\ EffectiveStop(r) # "none" -> EffectiveStop(r)
                      [] outcome[r] = "cancelled" -> "interrupted"
                      [] OTHER -> "none"
    <2>3. c \in Stops
        BY <2>1, <2>2 DEF Stops
    <2>4. cause' = [cause EXCEPT ![r] = c]
        BY <1>12 DEF Finish
    <2> HIDE DEF c
    <2> QED
        BY <1>12, <2>3, <2>4 DEF Finish, TypeOK
<1>13. ASSUME NEW r \in Runs, AdminCancel(r) PROVE TypeOK'
    <2>1. used' \in [timeouts : 0 .. MaxTimeouts, cancels : 0 .. MaxCancels]
        <3>1. used.cancels < MaxCancels /\ used' = [used EXCEPT !.cancels = @ + 1]
            BY <1>13 DEF AdminCancel
        <3>2. used.cancels + 1 \in 0 .. MaxCancels
            BY <3>1, RunTreeAssumption DEF TypeOK
        <3> QED
            BY <3>1, <3>2 DEF TypeOK
    <2> QED
        BY <1>13, <2>1 DEF AdminCancel, RequestCancel, TypeOK, Terminal
<1>14. ASSUME NEW r \in Runs, NEW d \in Runs, NEW s \in Stops, Stopped(r, d, s),
           \/ used' = used
           \/ used.timeouts < MaxTimeouts /\ used' = [used EXCEPT !.timeouts = @ + 1]
    PROVE TypeOK'
    <2>1. used' \in [timeouts : 0 .. MaxTimeouts, cancels : 0 .. MaxCancels]
        <3>1. CASE used' = used
            BY <3>1 DEF TypeOK
        <3>2. CASE used.timeouts < MaxTimeouts /\ used' = [used EXCEPT !.timeouts = @ + 1]
            <4>1. used.timeouts + 1 \in 0 .. MaxTimeouts
                BY <3>2, RunTreeAssumption DEF TypeOK
            <4> QED
                BY <3>2, <4>1 DEF TypeOK
        <3> QED
            BY <1>14, <3>1, <3>2
    <2>2. stop' \in [Runs -> Stops] /\ outcome' \in [Runs -> {"none"} \union Terminal]
        BY <1>14 DEF Stopped, TypeOK, Terminal
    <2>3. pc' \in [Runs -> {"idle", "called", "counted", "reserved", "capacity", "leasing",
                           "preparing", "running", "waiting", "ending", "over"}]
        BY <1>14 DEF Stopped, TypeOK
    <2>4. outcome[d] \in {"none"} \union Terminal
        BY DEF TypeOK
    <2>5. \/ UNCHANGED <<status, slot>>
          \/ \E x \in {"none", "queued"} \union Terminal :
                status' = [status EXCEPT ![d] = x] /\ UNCHANGED slot
          \/ \E x \in {"none", "queued"} \union Terminal :
                status' = [status EXCEPT ![d] = x] /\ slot' = [slot EXCEPT ![d] = FALSE]
        BY <1>14, <2>4 DEF Stopped
    <2>6. /\ status' \in [Runs -> {"none", "queued", "preparing", "running"} \union Terminal]
          /\ slot' \in [Runs -> BOOLEAN]
        <3>1. CASE UNCHANGED <<status, slot>>
            BY <3>1 DEF TypeOK
        <3>2. ASSUME NEW x \in {"none", "queued"} \union Terminal,
                     status' = [status EXCEPT ![d] = x],
                     slot' = slot \/ slot' = [slot EXCEPT ![d] = FALSE]
              PROVE  /\ status' \in [Runs -> {"none", "queued", "preparing", "running"} \union Terminal]
                     /\ slot' \in [Runs -> BOOLEAN]
            <4>1. status' \in [Runs -> {"none", "queued", "preparing", "running"} \union Terminal]
                BY <3>2 DEF TypeOK
            <4>2. slot' \in [Runs -> BOOLEAN]
                BY <3>2 DEF TypeOK
            <4> QED
                BY <4>1, <4>2
        <3> QED
            BY <2>5, <3>1, <3>2
    <2> QED
        BY <1>14, <2>1, <2>2, <2>3, <2>6 DEF Stopped, TypeOK
<1>15. ASSUME BeginShutdown PROVE TypeOK'
    BY <1>15 DEF BeginShutdown, rows, TypeOK, Terminal
<1>16. ASSUME Sweep PROVE TypeOK'
    BY <1>16 DEF Sweep, RequestCancel, rows, TypeOK, Terminal
<1>17. ASSUME UNCHANGED vars PROVE TypeOK'
    BY <1>17 DEF vars, rows, TypeOK, Terminal
<1> QED
    BY <1>1, <1>2, <1>3, <1>4, <1>5, <1>6, <1>7, <1>8,
       <1>9, <1>10, <1>11, <1>12, <1>13, <1>14, <1>15, <1>16, <1>17, Watchdog DEF Next, Execute

\* Run r goes on to x by itself.
Step(r, x) ==
    /\ pc[r] \notin {"idle", "over", "waiting"}
    /\ x \notin {"idle", "called", "waiting"}
    /\ Begun(r) => x \in {"ending", "over"}
    /\ pc' = [pc EXCEPT ![r] = x]

Moved ==
    \/ pc' = pc
    \/ \E q \in Runs : Call(q)
    \/ \E q \in Runs : Resume(q) /\ \E x \in {"running", "ending"} : pc' = [pc EXCEPT ![q] = x]
    \/ \E q \in Runs : \E x \in {"counted", "reserved", "capacity", "leasing", "preparing",
                               "running", "ending", "over"} : Step(q, x)

\* A step moves one run, or one run and its parent.
LEMMA PcMoves ==
    ASSUME TypeOK, [Next]_vars
    PROVE  Moved
<1>1. ASSUME NEW r \in Runs, Call(r) PROVE Moved
    BY <1>1 DEF Moved, Call
<1>2. ASSUME NEW r \in Runs, CheckLimit(r) PROVE Moved
    <2>1. Step(r, "over") \/ Step(r, "counted")
        BY <1>2 DEF CheckLimit, Step, Begun
    <2> QED
        BY <2>1 DEF Moved
<1>3. ASSUME NEW r \in Runs, Reserve(r) PROVE Moved
    <2>1. Step(r, "reserved")
        BY <1>3 DEF Reserve, Step, Begun
    <2> QED
        BY <2>1 DEF Moved
<1>4. ASSUME NEW r \in Runs, RecheckFlag(r) PROVE Moved
    <2>1. Step(r, "capacity")
        BY <1>4 DEF RecheckFlag, RequestCancel, Step, Begun
    <2> QED
        BY <2>1 DEF Moved
<1>5. ASSUME NEW r \in Runs, Acquire(r) PROVE Moved
    <2>1. Step(r, "leasing")
        BY <1>5 DEF Acquire, Step, Begun
    <2> QED
        BY <2>1 DEF Moved
<1>6. ASSUME NEW r \in Runs, CapacityCancelled(r) PROVE Moved
    <2>1. Step(r, "ending")
        BY <1>6 DEF CapacityCancelled, End, Step, Begun
    <2> QED
        BY <2>1 DEF Moved
<1>7. ASSUME NEW r \in Runs, Prepare(r) PROVE Moved
    <2>1. Step(r, "preparing")
        BY <1>7 DEF Prepare, Step, Begun
    <2> QED
        BY <2>1 DEF Moved
<1>8. ASSUME NEW r \in Runs, NEW res \in {"failed", "cancelled"}, PrepareFails(r, res) PROVE Moved
    <2>1. Step(r, "ending")
        BY <1>8 DEF PrepareFails, End, Step, Begun
    <2> QED
        BY <2>1 DEF Moved
<1>9. ASSUME NEW r \in Runs, Start(r) PROVE Moved
    <2>1. Step(r, "running") \/ Step(r, "ending")
        BY <1>9 DEF Start, End, Step, Begun
    <2> QED
        BY <2>1 DEF Moved
<1>10. ASSUME NEW r \in Runs, NEW res \in {"completed", "failed"}, LoopEnds(r, res) PROVE Moved
    <2>1. Step(r, "ending")
        BY <1>10 DEF LoopEnds, End, Step, Begun
    <2> QED
        BY <2>1 DEF Moved
<1>11. ASSUME NEW r \in Runs, Resume(r) PROVE Moved
    BY <1>11 DEF Moved, Resume, End
<1>12. ASSUME NEW r \in Runs, Finish(r) PROVE Moved
    <2>1. Step(r, "over")
        BY <1>12 DEF Finish, Step, Begun
    <2> QED
        BY <2>1 DEF Moved
<1>13. ASSUME NEW r \in Runs, AdminCancel(r) PROVE Moved
    BY <1>13 DEF Moved, AdminCancel, RequestCancel
<1>14. ASSUME NEW r \in Runs, NEW d \in Runs, NEW s \in Stops, Stopped(r, d, s),
           \/ used' = used
           \/ used.timeouts < MaxTimeouts /\ used' = [used EXCEPT !.timeouts = @ + 1]
    PROVE Moved
    <2>1. Step(d, "ending") \/ Step(d, "over")
        BY <1>14 DEF Stopped, Step, Begun
    <2> QED
        BY <2>1 DEF Moved
<1>15. ASSUME BeginShutdown PROVE Moved
    BY <1>15 DEF Moved, BeginShutdown
<1>16. ASSUME Sweep PROVE Moved
    BY <1>16 DEF Moved, Sweep, RequestCancel
<1>17. ASSUME UNCHANGED vars PROVE Moved
    BY <1>17 DEF Moved, vars
<1> QED
    BY <1>1, <1>2, <1>3, <1>4, <1>5, <1>6, <1>7, <1>8,
       <1>9, <1>10, <1>11, <1>12, <1>13, <1>14, <1>15, <1>16, <1>17, Watchdog DEF Next, Execute

LEMMA NextSlotInv ==
    ASSUME TypeOK, SlotInv, [Next]_vars
    PROVE  SlotInv'
<1>1. ASSUME NEW r \in Runs, Call(r) PROVE SlotInv'
    BY <1>1 DEF Call, rows, SlotInv, TypeOK
<1>2. ASSUME NEW r \in Runs, CheckLimit(r) PROVE SlotInv'
    BY <1>2 DEF CheckLimit, rows, SlotInv, TypeOK
<1>3. ASSUME NEW r \in Runs, Reserve(r) PROVE SlotInv'
    BY <1>3 DEF Reserve, rows, SlotInv, TypeOK
<1>4. ASSUME NEW r \in Runs, RecheckFlag(r) PROVE SlotInv'
    BY <1>4 DEF RecheckFlag, RequestCancel, rows, SlotInv, TypeOK
<1>5. ASSUME NEW r \in Runs, Acquire(r) PROVE SlotInv'
    BY <1>5 DEF Acquire, rows, SlotInv, TypeOK
<1>6. ASSUME NEW r \in Runs, CapacityCancelled(r) PROVE SlotInv'
    BY <1>6 DEF CapacityCancelled, End, rows, SlotInv, TypeOK
<1>7. ASSUME NEW r \in Runs, Prepare(r) PROVE SlotInv'
    BY <1>7 DEF Prepare, rows, SlotInv, TypeOK
<1>8. ASSUME NEW r \in Runs, NEW res \in {"failed", "cancelled"}, PrepareFails(r, res) PROVE SlotInv'
    BY <1>8 DEF PrepareFails, End, rows, SlotInv, TypeOK
<1>9. ASSUME NEW r \in Runs, Start(r) PROVE SlotInv'
    BY <1>9 DEF Start, End, rows, SlotInv, TypeOK
<1>10. ASSUME NEW r \in Runs, NEW res \in {"completed", "failed"}, LoopEnds(r, res) PROVE SlotInv'
    BY <1>10 DEF LoopEnds, End, rows, SlotInv, TypeOK
<1>11. ASSUME NEW r \in Runs, Resume(r) PROVE SlotInv'
    BY <1>11 DEF Resume, End, rows, SlotInv, TypeOK
<1>12. ASSUME NEW r \in Runs, Finish(r) PROVE SlotInv'
    BY <1>12 DEF Finish, rows, SlotInv, TypeOK
<1>13. ASSUME NEW r \in Runs, AdminCancel(r) PROVE SlotInv'
    BY <1>13 DEF AdminCancel, RequestCancel, rows, SlotInv, TypeOK
<1>14. ASSUME NEW r \in Runs, NEW d \in Runs, NEW s \in Stops, Stopped(r, d, s),
           \/ used' = used
           \/ used.timeouts < MaxTimeouts /\ used' = [used EXCEPT !.timeouts = @ + 1]
    PROVE SlotInv'
    BY <1>14 DEF Stopped, rows, SlotInv, TypeOK
<1>15. ASSUME BeginShutdown PROVE SlotInv'
    BY <1>15 DEF BeginShutdown, rows, SlotInv, TypeOK
<1>16. ASSUME Sweep PROVE SlotInv'
    BY <1>16 DEF Sweep, RequestCancel, rows, SlotInv, TypeOK
<1>17. ASSUME UNCHANGED vars PROVE SlotInv'
    BY <1>17 DEF vars, rows, SlotInv, TypeOK
<1> QED
    BY <1>1, <1>2, <1>3, <1>4, <1>5, <1>6, <1>7, <1>8,
       <1>9, <1>10, <1>11, <1>12, <1>13, <1>14, <1>15, <1>16, <1>17, Watchdog DEF Next, Execute

\* Nobody but a run that acquires one gets a slot.
SlotsMoved ==
    \/ \E q \in Runs : Acquire(q)
    \/ \A q \in Runs : slot'[q] /\ Active(q)' => slot[q] /\ Active(q)

LEMMA SlotMoves ==
    ASSUME TypeOK, SlotInv, [Next]_vars
    PROVE  SlotsMoved
<1>1. ASSUME NEW r \in Runs, Call(r) PROVE SlotsMoved
    BY <1>1 DEF Call, rows, SlotsMoved, SlotInv, TypeOK, Active, Startable
<1>2. ASSUME NEW r \in Runs, CheckLimit(r) PROVE SlotsMoved
    BY <1>2 DEF CheckLimit, rows, SlotsMoved, SlotInv, TypeOK, Active, Startable
<1>3. ASSUME NEW r \in Runs, Reserve(r) PROVE SlotsMoved
    BY <1>3 DEF Reserve, rows, SlotsMoved, SlotInv, TypeOK, Active, Startable
<1>4. ASSUME NEW r \in Runs, RecheckFlag(r) PROVE SlotsMoved
    BY <1>4 DEF RecheckFlag, RequestCancel, rows, SlotsMoved, SlotInv, TypeOK, Active,
        Startable
<1>5. ASSUME NEW r \in Runs, Acquire(r) PROVE SlotsMoved
    BY <1>5 DEF SlotsMoved
<1>6. ASSUME NEW r \in Runs, CapacityCancelled(r) PROVE SlotsMoved
    BY <1>6 DEF CapacityCancelled, End, rows, SlotsMoved, SlotInv, TypeOK, Active, Startable
<1>7. ASSUME NEW r \in Runs, Prepare(r) PROVE SlotsMoved
    BY <1>7 DEF Prepare, rows, SlotsMoved, SlotInv, TypeOK, Active, Startable
<1>8. ASSUME NEW r \in Runs, NEW res \in {"failed", "cancelled"}, PrepareFails(r, res) PROVE SlotsMoved
    BY <1>8 DEF PrepareFails, End, rows, SlotsMoved, SlotInv, TypeOK, Active, Startable
<1>9. ASSUME NEW r \in Runs, Start(r) PROVE SlotsMoved
    BY <1>9 DEF Start, End, rows, SlotsMoved, SlotInv, TypeOK, Active, Startable
<1>10. ASSUME NEW r \in Runs, NEW res \in {"completed", "failed"}, LoopEnds(r, res) PROVE SlotsMoved
    BY <1>10 DEF LoopEnds, End, rows, SlotsMoved, SlotInv, TypeOK, Active, Startable
<1>11. ASSUME NEW r \in Runs, Resume(r) PROVE SlotsMoved
    BY <1>11 DEF Resume, End, rows, SlotsMoved, SlotInv, TypeOK, Active, Startable
<1>12. ASSUME NEW r \in Runs, Finish(r) PROVE SlotsMoved
    BY <1>12 DEF Finish, rows, SlotsMoved, SlotInv, TypeOK, Active, Startable
<1>13. ASSUME NEW r \in Runs, AdminCancel(r) PROVE SlotsMoved
    BY <1>13 DEF AdminCancel, RequestCancel, rows, SlotsMoved, SlotInv, TypeOK, Active,
        Startable
<1>14. ASSUME NEW r \in Runs, NEW d \in Runs, NEW s \in Stops, Stopped(r, d, s),
           \/ used' = used
           \/ used.timeouts < MaxTimeouts /\ used' = [used EXCEPT !.timeouts = @ + 1]
    PROVE SlotsMoved
    BY <1>14 DEF Stopped, rows, SlotsMoved, SlotInv, TypeOK, Active, Startable
<1>15. ASSUME BeginShutdown PROVE SlotsMoved
    BY <1>15 DEF BeginShutdown, rows, SlotsMoved, SlotInv, TypeOK, Active, Startable
<1>16. ASSUME Sweep PROVE SlotsMoved
    BY <1>16 DEF Sweep, RequestCancel, rows, SlotsMoved, SlotInv, TypeOK, Active, Startable
<1>17. ASSUME UNCHANGED vars PROVE SlotsMoved
    BY <1>17 DEF vars, rows, SlotsMoved, SlotInv, TypeOK, Active, Startable
<1> QED
    BY <1>1, <1>2, <1>3, <1>4, <1>5, <1>6, <1>7, <1>8,
       <1>9, <1>10, <1>11, <1>12, <1>13, <1>14, <1>15, <1>16, <1>17, Watchdog DEF Next, Execute

LEMMA NextCapacityInv ==
    ASSUME TypeOK, SlotInv, CapacityInv, [Next]_vars
    PROVE  CapacityInv'
<1> DEFINE Holders(S) == {r \in S : slot[r] /\ Active(r)}
           HoldersNext(S) == {r \in S : slot'[r] /\ Active(r)'}
           roots == {r \in Runs : IsRoot(r)}
           of(a) == {r \in Runs : AgentOf[r] = a}
<1>1. roots \in SUBSET Runs /\ \A a : of(a) \in SUBSET Runs
    OBVIOUS
<1>2. /\ Cardinality(Holders(roots)) <= GlobalLimit
      /\ \A a \in Agents : Cardinality(Holders(of(a))) <= AgentLimit[a]
    BY DEF CapacityInv, Slots
<1>3. CapacityInv' <=>
        /\ Cardinality(HoldersNext(roots)) <= GlobalLimit
        /\ \A a \in Agents : Cardinality(HoldersNext(of(a))) <= AgentLimit[a]
    BY DEF CapacityInv, Slots
<1>4. ASSUME NEW S \in SUBSET Runs
      PROVE  /\ IsFiniteSet(Holders(S)) /\ Cardinality(Holders(S)) \in Nat
             /\ IsFiniteSet(HoldersNext(S)) /\ Cardinality(HoldersNext(S)) \in Nat
    <2>1. Holders(S) \in SUBSET Runs /\ HoldersNext(S) \in SUBSET Runs
        OBVIOUS
    <2> HIDE DEF Holders, HoldersNext
    <2>2. IsFiniteSet(Holders(S)) /\ IsFiniteSet(HoldersNext(S))
        BY <2>1, FS_Subset, RunTreeAssumption
    <2> QED
        BY <2>2, FS_CardinalityType
<1>5. GlobalLimit \in Nat /\ \A a \in Agents : AgentLimit[a] \in Nat
    BY RunTreeAssumption
<1>6. CASE \A q \in Runs : slot'[q] /\ Active(q)' => slot[q] /\ Active(q)
    <2>1. ASSUME NEW S \in SUBSET Runs
          PROVE  Cardinality(HoldersNext(S)) <= Cardinality(Holders(S))
        <3>1. HoldersNext(S) \in SUBSET Holders(S)
            BY <1>6
        <3> HIDE DEF Holders, HoldersNext
        <3> QED
            BY <1>4, <3>1, FS_Subset
    <2> HIDE DEF Holders, HoldersNext, roots, of
    <2>2. Cardinality(HoldersNext(roots)) <= GlobalLimit
        BY <1>1, <1>2, <1>4, <1>5, <2>1
    <2>3. \A a \in Agents : Cardinality(HoldersNext(of(a))) <= AgentLimit[a]
        BY <1>1, <1>2, <1>4, <1>5, <2>1
    <2> QED
        BY <1>3, <2>2, <2>3
<1>7. ASSUME NEW q \in Runs, Acquire(q) PROVE CapacityInv'
    <2>1. \A r \in Runs \ {q} : slot'[r] /\ Active(r)' => slot[r] /\ Active(r)
        BY <1>7 DEF Acquire, TypeOK, Active
    <2>2. ASSUME NEW S \in SUBSET Runs
          PROVE  /\ Cardinality(HoldersNext(S)) <= Cardinality(Holders(S)) + 1
                 /\ q \notin S => Cardinality(HoldersNext(S)) <= Cardinality(Holders(S))
        <3>1. /\ HoldersNext(S) \in SUBSET (Holders(S) \union {q})
              /\ q \notin S => HoldersNext(S) \in SUBSET Holders(S)
            BY <2>1
        <3> HIDE DEF Holders, HoldersNext
        <3>2. IsFiniteSet(Holders(S) \union {q})
            BY <1>4, FS_AddElement
        <3>3. Cardinality(Holders(S) \union {q}) \in Nat
            BY <3>2, FS_CardinalityType
        <3>4. Cardinality(Holders(S) \union {q}) <= Cardinality(Holders(S)) + 1
            <4>1. Cardinality(Holders(S) \union {q}) =
                    IF q \in Holders(S) THEN Cardinality(Holders(S)) ELSE Cardinality(Holders(S)) + 1
                BY <1>4, FS_AddElement
            <4> QED
                BY <1>4, <4>1
        <3>5. Cardinality(HoldersNext(S)) <= Cardinality(Holders(S) \union {q})
            BY <3>1, <3>2, FS_Subset
        <3>6. q \notin S => Cardinality(HoldersNext(S)) <= Cardinality(Holders(S))
            BY <1>4, <3>1, FS_Subset
        <3>7. /\ Cardinality(Holders(S)) \in Nat /\ Cardinality(HoldersNext(S)) \in Nat
            BY <1>4
        <3> QED
            BY <3>3, <3>4, <3>5, <3>6, <3>7
    <2>3. /\ q \in roots => Cardinality(Holders(roots)) < GlobalLimit
          /\ Cardinality(Holders(of(AgentOf[q]))) < AgentLimit[AgentOf[q]]
        BY <1>7 DEF Acquire, Free, Slots
    <2>4. \A a \in Agents : AgentOf[q] # a => q \notin of(a)
        OBVIOUS
    <2> HIDE DEF Holders, HoldersNext, roots, of
    <2>5. Cardinality(HoldersNext(roots)) <= GlobalLimit
        BY <1>1, <1>2, <1>4, <1>5, <2>2, <2>3
    <2>6. ASSUME NEW a \in Agents PROVE Cardinality(HoldersNext(of(a))) <= AgentLimit[a]
        <3>1. CASE AgentOf[q] = a
            BY <1>1, <1>4, <1>5, <2>2, <2>3, <3>1
        <3>2. CASE AgentOf[q] # a
            BY <1>1, <1>2, <1>4, <1>5, <2>2, <2>4, <3>2
        <3> QED
            BY <3>1, <3>2
    <2> QED
        BY <1>3, <2>5, <2>6
<1> QED
    BY <1>6, <1>7, SlotMoves DEF SlotsMoved

\* While no run below it is live, or none can be, a waiting run may go on.
LEMMA NothingBelow ==
    ASSUME TypeOK, ChainInv, NEW q \in Runs,
           \/ pc[q] # "waiting"
           \/ \A c \in Runs : Parent[c] = q => pc[c] \in {"idle", "over"}
    PROVE  \A e \in Runs : q \in Ancestors[e] => ~Live(e)
<1> SUFFICES ASSUME NEW e \in Runs, q \in Ancestors[e], Live(e) PROVE FALSE
    OBVIOUS
<1>1. \A a \in Ancestors[e] : pc[a] = "waiting"
    BY DEF ChainInv
<1>2. \A c \in Runs : Parent[c] = q => pc[c] \in {"idle", "over"}
    BY <1>1
<1>3. PICK c \in Runs : Parent[c] = q /\ c \in {e} \union Ancestors[e]
    BY Forest
<1> QED
    BY <1>1, <1>2, <1>3 DEF Live

LEMMA NextChainInv ==
    ASSUME TypeOK, ChainInv, [Next]_vars
    PROVE  ChainInv'
<1>1. CASE pc' = pc
    BY <1>1 DEF ChainInv, Live, Begun
<1>2. ASSUME NEW q \in Runs, NEW x \in {"counted", "reserved", "capacity", "leasing", "preparing",
                                       "running", "ending", "over"}, pc[q] \notin {"idle", "over"},
             pc' = [pc EXCEPT ![q] = x], Begun(q) => Begun(q)',
             \A e \in Runs : q \in Ancestors[e] => ~Live(e)
      PROVE  ChainInv'
    <2>1. pc'[q] = x /\ \A d \in Runs : d # q => pc'[d] = pc[d]
        BY <1>2 DEF TypeOK
    <2>2. \A d \in Runs : (pc'[d] # "idle" => pc[d] # "idle") /\ (Live(d)' => Live(d))
        BY <1>2, <2>1 DEF Live
    <2>3. \A d \in Runs : Begun(d) => Begun(d)'
        BY <1>2, <2>1 DEF Begun
    <2>4. ASSUME NEW d \in Runs, NEW a \in Ancestors[d]
          PROVE  (pc'[d] # "idle" => Begun(a)') /\ (Live(d)' => pc'[a] = "waiting")
        <3>1. a \in Runs
            BY Forest
        <3>2. (pc[d] # "idle" => Begun(a)) /\ (Live(d) => pc[a] = "waiting")
            BY DEF ChainInv
        <3>3. Live(d) => a # q
            BY <1>2
        <3> QED
            BY <2>1, <2>2, <2>3, <3>1, <3>2, <3>3
    <2>5. ASSUME NEW t \in Runs, NEW d \in Tree(t), NEW e \in Tree(t), Live(d)', Live(e)'
          PROVE  d = e \/ d \in Ancestors[e] \/ e \in Ancestors[d]
        <3>1. Live(d) /\ Live(e)
            BY <2>2, <2>5, Trees
        <3> QED
            BY <3>1 DEF ChainInv
    <2> QED
        BY <2>4, <2>5 DEF ChainInv
<1>3. ASSUME NEW q \in Runs, NEW x \in {"counted", "reserved", "capacity", "leasing", "preparing",
                                       "running", "ending", "over"}, Step(q, x)
      PROVE  ChainInv'
    <2>1. pc[q] \notin {"idle", "over", "waiting"} /\ pc' = [pc EXCEPT ![q] = x]
        BY <1>3 DEF Step
    <2>2. Begun(q) => Begun(q)'
        BY <1>3, <2>1 DEF Step, Begun, TypeOK
    <2>3. \A e \in Runs : q \in Ancestors[e] => ~Live(e)
        BY <2>1, NothingBelow
    <2> QED
        BY <1>2, <2>1, <2>2, <2>3
<1>4. ASSUME NEW q \in Runs, Resume(q), NEW x \in {"running", "ending"}, pc' = [pc EXCEPT ![q] = x]
      PROVE  ChainInv'
    <2>1. pc[q] = "waiting" /\ \A c \in Runs : Parent[c] = q => pc[c] \in {"idle", "over"}
        BY <1>4 DEF Resume
    <2>2. Begun(q)'
        BY <1>4 DEF Begun, TypeOK
    <2>3. \A e \in Runs : q \in Ancestors[e] => ~Live(e)
        BY <2>1, NothingBelow
    <2> QED
        BY <1>2, <1>4, <2>1, <2>2, <2>3
<1>5. ASSUME NEW q \in Runs, Call(q), IsRoot(q) PROVE ChainInv'
    <2>1. pc[q] = "idle" /\ pc'[q] = "called" /\ \A d \in Runs : d # q => pc'[d] = pc[d]
        BY <1>5 DEF Call, TypeOK
    <2>2. Ancestors[q] = {}
        BY <1>5, Forest
    <2>3. \A d \in Runs : q \in Ancestors[d] => pc[d] = "idle" /\ pc'[d] = "idle"
        <3> SUFFICES ASSUME NEW d \in Runs, q \in Ancestors[d] PROVE pc[d] = "idle" /\ pc'[d] = "idle"
            OBVIOUS
        <3>1. pc[d] = "idle"
            BY <2>1 DEF ChainInv, Begun
        <3> QED
            BY <2>1, <2>2, <3>1
    <2>4. ASSUME NEW d \in Runs, NEW a \in Ancestors[d]
          PROVE  (pc'[d] # "idle" => Begun(a)') /\ (Live(d)' => pc'[a] = "waiting")
        <3>1. a \in Runs /\ d # q
            BY <2>2, Forest
        <3>2. (pc[d] # "idle" => Begun(a)) /\ (Live(d) => pc[a] = "waiting")
            BY DEF ChainInv
        <3> QED
            BY <2>1, <2>3, <3>1, <3>2 DEF Live, Begun
    <2>5. ASSUME NEW t \in Runs, NEW d \in Tree(t), NEW e \in Tree(t), Live(d)', Live(e)'
          PROVE  d = e \/ d \in Ancestors[e] \/ e \in Ancestors[d]
        <3>1. CASE d # q /\ e # q
            BY <2>1, <2>5, <3>1, Trees DEF ChainInv, Live
        <3>2. CASE d = q \/ e = q
            BY <2>2, <3>2 DEF Tree
        <3> QED
            BY <3>1, <3>2
    <2> QED
        BY <2>4, <2>5 DEF ChainInv
<1>6. ASSUME NEW q \in Runs, Call(q), ~IsRoot(q) PROVE ChainInv'
    <2> DEFINE p == Parent[q]
    <2>1. p \in Runs /\ p # q /\ Ancestors[q] = {p} \union Ancestors[p] /\ q \notin Ancestors[q]
        BY <1>6, Forest
    <2>2. /\ pc[q] = "idle" /\ pc[p] = "running"
          /\ pc' = [pc EXCEPT ![q] = "called", ![p] = "waiting"]
        BY <1>6 DEF Call
    <2> HIDE DEF p
    <2>3. pc'[q] = "called" /\ pc'[p] = "waiting" /\ \A d \in Runs : d \notin {p, q} => pc'[d] = pc[d]
        BY <2>1, <2>2 DEF TypeOK
    <2>4. \A d \in Runs : q \in Ancestors[d] => pc[d] = "idle"
        BY <2>2 DEF ChainInv, Begun
    <2>5. \A d \in Runs : p \in Ancestors[d] => ~Live(d)
        BY <2>1, <2>2, NothingBelow
    <2>6. ASSUME NEW d \in Runs, NEW a \in Ancestors[d]
          PROVE  (pc'[d] # "idle" => Begun(a)') /\ (Live(d)' => pc'[a] = "waiting")
        <3>1. a \in Runs /\ a # d
            BY Forest
        <3>2. (pc[d] # "idle" => Begun(a)) /\ (Live(d) => pc[a] = "waiting")
            BY DEF ChainInv
        <3>3. CASE d = q
            <4>1. CASE a = p
                BY <2>3, <4>1 DEF Begun
            <4>2. CASE a # p
                <5>1. a \in Ancestors[p]
                    BY <2>1, <3>3, <4>2
                <5>2. pc[a] = "waiting"
                    BY <2>1, <2>2, <5>1 DEF ChainInv, Live
                <5> QED
                    BY <2>2, <2>3, <3>1, <4>2, <5>2 DEF Begun
            <4> QED
                BY <4>1, <4>2
        <3>4. CASE d # q
            <4>1. CASE a = q
                <5>1. pc[d] = "idle"
                    BY <2>4, <4>1
                <5> QED
                    BY <2>2, <2>3, <3>4, <5>1 DEF Live
            <4>2. CASE a # q
                <5>1. Live(d)' => Live(d)
                    BY <2>2, <2>3, <3>4 DEF Live
                <5>2. pc'[d] # "idle" => pc[d] # "idle"
                    BY <2>2, <2>3, <3>4
                <5>3. Begun(a) => Begun(a)'
                    BY <2>3, <3>1, <4>2 DEF Begun
                <5>4. Live(d) => a # p
                    BY <2>5
                <5> QED
                    BY <2>3, <3>1, <3>2, <4>2, <5>1, <5>2, <5>3, <5>4
            <4> QED
                BY <4>1, <4>2
        <3> QED
            BY <3>3, <3>4
    <2>7. ASSUME NEW t \in Runs, NEW e \in Runs, e \in Tree(t), q \in Tree(t), e # q, Live(e)'
          PROVE  q \in Ancestors[e] \/ e \in Ancestors[q]
        <3>1. Live(e)
            BY <2>2, <2>3, <2>7 DEF Live
        <3>2. CASE t = q
            BY <2>7, <3>2 DEF Tree
        <3>3. CASE t # q
            <4>1. p \in Tree(t)
                BY <2>1, <2>7, <3>3 DEF Tree
            <4>2. p = e \/ p \in Ancestors[e] \/ e \in Ancestors[p]
                BY <2>2, <2>7, <3>1, <4>1 DEF ChainInv, Live
            <4> QED
                BY <2>1, <2>5, <3>1, <4>2
        <3> QED
            BY <3>2, <3>3
    <2>8. ASSUME NEW t \in Runs, NEW d \in Tree(t), NEW e \in Tree(t), Live(d)', Live(e)'
          PROVE  d = e \/ d \in Ancestors[e] \/ e \in Ancestors[d]
        <3>1. d \in Runs /\ e \in Runs
            BY Trees
        <3>2. CASE d # q /\ e # q
            <4>1. Live(d) /\ Live(e)
                BY <2>2, <2>3, <2>8, <3>1, <3>2 DEF Live
            <4> QED
                BY <4>1 DEF ChainInv
        <3>3. CASE d = q \/ e = q
            BY <2>7, <2>8, <3>1, <3>3
        <3> QED
            BY <3>2, <3>3
    <2> QED
        BY <2>6, <2>8 DEF ChainInv
<1> QED
    BY <1>1, <1>3, <1>4, <1>5, <1>6, PcMoves DEF Moved

\* How reasons to stop change: a run takes over the reason above it when it
\* ends, and the watchdog sets its reason.
StopMoved ==
    \/ stop' = stop
    \/ \E q \in Runs : /\ Resume(q) /\ EffectiveStop(q) # "none"
                      /\ stop' = [stop EXCEPT ![q] = EffectiveStop(q)]
                      /\ pc' = [pc EXCEPT ![q] = "ending"]
    \/ \E q \in Runs, d \in Runs, s \in Stops : Stopped(q, d, s)

LEMMA StopMoves ==
    ASSUME TypeOK, StopInv, [Next]_vars
    PROVE  StopMoved
<1>1. ASSUME NEW r \in Runs, Call(r) PROVE StopMoved
    BY <1>1 DEF StopMoved, Call, rows
<1>2. ASSUME NEW r \in Runs, CheckLimit(r) PROVE StopMoved
    BY <1>2 DEF StopMoved, CheckLimit, rows
<1>3. ASSUME NEW r \in Runs, Reserve(r) PROVE StopMoved
    BY <1>3 DEF StopMoved, Reserve, rows
<1>4. ASSUME NEW r \in Runs, RecheckFlag(r) PROVE StopMoved
    BY <1>4 DEF StopMoved, RecheckFlag, RequestCancel, rows
<1>5. ASSUME NEW r \in Runs, Acquire(r) PROVE StopMoved
    BY <1>5 DEF StopMoved, Acquire, rows
<1>6. ASSUME NEW r \in Runs, CapacityCancelled(r) PROVE StopMoved
    BY <1>6 DEF StopMoved, CapacityCancelled, End, rows
<1>7. ASSUME NEW r \in Runs, Prepare(r) PROVE StopMoved
    BY <1>7 DEF StopMoved, Prepare, rows
<1>8. ASSUME NEW r \in Runs, NEW res \in {"failed", "cancelled"}, PrepareFails(r, res) PROVE StopMoved
    BY <1>8 DEF StopMoved, PrepareFails, End, rows
<1>9. ASSUME NEW r \in Runs, Start(r) PROVE StopMoved
    BY <1>9 DEF StopMoved, Start, End, rows
<1>10. ASSUME NEW r \in Runs, NEW res \in {"completed", "failed"}, LoopEnds(r, res) PROVE StopMoved
    <2>1. ~StopAbove(r)
        BY <1>10 DEF LoopEnds, StopInv
    <2>2. EffectiveStop(r) = "none" /\ stop[r] = "none"
        BY <2>1, Effective DEF StopAbove
    <2>3. stop' = [stop EXCEPT ![r] = "none"]
        BY <1>10, <2>2 DEF LoopEnds
    <2>4. stop' = stop
        BY <2>2, <2>3 DEF TypeOK
    <2> QED
        BY <2>4 DEF StopMoved
<1>11. ASSUME NEW r \in Runs, Resume(r) PROVE StopMoved
    <2>1. CASE EffectiveStop(r) # "none"
        BY <1>11, <2>1 DEF StopMoved, Resume, End
    <2>2. CASE EffectiveStop(r) = "none"
        BY <1>11, <2>2 DEF StopMoved, Resume
    <2> QED
        BY <2>1, <2>2
<1>12. ASSUME NEW r \in Runs, Finish(r) PROVE StopMoved
    BY <1>12 DEF StopMoved, Finish, rows
<1>13. ASSUME NEW r \in Runs, AdminCancel(r) PROVE StopMoved
    BY <1>13 DEF StopMoved, AdminCancel, RequestCancel, rows
<1>14. ASSUME NEW r \in Runs, NEW d \in Runs, NEW s \in Stops, Stopped(r, d, s),
           \/ used' = used
           \/ used.timeouts < MaxTimeouts /\ used' = [used EXCEPT !.timeouts = @ + 1]
    PROVE StopMoved
    BY <1>14 DEF StopMoved
<1>15. ASSUME BeginShutdown PROVE StopMoved
    BY <1>15 DEF StopMoved, BeginShutdown, rows
<1>16. ASSUME Sweep PROVE StopMoved
    BY <1>16 DEF StopMoved, Sweep, RequestCancel, rows
<1>17. ASSUME UNCHANGED vars PROVE StopMoved
    BY <1>17 DEF StopMoved, vars, rows
<1> QED
    BY <1>1, <1>2, <1>3, <1>4, <1>5, <1>6, <1>7, <1>8,
       <1>9, <1>10, <1>11, <1>12, <1>13, <1>14, <1>15, <1>16, <1>17, Watchdog DEF Next, Execute

\* A reason stays.
LEMMA StopStays ==
    ASSUME TypeOK, StopInv, [Next]_vars
    PROVE  \A r \in Runs : stop[r] # "none" => stop'[r] = stop[r]
<1>1. CASE stop' = stop
    BY <1>1
<1>2. ASSUME NEW q \in Runs, stop' = [stop EXCEPT ![q] = EffectiveStop(q)]
      PROVE  \A r \in Runs : stop[r] # "none" => stop'[r] = stop[r]
    <2>1. stop[q] # "none" => EffectiveStop(q) = stop[q]
        BY Effective
    <2> QED
        BY <1>2, <2>1 DEF TypeOK
<1>3. ASSUME NEW q \in Runs, NEW d \in Runs, NEW s \in Stops, Stopped(q, d, s)
      PROVE  \A r \in Runs : stop[r] # "none" => stop'[r] = stop[r]
    BY <1>3 DEF Stopped, Watched, TypeOK
<1> QED
    BY <1>1, <1>2, <1>3, StopMoves DEF StopMoved

LEMMA NextStopInv ==
    ASSUME TypeOK, ChainInv, StopInv, [Next]_vars
    PROVE  StopInv'
<1>1. CASE stop' = stop
    <2>1. \A r \in Runs : StopAbove(r)' <=> StopAbove(r)
        BY <1>1 DEF StopAbove
    <2>2. CASE pc' = pc
        BY <1>1, <2>1, <2>2 DEF StopInv
    <2>3. ASSUME NEW q \in Runs, NEW x \in {"counted", "reserved", "capacity", "leasing", "preparing",
                                           "running", "ending", "over"}, Step(q, x)
          PROVE  StopInv'
        <3>1. pc'[q] = x /\ \A r \in Runs : r # q => pc'[r] = pc[r]
            BY <2>3 DEF Step, TypeOK
        <3>2. StopAbove(q) => x \in {"ending", "over"}
            BY <2>3 DEF Step, StopInv, Begun
        <3> QED
            BY <1>1, <2>1, <3>1, <3>2 DEF StopInv
    <2>4. ASSUME NEW q \in Runs, Resume(q), NEW x \in {"running", "ending"}, pc' = [pc EXCEPT ![q] = x]
          PROVE  StopInv'
        <3>1. pc'[q] = x /\ \A r \in Runs : r # q => pc'[r] = pc[r]
            BY <2>4 DEF TypeOK
        <3>2. StopAbove(q) => x = "ending"
            <4>1. StopAbove(q) => EffectiveStop(q) # "none"
                BY Effective
            <4> QED
                BY <2>4, <3>1, <4>1 DEF Resume, End, TypeOK
        <3> QED
            BY <1>1, <2>1, <3>1, <3>2 DEF StopInv
    <2>5. ASSUME NEW q \in Runs, Call(q) PROVE StopInv'
        <3>1. /\ pc[q] = "idle" /\ pc'[q] = "called"
              /\ \A r \in Runs : r # q => pc'[r] = pc[r] \/ (pc'[r] = "waiting" /\ pc[r] = "running")
            <4>1. CASE IsRoot(q)
                BY <2>5, <4>1 DEF Call, TypeOK
            <4>2. CASE ~IsRoot(q)
                <5>1. Parent[q] \in Runs /\ Parent[q] # q
                    BY <4>2, Forest
                <5> QED
                    BY <2>5, <4>2, <5>1 DEF Call, TypeOK
            <4> QED
                BY <4>1, <4>2
        <3>2. ~StopAbove(q)
            <4>1. stop[q] = "none"
                BY <3>1 DEF StopInv
            <4>2. CASE IsRoot(q)
                BY <4>1, <4>2, Forest DEF StopAbove
            <4>3. CASE ~IsRoot(q)
                <5>1. Parent[q] \in Runs /\ Ancestors[q] = {Parent[q]} \union Ancestors[Parent[q]]
                    BY <4>3, Forest
                <5>2. EffectiveStop(Parent[q]) = "none"
                    BY <2>5, <4>3 DEF Call
                <5>3. ~StopAbove(Parent[q])
                    BY <5>1, <5>2, Effective
                <5> QED
                    BY <4>1, <5>1, <5>3 DEF StopAbove
            <4> QED
                BY <4>2, <4>3
        <3> QED
            BY <1>1, <2>1, <3>1, <3>2 DEF StopInv
    <2> QED
        BY <2>2, <2>3, <2>4, <2>5, PcMoves DEF Moved
<1>2. ASSUME NEW q \in Runs, Resume(q), EffectiveStop(q) # "none",
             stop' = [stop EXCEPT ![q] = EffectiveStop(q)], pc' = [pc EXCEPT ![q] = "ending"]
      PROVE  StopInv'
    <2>1. pc'[q] = "ending" /\ \A r \in Runs : r # q => pc'[r] = pc[r] /\ stop'[r] = stop[r]
        BY <1>2 DEF TypeOK
    <2>2. \A r \in Runs : q \in Ancestors[r] => pc[r] \in {"idle", "over"}
        <3>1. \A c \in Runs : Parent[c] = q => pc[c] \in {"idle", "over"}
            BY <1>2 DEF Resume
        <3> QED
            BY <3>1, NothingBelow DEF Live
    <2>3. \A r \in Runs : StopAbove(r)' => StopAbove(r) \/ r = q \/ q \in Ancestors[r]
        BY <2>1, Forest DEF StopAbove
    <2> QED
        BY <2>1, <2>2, <2>3 DEF StopInv
<1>3. ASSUME NEW q \in Runs, NEW d \in Runs, NEW s \in Stops, Stopped(q, d, s)
      PROVE  StopInv'
    <2>1. /\ pc'[d] \in {"ending", "over"} /\ \A r \in Runs : r # d => pc'[r] = pc[r]
          /\ \A r \in Runs : r # q => stop'[r] = stop[r]
          /\ pc[q] \in {"running", "waiting"}
          /\ d \in Tree(q) /\ pc[d] \notin {"idle", "over", "waiting"}
        BY <1>3 DEF Stopped, Watched, TypeOK
    <2>2. \A r \in Runs : StopAbove(r)' => StopAbove(r) \/ r \in Tree(q)
        BY <2>1, Forest DEF StopAbove, Tree
    <2>3. ASSUME NEW r \in Tree(q), r # d PROVE pc[r] \in {"idle", "over", "waiting"}
        <3>1. r \in Runs /\ d \in Runs
            BY Trees
        <3>2. Live(r) /\ Live(d) => r = d \/ r \in Ancestors[d] \/ d \in Ancestors[r]
            BY <2>1 DEF ChainInv
        <3>3. Live(d)
            BY <2>1 DEF Live
        <3>4. Live(r) => d \notin Ancestors[r]
            BY <2>1, <3>1 DEF ChainInv
        <3>5. r \in Ancestors[d] => pc[r] = "waiting"
            BY <3>1, <3>3 DEF ChainInv
        <3> QED
            BY <2>3, <3>2, <3>3, <3>4, <3>5 DEF Live
    <2> QED
        BY <2>1, <2>2, <2>3 DEF StopInv
<1> QED
    BY <1>1, <1>2, <1>3, StopMoves DEF StopMoved

\* Where the reason that a run takes over comes from.
LEMMA Origin ==
    ASSUME TypeOK, BlameInv, NEW r \in Runs, NEW s,
           s = EffectiveStop(r) \/ s = SourceOf(r) \/ s \in {"timeout", "interrupted", "none"}
    PROVE  /\ s = "administrator" => \E a \in {r} \union Ancestors[r] : request[a] = "administrator"
           /\ s = "service_shutdown" => shutdown
           /\ s = "parent_timeout" => \E a \in Ancestors[r] : stop[a] = "timeout"
<1>1. CASE s = SourceOf(r)
    <2>1. s \in {"none", "administrator", "service_shutdown"}
        BY <1>1 DEF SourceOf, TypeOK
    <2>2. s = "administrator" => request[r] = "administrator"
        BY <1>1 DEF SourceOf
    <2>3. s = "service_shutdown" => shutdown
        BY <1>1 DEF SourceOf, BlameInv
    <2> QED
        BY <2>1, <2>2, <2>3
<1>2. CASE s = EffectiveStop(r) /\ stop[r] # "none"
    <2>1. s = stop[r]
        BY <1>2, Effective
    <2> QED
        BY <2>1 DEF BlameInv
<1>3. CASE s = EffectiveStop(r) /\ stop[r] = "none" /\ s # "none"
    <2>1. PICK a \in Ancestors[r] : s = Inherited(stop[a])
        BY <1>3, Effective
    <2>2. a \in Runs /\ Ancestors[a] \subseteq Ancestors[r]
        BY Forest
    <2>3. /\ s = "administrator" => stop[a] = "administrator"
          /\ s = "service_shutdown" => stop[a] = "service_shutdown"
          /\ s = "parent_timeout" => stop[a] \in {"timeout", "parent_timeout"}
        BY <2>1 DEF Inherited
    <2>4. s = "administrator" => \E b \in {r} \union Ancestors[r] : request[b] = "administrator"
        <3> SUFFICES ASSUME s = "administrator"
                     PROVE  \E b \in {r} \union Ancestors[r] : request[b] = "administrator"
            OBVIOUS
        <3>1. PICK b \in {a} \union Ancestors[a] : request[b] = "administrator"
            BY <2>2, <2>3 DEF BlameInv
        <3> QED
            BY <2>2, <3>1
    <2>5. s = "service_shutdown" => shutdown
        BY <2>2, <2>3 DEF BlameInv
    <2>6. s = "parent_timeout" => \E b \in Ancestors[r] : stop[b] = "timeout"
        BY <2>2, <2>3 DEF BlameInv
    <2> QED
        BY <2>4, <2>5, <2>6
<1>4. CASE s \in {"timeout", "interrupted", "none"}
    BY <1>4
<1> QED
    BY <1>1, <1>2, <1>3, <1>4

RequestsKept ==
    \A q \in Runs : stop[q] # "none" \/ cause[q] # "none" =>
        \A a \in {q} \union Ancestors[q] :
            request[a] = "administrator" => request'[a] = "administrator"

\* A request that a stopped run was stopped for is not overwritten.
LEMMA RequestKeeps ==
    ASSUME TypeOK, ChainInv, StopInv, BlameInv, [Next]_vars
    PROVE  RequestsKept
<1>1. ASSUME NEW r \in Runs, Call(r) PROVE RequestsKept
    BY <1>1 DEF RequestsKept, Call, rows
<1>2. ASSUME NEW r \in Runs, CheckLimit(r) PROVE RequestsKept
    BY <1>2 DEF RequestsKept, CheckLimit, rows
<1>3. ASSUME NEW r \in Runs, Reserve(r) PROVE RequestsKept
    BY <1>3 DEF RequestsKept, Reserve, rows
<1>4. ASSUME NEW r \in Runs, RecheckFlag(r) PROVE RequestsKept
    <2>1. pc[r] = "reserved" /\ \A a \in Runs : a # r => request'[a] = request[a]
        BY <1>4 DEF RecheckFlag, RequestCancel, TypeOK
    <2> SUFFICES ASSUME NEW q \in Runs, stop[q] # "none" \/ cause[q] # "none",
                        NEW a \in {q} \union Ancestors[q], request[a] = "administrator"
                 PROVE  request'[a] = "administrator"
        BY DEF RequestsKept
    <2>2. q # r
        BY <2>1 DEF StopInv, StopAbove, BlameInv
    <2>3. pc[q] # "idle"
        BY DEF StopInv, BlameInv
    <2>4. r \notin Ancestors[q]
        BY <2>1, <2>3 DEF ChainInv, Begun
    <2>5. a \in Runs
        BY Forest
    <2> QED
        BY <2>1, <2>2, <2>4, <2>5
<1>5. ASSUME NEW r \in Runs, Acquire(r) PROVE RequestsKept
    BY <1>5 DEF RequestsKept, Acquire, rows
<1>6. ASSUME NEW r \in Runs, CapacityCancelled(r) PROVE RequestsKept
    BY <1>6 DEF RequestsKept, CapacityCancelled, End, rows
<1>7. ASSUME NEW r \in Runs, Prepare(r) PROVE RequestsKept
    BY <1>7 DEF RequestsKept, Prepare, rows
<1>8. ASSUME NEW r \in Runs, NEW res \in {"failed", "cancelled"}, PrepareFails(r, res) PROVE RequestsKept
    BY <1>8 DEF RequestsKept, PrepareFails, End, rows
<1>9. ASSUME NEW r \in Runs, Start(r) PROVE RequestsKept
    BY <1>9 DEF RequestsKept, Start, End, rows
<1>10. ASSUME NEW r \in Runs, NEW res \in {"completed", "failed"}, LoopEnds(r, res) PROVE RequestsKept
    BY <1>10 DEF RequestsKept, LoopEnds, End, rows
<1>11. ASSUME NEW r \in Runs, Resume(r) PROVE RequestsKept
    BY <1>11 DEF RequestsKept, Resume, End, rows
<1>12. ASSUME NEW r \in Runs, Finish(r) PROVE RequestsKept
    BY <1>12 DEF RequestsKept, Finish, rows
<1>13. ASSUME NEW r \in Runs, AdminCancel(r) PROVE RequestsKept
    <2>1. \A a \in Runs : request[a] = "administrator" => request'[a] = "administrator"
        BY <1>13 DEF AdminCancel, RequestCancel
    <2> QED
        BY <2>1, Forest DEF RequestsKept
<1>14. ASSUME NEW r \in Runs, NEW d \in Runs, NEW s \in Stops, Stopped(r, d, s),
           \/ used' = used
           \/ used.timeouts < MaxTimeouts /\ used' = [used EXCEPT !.timeouts = @ + 1]
    PROVE RequestsKept
    BY <1>14 DEF RequestsKept, Stopped, rows
<1>15. ASSUME BeginShutdown PROVE RequestsKept
    BY <1>15 DEF RequestsKept, BeginShutdown, rows
<1>16. ASSUME Sweep PROVE RequestsKept
    <2>1. \A a \in Runs : request[a] = "administrator" => request'[a] = "administrator"
        BY <1>16 DEF Sweep, RequestCancel
    <2> QED
        BY <2>1, Forest DEF RequestsKept
<1>17. ASSUME UNCHANGED vars PROVE RequestsKept
    BY <1>17 DEF RequestsKept, vars, rows
<1> QED
    BY <1>1, <1>2, <1>3, <1>4, <1>5, <1>6, <1>7, <1>8,
       <1>9, <1>10, <1>11, <1>12, <1>13, <1>14, <1>15, <1>16, <1>17, Watchdog DEF Next, Execute

LEMMA ShutdownKnown ==
    ASSUME TypeOK, BlameInv, [Next]_vars
    PROVE  (shutdown => shutdown') /\ \A q \in Runs : request'[q] = "service_shutdown" => shutdown'
<1>1. ASSUME NEW r \in Runs, Call(r) PROVE (shutdown => shutdown') /\ \A q \in Runs : request'[q] = "service_shutdown" => shutdown'
    BY <1>1 DEF BlameInv, Call, rows, TypeOK
<1>2. ASSUME NEW r \in Runs, CheckLimit(r) PROVE (shutdown => shutdown') /\ \A q \in Runs : request'[q] = "service_shutdown" => shutdown'
    BY <1>2 DEF BlameInv, CheckLimit, rows, TypeOK
<1>3. ASSUME NEW r \in Runs, Reserve(r) PROVE (shutdown => shutdown') /\ \A q \in Runs : request'[q] = "service_shutdown" => shutdown'
    BY <1>3 DEF BlameInv, Reserve, rows, TypeOK
<1>4. ASSUME NEW r \in Runs, RecheckFlag(r) PROVE (shutdown => shutdown') /\ \A q \in Runs : request'[q] = "service_shutdown" => shutdown'
    BY <1>4 DEF BlameInv, RecheckFlag, RequestCancel, rows, TypeOK
<1>5. ASSUME NEW r \in Runs, Acquire(r) PROVE (shutdown => shutdown') /\ \A q \in Runs : request'[q] = "service_shutdown" => shutdown'
    BY <1>5 DEF BlameInv, Acquire, rows, TypeOK
<1>6. ASSUME NEW r \in Runs, CapacityCancelled(r) PROVE (shutdown => shutdown') /\ \A q \in Runs : request'[q] = "service_shutdown" => shutdown'
    BY <1>6 DEF BlameInv, CapacityCancelled, End, rows, TypeOK
<1>7. ASSUME NEW r \in Runs, Prepare(r) PROVE (shutdown => shutdown') /\ \A q \in Runs : request'[q] = "service_shutdown" => shutdown'
    BY <1>7 DEF BlameInv, Prepare, rows, TypeOK
<1>8. ASSUME NEW r \in Runs, NEW res \in {"failed", "cancelled"}, PrepareFails(r, res) PROVE (shutdown => shutdown') /\ \A q \in Runs : request'[q] = "service_shutdown" => shutdown'
    BY <1>8 DEF BlameInv, PrepareFails, End, rows, TypeOK
<1>9. ASSUME NEW r \in Runs, Start(r) PROVE (shutdown => shutdown') /\ \A q \in Runs : request'[q] = "service_shutdown" => shutdown'
    BY <1>9 DEF BlameInv, Start, End, rows, TypeOK
<1>10. ASSUME NEW r \in Runs, NEW res \in {"completed", "failed"}, LoopEnds(r, res) PROVE (shutdown => shutdown') /\ \A q \in Runs : request'[q] = "service_shutdown" => shutdown'
    BY <1>10 DEF BlameInv, LoopEnds, End, rows, TypeOK
<1>11. ASSUME NEW r \in Runs, Resume(r) PROVE (shutdown => shutdown') /\ \A q \in Runs : request'[q] = "service_shutdown" => shutdown'
    BY <1>11 DEF BlameInv, Resume, End, rows, TypeOK
<1>12. ASSUME NEW r \in Runs, Finish(r) PROVE (shutdown => shutdown') /\ \A q \in Runs : request'[q] = "service_shutdown" => shutdown'
    BY <1>12 DEF BlameInv, Finish, rows, TypeOK
<1>13. ASSUME NEW r \in Runs, AdminCancel(r) PROVE (shutdown => shutdown') /\ \A q \in Runs : request'[q] = "service_shutdown" => shutdown'
    BY <1>13 DEF BlameInv, AdminCancel, RequestCancel, rows, TypeOK
<1>14. ASSUME NEW r \in Runs, NEW d \in Runs, NEW s \in Stops, Stopped(r, d, s),
           \/ used' = used
           \/ used.timeouts < MaxTimeouts /\ used' = [used EXCEPT !.timeouts = @ + 1]
    PROVE (shutdown => shutdown') /\ \A q \in Runs : request'[q] = "service_shutdown" => shutdown'
    BY <1>14 DEF BlameInv, Stopped, rows, TypeOK
<1>15. ASSUME BeginShutdown PROVE (shutdown => shutdown') /\ \A q \in Runs : request'[q] = "service_shutdown" => shutdown'
    BY <1>15 DEF BlameInv, BeginShutdown, rows, TypeOK
<1>16. ASSUME Sweep PROVE (shutdown => shutdown') /\ \A q \in Runs : request'[q] = "service_shutdown" => shutdown'
    BY <1>16 DEF BlameInv, Sweep, RequestCancel, rows, TypeOK
<1>17. ASSUME UNCHANGED vars PROVE (shutdown => shutdown') /\ \A q \in Runs : request'[q] = "service_shutdown" => shutdown'
    BY <1>17 DEF BlameInv, vars, rows, TypeOK
<1> QED
    BY <1>1, <1>2, <1>3, <1>4, <1>5, <1>6, <1>7, <1>8,
       <1>9, <1>10, <1>11, <1>12, <1>13, <1>14, <1>15, <1>16, <1>17, Watchdog DEF Next, Execute

CauseMoved ==
    \/ cause' = cause
    \/ \E q \in Runs : \E c : /\ cause' = [cause EXCEPT ![q] = c] /\ pc' = [pc EXCEPT ![q] = "over"]
                           /\ \/ c = EffectiveStop(q) \/ c = SourceOf(q)
                              \/ c \in {"timeout", "interrupted", "none"}

LEMMA CauseMoves ==
    ASSUME TypeOK, [Next]_vars
    PROVE  CauseMoved
<1>1. ASSUME NEW r \in Runs, Call(r) PROVE CauseMoved
    BY <1>1 DEF CauseMoved, Call, rows
<1>2. ASSUME NEW r \in Runs, CheckLimit(r) PROVE CauseMoved
    BY <1>2 DEF CauseMoved, CheckLimit, rows
<1>3. ASSUME NEW r \in Runs, Reserve(r) PROVE CauseMoved
    BY <1>3 DEF CauseMoved, Reserve, rows
<1>4. ASSUME NEW r \in Runs, RecheckFlag(r) PROVE CauseMoved
    BY <1>4 DEF CauseMoved, RecheckFlag, RequestCancel, rows
<1>5. ASSUME NEW r \in Runs, Acquire(r) PROVE CauseMoved
    BY <1>5 DEF CauseMoved, Acquire, rows
<1>6. ASSUME NEW r \in Runs, CapacityCancelled(r) PROVE CauseMoved
    BY <1>6 DEF CauseMoved, CapacityCancelled, End, rows
<1>7. ASSUME NEW r \in Runs, Prepare(r) PROVE CauseMoved
    BY <1>7 DEF CauseMoved, Prepare, rows
<1>8. ASSUME NEW r \in Runs, NEW res \in {"failed", "cancelled"}, PrepareFails(r, res) PROVE CauseMoved
    BY <1>8 DEF CauseMoved, PrepareFails, End, rows
<1>9. ASSUME NEW r \in Runs, Start(r) PROVE CauseMoved
    BY <1>9 DEF CauseMoved, Start, End, rows
<1>10. ASSUME NEW r \in Runs, NEW res \in {"completed", "failed"}, LoopEnds(r, res) PROVE CauseMoved
    BY <1>10 DEF CauseMoved, LoopEnds, End, rows
<1>11. ASSUME NEW r \in Runs, Resume(r) PROVE CauseMoved
    BY <1>11 DEF CauseMoved, Resume, End, rows
<1>12. ASSUME NEW r \in Runs, Finish(r) PROVE CauseMoved
    <2> DEFINE c == CASE outcome[r] = "timed_out" -> "timeout"
                      [] outcome[r] = "cancelled" /\ SourceOf(r) # "none" -> SourceOf(r)
                      [] outcome[r] = "cancelled" /\ EffectiveStop(r) # "none" -> EffectiveStop(r)
                      [] outcome[r] = "cancelled" -> "interrupted"
                      [] OTHER -> "none"
    <2>1. cause' = [cause EXCEPT ![r] = c] /\ pc' = [pc EXCEPT ![r] = "over"]
        BY <1>12 DEF Finish
    <2>2. c = EffectiveStop(r) \/ c = SourceOf(r) \/ c \in {"timeout", "interrupted", "none"}
        OBVIOUS
    <2> HIDE DEF c
    <2> QED
        BY <2>1, <2>2 DEF CauseMoved
<1>13. ASSUME NEW r \in Runs, AdminCancel(r) PROVE CauseMoved
    BY <1>13 DEF CauseMoved, AdminCancel, RequestCancel, rows
<1>14. ASSUME NEW r \in Runs, NEW d \in Runs, NEW s \in Stops, Stopped(r, d, s),
           \/ used' = used
           \/ used.timeouts < MaxTimeouts /\ used' = [used EXCEPT !.timeouts = @ + 1]
    PROVE CauseMoved
    BY <1>14 DEF CauseMoved, Stopped, rows
<1>15. ASSUME BeginShutdown PROVE CauseMoved
    BY <1>15 DEF CauseMoved, BeginShutdown, rows
<1>16. ASSUME Sweep PROVE CauseMoved
    BY <1>16 DEF CauseMoved, Sweep, RequestCancel, rows
<1>17. ASSUME UNCHANGED vars PROVE CauseMoved
    BY <1>17 DEF CauseMoved, vars, rows
<1> QED
    BY <1>1, <1>2, <1>3, <1>4, <1>5, <1>6, <1>7, <1>8,
       <1>9, <1>10, <1>11, <1>12, <1>13, <1>14, <1>15, <1>16, <1>17, Watchdog DEF Next, Execute

LEMMA NextBlameInv ==
    ASSUME TypeOK, ChainInv, StopInv, BlameInv, [Next]_vars
    PROVE  BlameInv'
<1>1. \A r \in Runs : cause'[r] # "none" => pc'[r] = "over"
    <2>1. \A r \in Runs : pc[r] = "over" => pc'[r] = "over"
        <3>1. ASSUME NEW q \in Runs, Call(q) PROVE \A r \in Runs : pc[r] = "over" => pc'[r] = "over"
            BY <3>1, RunTreeAssumption DEF Call, IsRoot, TypeOK
        <3>2. ASSUME NEW q \in Runs, Resume(q), NEW x, pc' = [pc EXCEPT ![q] = x]
              PROVE  \A r \in Runs : pc[r] = "over" => pc'[r] = "over"
            BY <3>2 DEF Resume, TypeOK
        <3>3. ASSUME NEW q \in Runs, NEW x, Step(q, x)
              PROVE  \A r \in Runs : pc[r] = "over" => pc'[r] = "over"
            BY <3>3 DEF Step, TypeOK
        <3> QED
            BY <3>1, <3>2, <3>3, PcMoves DEF Moved
    <2>2. CASE cause' = cause
        BY <2>1, <2>2 DEF BlameInv
    <2>3. ASSUME NEW q \in Runs, NEW c, cause' = [cause EXCEPT ![q] = c], pc' = [pc EXCEPT ![q] = "over"]
          PROVE  \A r \in Runs : cause'[r] # "none" => pc'[r] = "over"
        BY <2>3 DEF BlameInv, TypeOK
    <2> QED
        BY <2>2, <2>3, CauseMoves DEF CauseMoved
<1>2. ASSUME NEW r \in Runs, stop'[r] # "none"
      PROVE  /\ stop'[r] = "administrator" =>
                    \E a \in {r} \union Ancestors[r] : request'[a] = "administrator"
             /\ stop'[r] = "service_shutdown" => shutdown'
             /\ stop'[r] = "parent_timeout" => \E a \in Ancestors[r] : stop'[a] = "timeout"
    <2>1. \A a \in Ancestors[r] : a \in Runs
        BY Forest
    <2>2. CASE stop'[r] = stop[r]
        <3>1. stop[r] # "none"
            BY <1>2, <2>2
        <3>2. stop[r] = "administrator" =>
                  \E a \in {r} \union Ancestors[r] : request'[a] = "administrator"
            BY <3>1, RequestKeeps DEF BlameInv, RequestsKept
        <3>3. stop[r] = "service_shutdown" => shutdown'
            BY ShutdownKnown DEF BlameInv
        <3>4. stop[r] = "parent_timeout" => \E a \in Ancestors[r] : stop'[a] = "timeout"
            BY <2>1, StopStays DEF BlameInv
        <3> QED
            BY <2>2, <3>2, <3>3, <3>4
    <2>3. CASE stop'[r] # stop[r]
        <3>1. \/ stop'[r] = EffectiveStop(r) \/ stop'[r] = SourceOf(r) \/ stop'[r] = "timeout"
            <4>1. ASSUME NEW q \in Runs, stop' = [stop EXCEPT ![q] = EffectiveStop(q)]
                  PROVE  stop'[r] = EffectiveStop(r)
                BY <2>3, <4>1 DEF TypeOK
            <4>2. ASSUME NEW q \in Runs, NEW d \in Runs, NEW s \in Stops, Stopped(q, d, s)
                  PROVE  stop'[r] = EffectiveStop(r) \/ stop'[r] = SourceOf(r) \/ stop'[r] = "timeout"
                BY <2>3, <4>2 DEF Stopped, TypeOK
            <4> QED
                BY <2>3, <4>1, <4>2, StopMoves DEF StopMoved
        <3>2. request' = request
            <4>1. ASSUME NEW q \in Runs, Resume(q) PROVE request' = request
                BY <4>1 DEF Resume, rows
            <4>2. ASSUME NEW q \in Runs, NEW d \in Runs, NEW s \in Stops, Stopped(q, d, s)
                  PROVE  request' = request
                BY <4>2 DEF Stopped
            <4> QED
                BY <2>3, <4>1, <4>2, StopMoves DEF StopMoved
        <3>3. shutdown => shutdown'
            BY ShutdownKnown
        <3>4. \A a \in Ancestors[r] : stop[a] = "timeout" => stop'[a] = "timeout"
            BY <2>1, StopStays
        <3> QED
            BY <3>1, <3>2, <3>3, <3>4, Origin
    <2> QED
        BY <2>2, <2>3
<1> QED
    BY <1>1, <1>2, ShutdownKnown DEF BlameInv

LEMMA OnlyFinishBlames ==
    ASSUME TypeOK, [Next]_vars
    PROVE  cause' = cause \/ \E q \in Runs : Finish(q)
<1>1. ASSUME NEW r \in Runs, Call(r) PROVE cause' = cause \/ \E q \in Runs : Finish(q)
    BY <1>1 DEF Call, rows
<1>2. ASSUME NEW r \in Runs, CheckLimit(r) PROVE cause' = cause \/ \E q \in Runs : Finish(q)
    BY <1>2 DEF CheckLimit, rows
<1>3. ASSUME NEW r \in Runs, Reserve(r) PROVE cause' = cause \/ \E q \in Runs : Finish(q)
    BY <1>3 DEF Reserve, rows
<1>4. ASSUME NEW r \in Runs, RecheckFlag(r) PROVE cause' = cause \/ \E q \in Runs : Finish(q)
    BY <1>4 DEF RecheckFlag, RequestCancel, rows
<1>5. ASSUME NEW r \in Runs, Acquire(r) PROVE cause' = cause \/ \E q \in Runs : Finish(q)
    BY <1>5 DEF Acquire, rows
<1>6. ASSUME NEW r \in Runs, CapacityCancelled(r) PROVE cause' = cause \/ \E q \in Runs : Finish(q)
    BY <1>6 DEF CapacityCancelled, End, rows
<1>7. ASSUME NEW r \in Runs, Prepare(r) PROVE cause' = cause \/ \E q \in Runs : Finish(q)
    BY <1>7 DEF Prepare, rows
<1>8. ASSUME NEW r \in Runs, NEW res \in {"failed", "cancelled"}, PrepareFails(r, res) PROVE cause' = cause \/ \E q \in Runs : Finish(q)
    BY <1>8 DEF PrepareFails, End, rows
<1>9. ASSUME NEW r \in Runs, Start(r) PROVE cause' = cause \/ \E q \in Runs : Finish(q)
    BY <1>9 DEF Start, End, rows
<1>10. ASSUME NEW r \in Runs, NEW res \in {"completed", "failed"}, LoopEnds(r, res) PROVE cause' = cause \/ \E q \in Runs : Finish(q)
    BY <1>10 DEF LoopEnds, End, rows
<1>11. ASSUME NEW r \in Runs, Resume(r) PROVE cause' = cause \/ \E q \in Runs : Finish(q)
    BY <1>11 DEF Resume, End, rows
<1>12. ASSUME NEW r \in Runs, Finish(r) PROVE cause' = cause \/ \E q \in Runs : Finish(q)
    BY <1>12
<1>13. ASSUME NEW r \in Runs, AdminCancel(r) PROVE cause' = cause \/ \E q \in Runs : Finish(q)
    BY <1>13 DEF AdminCancel, RequestCancel, rows
<1>14. ASSUME NEW r \in Runs, NEW d \in Runs, NEW s \in Stops, Stopped(r, d, s),
           \/ used' = used
           \/ used.timeouts < MaxTimeouts /\ used' = [used EXCEPT !.timeouts = @ + 1]
    PROVE cause' = cause \/ \E q \in Runs : Finish(q)
    BY <1>14 DEF Stopped, rows
<1>15. ASSUME BeginShutdown PROVE cause' = cause \/ \E q \in Runs : Finish(q)
    BY <1>15 DEF BeginShutdown, rows
<1>16. ASSUME Sweep PROVE cause' = cause \/ \E q \in Runs : Finish(q)
    BY <1>16 DEF Sweep, RequestCancel, rows
<1>17. ASSUME UNCHANGED vars PROVE cause' = cause \/ \E q \in Runs : Finish(q)
    BY <1>17 DEF vars, rows
<1> QED
    BY <1>1, <1>2, <1>3, <1>4, <1>5, <1>6, <1>7, <1>8,
       <1>9, <1>10, <1>11, <1>12, <1>13, <1>14, <1>15, <1>16, <1>17, Watchdog DEF Next, Execute

LEMMA NextCauseIsTrue ==
    ASSUME TypeOK, ChainInv, StopInv, BlameInv, CauseIsTrue, [Next]_vars
    PROVE  CauseIsTrue'
<1>1. \A r \in Runs : \A a \in Ancestors[r] : a \in Runs /\ (stop[a] = "timeout" => stop'[a] = "timeout")
    BY Forest, StopStays
<1>2. ASSUME NEW r \in Runs, cause'[r] = cause[r], cause[r] # "none"
      PROVE  /\ cause'[r] = "administrator" =>
                    \E a \in {r} \union Ancestors[r] : request'[a] = "administrator"
             /\ cause'[r] = "service_shutdown" => shutdown'
             /\ cause'[r] = "parent_timeout" => \E a \in Ancestors[r] : stop'[a] = "timeout"
    <2>1. cause[r] = "administrator" =>
              \E a \in {r} \union Ancestors[r] : request'[a] = "administrator"
        BY <1>2, RequestKeeps DEF CauseIsTrue, RequestsKept
    <2>2. cause[r] = "service_shutdown" => shutdown'
        BY ShutdownKnown DEF CauseIsTrue
    <2>3. cause[r] = "parent_timeout" => \E a \in Ancestors[r] : stop'[a] = "timeout"
        BY <1>1 DEF CauseIsTrue
    <2> QED
        BY <1>2, <2>1, <2>2, <2>3
<1>3. ASSUME NEW r \in Runs, NEW c, cause'[r] = c, request' = request,
             c = EffectiveStop(r) \/ c = SourceOf(r) \/ c \in {"timeout", "interrupted", "none"}
      PROVE  /\ cause'[r] = "administrator" =>
                    \E a \in {r} \union Ancestors[r] : request'[a] = "administrator"
             /\ cause'[r] = "service_shutdown" => shutdown'
             /\ cause'[r] = "parent_timeout" => \E a \in Ancestors[r] : stop'[a] = "timeout"
    <2>1. shutdown => shutdown'
        BY ShutdownKnown
    <2> QED
        BY <1>1, <1>3, <2>1, Origin
<1>4. CASE cause' = cause
    BY <1>2, <1>4 DEF CauseIsTrue
<1>5. CASE \E q \in Runs : Finish(q)
    <2>1. PICK q \in Runs : Finish(q)
        BY <1>5
    <2> DEFINE c == CASE outcome[q] = "timed_out" -> "timeout"
                      [] outcome[q] = "cancelled" /\ SourceOf(q) # "none" -> SourceOf(q)
                      [] outcome[q] = "cancelled" /\ EffectiveStop(q) # "none" -> EffectiveStop(q)
                      [] outcome[q] = "cancelled" -> "interrupted"
                      [] OTHER -> "none"
    <2>2. cause' = [cause EXCEPT ![q] = c] /\ request' = request
        BY <2>1 DEF Finish
    <2>3. c = EffectiveStop(q) \/ c = SourceOf(q) \/ c \in {"timeout", "interrupted", "none"}
        OBVIOUS
    <2> HIDE DEF c
    <2>4. cause'[q] = c /\ \A r \in Runs : r # q => cause'[r] = cause[r]
        BY <2>2 DEF TypeOK
    <2> QED
        BY <1>2, <1>3, <2>2, <2>3, <2>4 DEF CauseIsTrue
<1> QED
    BY <1>4, <1>5, OnlyFinishBlames


\* Under a stop no run starts or completes.
NothingStarts ==
    \A q \in Runs : StopAbove(q) =>
        /\ status'[q] = "running" => status[q] = "running"
        /\ outcome'[q] = "completed" => outcome[q] = "completed"

LEMMA StopHolds ==
    ASSUME TypeOK, StopInv, [Next]_vars
    PROVE  NothingStarts
<1>1. ASSUME NEW r \in Runs, Call(r) PROVE NothingStarts
    BY <1>1 DEF NothingStarts, Call, rows, TypeOK
<1>2. ASSUME NEW r \in Runs, CheckLimit(r) PROVE NothingStarts
    BY <1>2 DEF NothingStarts, CheckLimit, rows, TypeOK
<1>3. ASSUME NEW r \in Runs, Reserve(r) PROVE NothingStarts
    BY <1>3 DEF NothingStarts, Reserve, rows, TypeOK
<1>4. ASSUME NEW r \in Runs, RecheckFlag(r) PROVE NothingStarts
    BY <1>4 DEF NothingStarts, RecheckFlag, RequestCancel, rows, TypeOK
<1>5. ASSUME NEW r \in Runs, Acquire(r) PROVE NothingStarts
    BY <1>5 DEF NothingStarts, Acquire, rows, TypeOK
<1>6. ASSUME NEW r \in Runs, CapacityCancelled(r) PROVE NothingStarts
    BY <1>6 DEF NothingStarts, CapacityCancelled, End, rows, TypeOK
<1>7. ASSUME NEW r \in Runs, Prepare(r) PROVE NothingStarts
    BY <1>7 DEF NothingStarts, Prepare, rows, TypeOK
<1>8. ASSUME NEW r \in Runs, NEW res \in {"failed", "cancelled"}, PrepareFails(r, res) PROVE NothingStarts
    BY <1>8 DEF NothingStarts, PrepareFails, End, rows, TypeOK
<1>9. ASSUME NEW r \in Runs, Start(r) PROVE NothingStarts
    <2>1. ASSUME StopAbove(r) PROVE FALSE
        BY <1>9, <2>1 DEF Start, StopInv
    <2> QED
        BY <1>9, <2>1 DEF NothingStarts, Start, End, TypeOK
<1>10. ASSUME NEW r \in Runs, NEW res \in {"completed", "failed"}, LoopEnds(r, res) PROVE NothingStarts
    <2>1. ASSUME StopAbove(r) PROVE FALSE
        BY <1>10, <2>1 DEF LoopEnds, StopInv
    <2> QED
        BY <1>10, <2>1 DEF NothingStarts, LoopEnds, End, rows, TypeOK
<1>11. ASSUME NEW r \in Runs, Resume(r) PROVE NothingStarts
    <2>1. StatusOf(EffectiveStop(r)) # "completed"
        BY DEF StatusOf
    <2> QED
        BY <1>11, <2>1 DEF NothingStarts, Resume, End, rows, TypeOK
<1>12. ASSUME NEW r \in Runs, Finish(r) PROVE NothingStarts
    <2>1. outcome[r] # "running"
        BY DEF TypeOK, Terminal
    <2> QED
        BY <1>12, <2>1 DEF NothingStarts, Finish, TypeOK
<1>13. ASSUME NEW r \in Runs, AdminCancel(r) PROVE NothingStarts
    BY <1>13 DEF NothingStarts, AdminCancel, RequestCancel, rows, TypeOK
<1>14. ASSUME NEW r \in Runs, NEW d \in Runs, NEW s \in Stops, Stopped(r, d, s),
           \/ used' = used
           \/ used.timeouts < MaxTimeouts /\ used' = [used EXCEPT !.timeouts = @ + 1]
    PROVE NothingStarts
    <2>1. outcome[d] # "running"
        BY DEF TypeOK, Terminal
    <2>2. \A q \in Runs : status'[q] = "running" => status[q] = "running"
        BY <1>14, <2>1 DEF Stopped, TypeOK
    <2>3. \A q \in Runs : outcome'[q] = "completed" => outcome[q] = "completed"
        BY <1>14 DEF Stopped, TypeOK
    <2> QED
        BY <2>2, <2>3 DEF NothingStarts
<1>15. ASSUME BeginShutdown PROVE NothingStarts
    BY <1>15 DEF NothingStarts, BeginShutdown, rows, TypeOK
<1>16. ASSUME Sweep PROVE NothingStarts
    BY <1>16 DEF NothingStarts, Sweep, RequestCancel, rows, TypeOK
<1>17. ASSUME UNCHANGED vars PROVE NothingStarts
    BY <1>17 DEF NothingStarts, vars, rows, TypeOK
<1> QED
    BY <1>1, <1>2, <1>3, <1>4, <1>5, <1>6, <1>7, <1>8,
       <1>9, <1>10, <1>11, <1>12, <1>13, <1>14, <1>15, <1>16, <1>17, Watchdog DEF Next, Execute

LEMMA InitIInv == Init => IInv
<1> SUFFICES ASSUME Init PROVE IInv
    OBVIOUS
<1>1. TypeOK
    <2>1. MaxTimeouts \in Nat /\ MaxCancels \in Nat
        BY RunTreeAssumption
    <2>2. used \in [timeouts : 0 .. MaxTimeouts, cancels : 0 .. MaxCancels]
        BY <2>1 DEF Init
    <2> QED
        BY <2>2 DEF Init, TypeOK, Stops
<1>2. ChainInv /\ SlotInv
    BY Trees DEF Init, ChainInv, SlotInv, Live, Begun
<1>3. StopInv /\ BlameInv /\ CauseIsTrue
    BY DEF Init, StopInv, StopAbove, BlameInv, CauseIsTrue
<1>4. CapacityInv
    <2>1. \A S \in SUBSET Runs : {r \in S : slot[r] /\ Active(r)} = {}
        BY DEF Init
    <2>2. \A S \in SUBSET Runs : Slots(S) = 0
        BY <2>1, FS_EmptySet DEF Slots
    <2>3. \A a \in Agents : Slots({r \in Runs : AgentOf[r] = a}) = 0
        BY <2>2
    <2>4. Slots({r \in Runs : IsRoot(r)}) = 0
        BY <2>2
    <2> QED
        BY <2>3, <2>4, RunTreeAssumption DEF CapacityInv
<1> QED
    BY <1>1, <1>2, <1>3, <1>4 DEF IInv

\* The invariant every theorem below follows from.
THEOREM Inductive == Spec => []IInv
<1>1. IInv /\ [Next]_vars => IInv'
    BY NextTypeOK, NextChainInv, NextSlotInv, NextCapacityInv, NextStopInv, NextBlameInv,
       NextCauseIsTrue DEF IInv
<1> QED
    BY <1>1, InitIInv, PTL DEF Spec

\* Type correctness.
THEOREM TypeCorrect == Spec => []TypeOK
BY Inductive, PTL DEF IInv

\* The limits of the service and of each Agent hold for the models at work,
\* however runs are cancelled, stopped or left behind.
THEOREM Limits == Spec => []LimitsRespected
<1>1. IInv => LimitsRespected
    <2> SUFFICES ASSUME IInv PROVE LimitsRespected
        OBVIOUS
    <2>1. \A r \in Runs : Working(r) => slot[r] /\ Active(r)
        BY DEF IInv, SlotInv, Working, Active
    <2>2. ASSUME NEW S \in SUBSET Runs
          PROVE  /\ Cardinality({r \in S : Working(r)}) <= Slots(S)
                 /\ Cardinality({r \in S : Working(r)}) \in Nat /\ Slots(S) \in Nat
        <3> DEFINE W == {r \in S : Working(r)}
                   H == {r \in S : slot[r] /\ Active(r)}
        <3>1. W \in SUBSET H /\ H \in SUBSET Runs
            BY <2>1
        <3>2. Slots(S) = Cardinality(H)
            BY DEF Slots
        <3> HIDE DEF W, H
        <3>3. IsFiniteSet(H)
            BY <3>1, FS_Subset, RunTreeAssumption
        <3>4. IsFiniteSet(W) /\ Cardinality(W) <= Cardinality(H)
            BY <3>1, <3>3, FS_Subset
        <3>5. Cardinality(W) \in Nat /\ Cardinality(H) \in Nat
            BY <3>3, <3>4, FS_CardinalityType
        <3> QED
            BY <3>2, <3>4, <3>5 DEF W
    <2>3. Cardinality({r \in Runs : IsRoot(r) /\ Working(r)}) <= GlobalLimit
        <3> DEFINE roots == {r \in Runs : IsRoot(r)}
        <3>1. {r \in Runs : IsRoot(r) /\ Working(r)} = {r \in roots : Working(r)}
            OBVIOUS
        <3>2. Slots(roots) <= GlobalLimit
            BY DEF IInv, CapacityInv
        <3>3. roots \in SUBSET Runs
            OBVIOUS
        <3> HIDE DEF roots
        <3> QED
            BY <2>2, <3>1, <3>2, <3>3, RunTreeAssumption
    <2>4. ASSUME NEW a \in Agents
          PROVE  Cardinality({r \in Runs : AgentOf[r] = a /\ Working(r)}) <= AgentLimit[a]
        <3> DEFINE of == {r \in Runs : AgentOf[r] = a}
        <3>1. {r \in Runs : AgentOf[r] = a /\ Working(r)} = {r \in of : Working(r)}
            OBVIOUS
        <3>2. Slots(of) <= AgentLimit[a] /\ AgentLimit[a] \in Nat
            BY RunTreeAssumption DEF IInv, CapacityInv
        <3>3. of \in SUBSET Runs
            OBVIOUS
        <3> HIDE DEF of
        <3> QED
            BY <2>2, <3>1, <3>2, <3>3
    <2> QED
        BY <2>3, <2>4 DEF LimitsRespected
<1> QED
    BY <1>1, Inductive, PTL

\* In every state the runs are of their types and within the limits.
THEOREM TreesKept == Spec => []TreeInv
BY TypeCorrect, Limits, PTL DEF TreeInv

\* At or below a stopped run nothing starts and nothing completes any more, and
\* the reason of a stop stays.
THEOREM StopsLast == Spec => StopIsFinal
<1>1. IInv /\ [Next]_vars =>
        [\A r \in Runs : StopAbove(r) =>
            /\ stop[r] # "none" => stop'[r] = stop[r]
            /\ status'[r] = "running" => status[r] = "running"
            /\ outcome'[r] = "completed" => outcome[r] = "completed"]_vars
    BY StopStays, StopHolds DEF IInv, NothingStarts
<1> QED
    BY <1>1, Inductive, PTL DEF Spec, StopIsFinal

\* The recorded reason of a stopped run is one that happened to it or above it.
THEOREM Blame == Spec => []CauseIsTrue
BY Inductive, PTL DEF IInv

=============================================================================
