------------------------------ MODULE Preflight ------------------------------
(***************************************************************************)
(* The local CI of one pull request: PreflightExecutor.ensure_passed       *)
(* (preflight.py) with its rows in preflight_runs and preflight_step_runs, *)
(* the commit status and the failure comment it keeps on the platform      *)
(* (managed_comments.py), and the source generations of state.py.          *)
(*                                                                         *)
(* The events of a pull request reach ensure_passed one after the other    *)
(* (EventDispatch); an event whose gate ended in an error comes back while *)
(* it has attempts.  So there is one coroutine; what interleaves with it   *)
(* are pushes, scans, replays, faults of the platform and crashes.         *)
(*                                                                         *)
(* "failure" stands for failure and timed_out, which the code treats alike *)
(* everywhere but in texts.                                                *)
(***************************************************************************)
EXTENDS Integers, Sequences, FiniteSets

CONSTANTS
    Heads,          \* commits the source branch may point to
    FirstHead,      \* the one it points to when it is first scanned
    NoHead,         \* no commit
    MaxAttempts,    \* runtime.event_retry_count + 1
    NSteps,         \* repository.preflight.steps
    MaxPushes,      \* bound: pushes to the source branch
    MaxReplays,     \* bound: events replayed by an administrator
    MaxFaults,      \* bound: errors of Git, of the platform, of a command's start
    MaxCrashes      \* bound: crashes of the service

ASSUME PreflightAssumption ==
    /\ FirstHead \in Heads /\ NoHead \notin Heads
    /\ MaxAttempts \in Nat \ {0} /\ NSteps \in Nat \ {0}
    /\ MaxPushes \in Nat /\ MaxReplays \in Nat
    /\ MaxFaults \in Nat /\ MaxCrashes \in Nat

VARIABLES
    \* the platform and the base repository
    head,       \* where the source branch points to
    remote,     \* remote[h]: the commit status of h
    lost,       \* failure comments no row points to (a crash after the creation)
    local,      \* commits the base repository holds
    \* the database
    seen,       \* the head of the last scan
    gen,        \* change_request_source_generations.generation
    observed,   \* <<head, generation>> of the events scans have created
    queue,      \* events that wait for their gate, in order
    row,        \* row[h]: preflight_runs under the key of h
    steps,      \* steps[h]: preflight_step_runs of that row
    mapped,     \* mapped[g]: managed_comments of generation g: the head, or NoHead
    \* the coroutine
    pc,         \* where ensure_passed is
    result,     \* PreflightResult.status
    target,     \* its remote_status_target is known
    fresh,      \* replace_existing: the verdict is not a reused one
    failed,     \* status_error: the commit status was not accepted
    gone,       \* generations whose comment is deleted remotely, the row not yet
    \* history and bounds
    closed,     \* events that are through, with their outcome
    pushes, replays, faults, crashes

platform == <<head, remote, lost, local>>
scans    == <<seen, gen, observed>>
coroutine == <<pc, result, target, fresh, failed, gone>>
bounds   == <<pushes, replays, faults, crashes>>
vars == <<platform, scans, queue, row, steps, mapped, coroutine, closed, bounds>>

Verdicts == {"success", "failure", "superseded"}
Statuses == {"none", "running", "error"} \cup Verdicts
StepStatuses == {"pending", "running", "success", "failure", "error", "skipped"}
RemoteStates == {"none", "pending", "running", "success", "failure", "error"}
Step == 1..NSteps
Gens == 1..MaxPushes + 1
NoRow == [status |-> "none", attempts |-> 0, published |-> FALSE]

Event(h, g, m) == [head |-> h, gen |-> g, manual |-> m, left |-> MaxAttempts]
cur == Head(queue)
mine == cur.head            \* the head the coroutine works for

Init ==
    /\ head = FirstHead /\ seen = FirstHead /\ gen = 1
    /\ observed = {<<FirstHead, 1>>}
    /\ queue = <<Event(FirstHead, 1, FALSE)>>
    /\ remote = [h \in Heads |-> "none"]
    /\ lost = 0 /\ local = {}
    /\ row = [h \in Heads |-> NoRow]
    /\ steps = [h \in Heads |-> [i \in Step |-> "skipped"]]
    /\ mapped = [g \in Gens |-> NoHead]
    /\ pc = "idle" /\ result = "none"
    /\ target = FALSE /\ fresh = FALSE /\ failed = FALSE /\ gone = {}
    /\ closed = {}
    /\ pushes = 0 /\ replays = 0 /\ faults = 0 /\ crashes = 0

-----------------------------------------------------------------------------
(* People and the scan.                                                     *)

Push(h) ==
    /\ pushes < MaxPushes /\ h # head
    /\ head' = h /\ pushes' = pushes + 1
    /\ UNCHANGED <<remote, lost, local, scans, queue, row, steps, mapped,
                   coroutine, closed, replays, faults, crashes>>

\* A new head starts a new generation, a known one too when it comes back.
Scan ==
    /\ head # seen
    /\ seen' = head /\ gen' = gen + 1
    /\ observed' = observed \cup {<<head, gen + 1>>}
    /\ queue' = Append(queue, Event(head, gen + 1, FALSE))
    /\ UNCHANGED <<platform, row, steps, mapped, coroutine, closed, bounds>>

\* A replay copies the snapshot and the generation of its source event.
Replay ==
    /\ replays < MaxReplays /\ replays' = replays + 1
    /\ \E o \in observed : queue' = Append(queue, Event(o[1], o[2], TRUE))
    /\ UNCHANGED <<platform, scans, row, steps, mapped, coroutine, closed,
                   pushes, faults, crashes>>

-----------------------------------------------------------------------------
(* ensure_passed: reuse or reserve.  No other coroutine writes the row      *)
(* between its read and the reservation, so each is one step.               *)

Charged == [queue EXCEPT ![1].left = @ - 1]
Begins == pc = "idle" /\ queue # <<>> /\ cur.left > 0

\* A stored verdict is reused; what was not published yet is published now.
Reuse ==
    /\ Begins /\ row[mine].status \in Verdicts
    /\ queue' = Charged
    /\ result' = row[mine].status
    /\ pc' = IF row[mine].status = "superseded" THEN "return"
             ELSE IF row[mine].published THEN "comment" ELSE "publish"
    /\ fresh' = FALSE /\ failed' = FALSE
    /\ target' = TRUE
    /\ UNCHANGED <<platform, scans, row, steps, mapped, gone, closed, bounds>>

\* Mutant of Reservation: the mark of the last attempt stays.
ReservationKeepsMark(r) ==
    IF r.status = "none" \/ (r.status = "error" /\ r.attempts < MaxAttempts)
    THEN [r EXCEPT !.status = "running", !.attempts = @ + 1] ELSE r

\* begin_preflight_run: a first run, another attempt of one that ended in an
\* error, or, for a replay only, a new row in place of an exhausted one.
Reservation(r) ==
    CASE r.status = "none"  -> [status |-> "running", attempts |-> 1, published |-> FALSE]
      [] r.status = "error" /\ r.attempts < MaxAttempts ->
            [status |-> "running", attempts |-> r.attempts + 1, published |-> FALSE]
      [] r.status = "error" /\ r.attempts >= MaxAttempts /\ cur.manual ->
            [status |-> "running", attempts |-> 1, published |-> FALSE]
      [] OTHER -> r

Reserve ==
    /\ Begins /\ row[mine].status \notin Verdicts
    /\ Reservation(row[mine]) # row[mine]
    /\ queue' = Charged
    /\ row' = [row EXCEPT ![mine] = Reservation(@)]
    /\ pc' = "prepare" /\ result' = "none"
    /\ target' = FALSE /\ fresh' = TRUE /\ failed' = FALSE
    /\ UNCHANGED <<platform, scans, steps, mapped, gone, closed, bounds>>

\* The row is an error without attempts left: it is returned as it is.
Exhausted ==
    /\ Begins /\ row[mine].status = "error"
    /\ Reservation(row[mine]) = row[mine]
    /\ queue' = Charged
    /\ result' = "error" /\ pc' = "return" /\ failed' = FALSE
    /\ UNCHANGED <<platform, scans, row, steps, mapped, target, fresh, gone, closed, bounds>>

-----------------------------------------------------------------------------
(* The run itself.                                                          *)

Fault == faults < MaxFaults /\ faults' = faults + 1

\* The exception handlers of ensure_passed turn what went wrong into a result.
Ends(status) == pc' = "finish" /\ result' = status

InitializeSteps ==
    /\ pc = "prepare" /\ pc' = "checkout"
    /\ steps' = [steps EXCEPT ![mine] = [i \in Step |-> "pending"]]
    /\ UNCHANGED <<platform, scans, queue, row, mapped, result, target, fresh,
                   failed, gone, closed, bounds>>

\* prepare_change_request_workspace fetches the reference of the pull request,
\* then the commit itself unless it is there; the platform may have dropped a
\* commit that the branch has left.
Checkout ==
    /\ pc = "checkout"
    /\ \/ /\ local' = local \cup {head, mine}
          /\ pc' = "announce" /\ UNCHANGED <<result, faults>>
       \/ /\ mine \notin local /\ mine # head
          /\ local' = local \cup {head}
          /\ Ends("superseded") /\ UNCHANGED faults
       \/ Fault /\ Ends("error") /\ UNCHANGED local
    /\ UNCHANGED <<head, remote, lost, scans, queue, row, steps, mapped, target,
                   fresh, failed, gone, closed, pushes, replays, crashes>>

\* Writing a status; an error may hide that it has arrived.
Post(state) == remote' = [remote EXCEPT ![mine] = state]
PostFails(state) == Fault /\ (Post(state) \/ UNCHANGED remote)

AnnouncePending ==
    /\ pc = "announce"
    /\ \/ Post("pending") /\ target' = TRUE /\ pc' = "start" /\ UNCHANGED <<result, faults>>
       \/ PostFails("pending") /\ Ends("error") /\ UNCHANGED target
    /\ UNCHANGED <<head, lost, local, scans, queue, row, steps, mapped, fresh, failed,
                   gone, closed, pushes, replays, crashes>>

AnnounceRunning ==
    /\ pc = "start"
    /\ \/ Post("running") /\ pc' = "steps" /\ UNCHANGED <<result, faults>>
       \/ PostFails("running") /\ Ends("error")
    /\ UNCHANGED <<head, lost, local, scans, queue, row, steps, mapped, target, fresh,
                   failed, gone, closed, pushes, replays, crashes>>

\* The next command of execute_preflight_steps; 0 when all are through.
Next1 == IF \A i \in Step : steps[mine][i] = "success" THEN 0
         ELSE CHOOSE i \in Step : /\ steps[mine][i] # "success"
                                  /\ \A j \in 1..i - 1 : steps[mine][j] = "success"

SetStep(status) == steps' = [steps EXCEPT ![mine][Next1] = status]

StepStarts ==
    /\ pc = "steps" /\ Next1 # 0 /\ steps[mine][Next1] = "pending"
    /\ \/ SetStep("running") /\ UNCHANGED <<pc, result>>
       \/ SetStep("failure") /\ Ends("failure")         \* no time left for it
    /\ UNCHANGED <<platform, scans, queue, row, mapped, target, fresh, failed, gone,
                   closed, bounds>>

StepEnds ==
    /\ pc = "steps" /\ Next1 # 0 /\ steps[mine][Next1] = "running"
    /\ \/ SetStep("success") /\ UNCHANGED <<pc, result, faults>>
       \/ SetStep("failure") /\ Ends("failure") /\ UNCHANGED faults
       \/ SetStep("error") /\ Ends("error") /\ Fault     \* it could not be started
    /\ UNCHANGED <<platform, scans, queue, row, mapped, target, fresh, failed, gone,
                   closed, pushes, replays, crashes>>

AllStepsPassed ==
    /\ pc = "steps" /\ Next1 = 0
    /\ Ends("success")
    /\ UNCHANGED <<platform, scans, queue, row, steps, mapped, target, fresh, failed,
                   gone, closed, bounds>>

\* Removing the worktree is part of the same try: its error replaces the verdict.
CleanupFails ==
    /\ pc = "finish" /\ target /\ result \in {"success", "failure"}
    /\ Fault /\ result' = "error"
    /\ UNCHANGED <<platform, scans, queue, row, steps, mapped, pc, target, fresh, failed,
                   gone, closed, pushes, replays, crashes>>

Settled(s) == CASE s = "running" -> "error" [] s = "pending" -> "skipped" [] OTHER -> s

\* finish_preflight_run: verdict and steps in one transaction.
Finish ==
    /\ pc = "finish"
    /\ row' = [row EXCEPT ![mine].status = result, ![mine].published = FALSE]
    /\ steps' = [steps EXCEPT ![mine] = [i \in Step |-> Settled(@[i])]]
    /\ pc' = IF result = "superseded" \/ (result = "error" /\ ~target)
             THEN "return" ELSE "publish"
    /\ UNCHANGED <<platform, scans, queue, mapped, result, target, fresh, failed, gone,
                   closed, bounds>>

-----------------------------------------------------------------------------
(* The platform learns the verdict.                                         *)

PublishStatus ==
    /\ pc = "publish"
    /\ \/ Post(result) /\ pc' = "mark" /\ UNCHANGED <<failed, faults>>
       \/ PostFails(result) /\ failed' = TRUE /\ pc' = "comment"
    /\ UNCHANGED <<head, lost, local, scans, queue, row, steps, mapped, result, target,
                   fresh, gone, closed, pushes, replays, crashes>>

MarkPublished ==
    /\ pc = "mark" /\ pc' = "comment"
    /\ row' = [row EXCEPT ![mine].published = TRUE]
    /\ UNCHANGED <<platform, scans, queue, steps, mapped, result, target, fresh, failed,
                   gone, closed, bounds>>

Rows == {g \in Gens : mapped[g] # NoHead}

\* Mutant of CommentStays: a success of the current generation counts as old.
CommentStaysToo ==
    \/ result = "error"
    \/ result = "success" /\ (cur.gen <= gen \/ Rows = {})
    \/ result = "failure" /\ ~fresh /\ Rows # {}

\* _sync_failure_comment under the lease of the slot: who has nothing to do.
\* A success of an older generation leaves the comment alone.
CommentStays ==
    \/ result = "error"
    \/ result = "success" /\ (cur.gen < gen \/ Rows = {})
    \/ result = "failure" /\ ~fresh /\ Rows # {}

SkipComment ==
    /\ pc = "comment" /\ CommentStays /\ pc' = "return"
    /\ UNCHANGED <<platform, scans, queue, row, steps, mapped, result, target, fresh,
                   failed, gone, closed, bounds>>

SyncComment ==
    /\ pc = "comment" /\ ~CommentStays /\ pc' = "sync"
    /\ UNCHANGED <<platform, scans, queue, row, steps, mapped, result, target, fresh,
                   failed, gone, closed, bounds>>

\* One turn of the loop over the rows of the slot, oldest generation first: the
\* remote comment (a missing one counts as deleted), then its row.
Oldest == CHOOSE g \in Rows : \A k \in Rows : g <= k
DeleteRemote ==
    /\ pc = "sync" /\ Rows # {} /\ Oldest \notin gone
    /\ \/ gone' = gone \cup {Oldest} /\ UNCHANGED <<pc, faults>>
       \/ Fault /\ pc' = "return" /\ gone' \in {gone, gone \cup {Oldest}}
    /\ UNCHANGED <<platform, scans, queue, row, steps, mapped, result, target, fresh,
                   failed, closed, pushes, replays, crashes>>

DeleteRow ==
    /\ pc = "sync" /\ Rows # {} /\ Oldest \in gone
    /\ mapped' = [mapped EXCEPT ![Oldest] = NoHead] /\ gone' = gone \ {Oldest}
    /\ UNCHANGED <<platform, scans, queue, row, steps, pc, result, target, fresh, failed,
                   closed, bounds>>

CommentsDeleted ==
    /\ pc = "sync" /\ Rows = {} /\ result = "success" /\ pc' = "return"
    /\ UNCHANGED <<platform, scans, queue, row, steps, mapped, result, target, fresh,
                   failed, gone, closed, bounds>>

CreateComment ==
    /\ pc = "sync" /\ Rows = {} /\ result = "failure"
    /\ \/ pc' = "save" /\ UNCHANGED <<lost, faults>>
       \/ Fault /\ pc' = "return" /\ lost' \in {lost, lost + 1}
    /\ UNCHANGED <<head, remote, local, scans, queue, row, steps, mapped, result, target,
                   fresh, failed, gone, closed, pushes, replays, crashes>>

SaveComment ==
    /\ pc = "save" /\ pc' = "return"
    /\ mapped' = [mapped EXCEPT ![cur.gen] = mine]
    /\ UNCHANGED <<platform, scans, queue, row, steps, result, target, fresh, failed,
                   gone, closed, bounds>>

-----------------------------------------------------------------------------
(* What the dispatch does with the answer.                                  *)

Answer == IF failed THEN "error" ELSE result
Close(outcome) ==
    /\ closed' = closed \cup {[head |-> mine, gen |-> cur.gen, outcome |-> outcome]}
    /\ queue' = Tail(queue)

Return ==
    /\ pc = "return" /\ pc' = "idle" /\ result' = "none"
    /\ target' = FALSE /\ fresh' = FALSE /\ failed' = FALSE
    /\ IF Answer = "error" /\ cur.left > 0 THEN UNCHANGED <<queue, closed>>
       ELSE Close(Answer)
    /\ UNCHANGED <<platform, scans, row, steps, mapped, gone, bounds>>

\* Mutant of Recovered: what is not published yet is thrown away.
RecoveredUnpublished(r) ==
    IF r.published THEN r ELSE [r EXCEPT !.status = IF @ = "none" THEN @ ELSE "error"]

Recovered(r) == IF r.status = "running" THEN [r EXCEPT !.status = "error"] ELSE r

\* The process dies, or is stopped, and starts again: recover_interrupted_work.
\* The event keeps the attempt it was charged.
Crash ==
    /\ crashes < MaxCrashes /\ crashes' = crashes + 1
    /\ pc # "idle" /\ pc' = "idle" /\ result' = "none"
    /\ target' = FALSE /\ fresh' = FALSE /\ failed' = FALSE
    /\ row' = [h \in Heads |-> Recovered(row[h])]
    /\ steps' = [h \in Heads |-> [i \in Step |-> Settled(steps[h][i])]]
    /\ lost' = IF pc = "save" THEN lost + 1 ELSE lost
    /\ IF cur.left > 0 THEN UNCHANGED <<queue, closed>> ELSE Close("error")
    /\ UNCHANGED <<head, remote, local, scans, mapped, gone, pushes, replays, faults>>

Ensure ==
    \/ Reuse \/ Reserve \/ Exhausted
    \/ InitializeSteps \/ Checkout \/ AnnouncePending \/ AnnounceRunning
    \/ StepStarts \/ StepEnds \/ AllStepsPassed \/ CleanupFails \/ Finish
    \/ PublishStatus \/ MarkPublished
    \/ SkipComment \/ SyncComment \/ DeleteRemote \/ DeleteRow \/ CommentsDeleted
    \/ CreateComment \/ SaveComment
    \/ Return

Next == (\E h \in Heads : Push(h)) \/ Scan \/ Replay \/ Ensure \/ Crash

Spec == Init /\ [][Next]_vars

-----------------------------------------------------------------------------
(* Properties.                                                              *)

\* Types. An attempt of a row is never more than the configured number, and
\* only an event is in the gate that has been charged for it.
TypeOK ==
    /\ head \in Heads /\ seen \in Heads /\ gen \in Gens
    /\ remote \in [Heads -> RemoteStates]
    /\ lost \in Nat /\ local \subseteq Heads
    /\ observed \subseteq Heads \X Gens
    /\ \A i \in DOMAIN queue : queue[i] \in
          [head : Heads, gen : Gens, manual : BOOLEAN, left : 0..MaxAttempts]
    /\ row \in [Heads -> [status : Statuses, attempts : 0..MaxAttempts,
                          published : BOOLEAN]]
    /\ steps \in [Heads -> [Step -> StepStatuses]]
    /\ mapped \in [Gens -> Heads \cup {NoHead}]
    /\ result \in Statuses /\ gone \subseteq Gens
    /\ pc # "idle" => queue # <<>> /\ cur.left < MaxAttempts

\* The gate implements PreflightGate: a head gets one verdict, which no retry,
\* replay or restart takes back, and Agents of an event start only behind a
\* success of its own head (begin_preflight_run, finish_preflight_run).
Gate == INSTANCE PreflightGate WITH
    verdict <- [h \in Heads |-> IF row[h].status \in Verdicts THEN row[h].status
                                ELSE "open"],
    passed <- {o.head : o \in {e \in closed : e.outcome = "success"}}
ImplementsGate == Gate!Spec

\* What the database believes the platform shows, it shows: a row marked as
\* published and the commit status agree, although statuses are written again
\* by retries and an answer may be lost (_publish_terminal_result). A verdict
\* is backed by its steps, whatever interrupted them, and no row is left
\* running when nobody works on it (finish_preflight_run).
PreflightInv ==
    /\ TypeOK
    /\ \A h \in Heads :
        /\ row[h].published => remote[h] = row[h].status
        /\ row[h].status = "success" => \A i \in Step : steps[h][i] = "success"
        /\ row[h].status = "failure" => \E i \in Step : steps[h][i] = "failure"
        /\ row[h].status # "running" =>
              \A i \in Step : steps[h][i] \notin {"pending", "running"}
        /\ row[h].status = "running" => pc # "idle" /\ mine = h

\* The failure comment speaks of the gate as it is: there is at most one that
\* the database knows, and once the newest generation has its verdict, without
\* a fault, a crash or a replay in between, it is there exactly after a failure
\* (_sync_failure_comment: an older success deletes nothing, a reused failure
\* creates nothing twice).
CommentFollowsGate ==
    /\ Cardinality(Rows) <= 1
    /\ (pc = "idle" /\ faults + crashes + replays = 0) =>
          \A e \in closed : e.gen = gen =>
              /\ e.outcome = "failure" => Rows # {}
              /\ e.outcome = "success" => Rows = {}

=============================================================================
