------------------------------ MODULE Workspace ------------------------------
(***************************************************************************)
(* The directories Agent runs work in: how a run creates or inherits one   *)
(* (executor.py, workspace.py), and how it goes again, by the run that     *)
(* ends last in its tree or by the cleaner of expired directories          *)
(* (workspace_cleanup.py).                                                 *)
(*                                                                         *)
(* A directory is named after the run it is made for.  Three places know   *)
(* of it: the file system, the marker beside it and the row of the run;    *)
(* the cleaners remove only what all three agree on.  Leases are mutual    *)
(* exclusion between owners here (ResourceLease says when that is so): the *)
(* usage lease of a directory, which the runs of a tree share, and the     *)
(* lease of the base repository (`git').                                   *)
(*                                                                         *)
(* Clones and linked worktrees differ in how Git makes and removes them,   *)
(* not in any of this; cancels and limits of runs are in RunTree.          *)
(***************************************************************************)
EXTENDS FiniteSets, Naturals

CONSTANTS
    Runs,           \* runs of Agents; a run that is tried again keeps its name
    NoRun,          \* no run
    Periodic,       \* the cleaner of expired directories
    Parent,         \* Parent[r]: the run that delegates to r, or NoRun
    Inherits,       \* sub-agents that work in the directory of their parent
    Commits,        \* heads of the pull request the runs are about
    NoCommit,       \* no directory
    EventHead,      \* EventHead[r]: the head of the event that started r
    GateHead,       \* the head the CI gate of the same batch checks out, or NoCommit
    Plans,          \* bound: how often each run is tried, a set of functions
    MaxFaults       \* bound: crashes of the service, errors of Git and of the file
                    \* system, cancellations of a coroutine

ASSUME WorkspaceAssumption ==
    /\ NoRun \notin Runs /\ Periodic \notin Runs \cup {NoRun}
    /\ Parent \in [Runs -> Runs \cup {NoRun}]
    /\ Inherits \subseteq {r \in Runs : Parent[r] # NoRun}
    /\ \A r \in Runs : Parent[r] # NoRun => Parent[Parent[r]] = NoRun
    /\ NoCommit \notin Commits /\ EventHead \in [Runs -> Commits]
    /\ GateHead \in Commits \cup {NoCommit}
    /\ Plans \subseteq [Runs -> Nat] /\ MaxFaults \in Nat

VARIABLES
    \* the file system
    ref,        \* refs/teamwork/change-requests/<number>/head of the base repository
    dir,        \* dir[r]: the commit r's directory was made from, or NoCommit
    marker,     \* r's .retained.json is there
    aged,       \* the retention period of r's directory is over
    \* the database: agent_runs and resource_locks
    status,
    left,       \* left[r]: attempts of r to come
    ws,         \* workspace_status
    path,       \* workspace_path: the run whose directory it is, or NoRun
    git,        \* who holds the lease of the base repository, or NoRun
    users,      \* users[d]: the runs that hold the usage lease of d
    cleaner,    \* cleaner[d]: the cleaner that holds it, a run or Periodic, or NoRun
    \* coroutines and threads
    pc,         \* where execute() is
    todo,       \* todo[r]: directories the ended run r still has to look at
    hold, at,   \* at[c]: the directory a cleaner is at, hold[c]: how far it is
    late,       \* late[r]: a thread still makes the directory, its coroutine is gone
    gate,       \* the gate of the batch has pinned its commit
    faults

files  == <<ref, dir, marker, aged>>
rows   == <<status, left, ws, path>>
leases == <<git, users, cleaner>>
tasks  == <<pc, todo, hold, at, late, gate>>
vars == <<files, rows, leases, tasks, faults>>

Cleaners == Runs \cup {Periodic}
Active   == {"queued", "preparing"}      \* and running
Terminal == {"ended"}       \* completed, failed, cancelled, timed_out
ActiveRow(r) == status[r] \in Active
Root(r)  == IF Parent[r] = NoRun THEN r ELSE Parent[r]
DirOf(r) == IF r \in Inherits THEN Parent[r] ELSE r

Init ==
    /\ ref = NoCommit /\ dir = [r \in Runs |-> NoCommit]
    /\ marker = [r \in Runs |-> FALSE] /\ aged = [r \in Runs |-> FALSE]
    /\ status = [r \in Runs |-> "none"] /\ left \in Plans
    /\ ws = [r \in Runs |-> "none"] /\ path = [r \in Runs |-> NoRun]
    /\ git = NoRun /\ users = [r \in Runs |-> {}] /\ cleaner = [r \in Runs |-> NoRun]
    /\ pc = [r \in Runs |-> "idle"] /\ todo = [r \in Runs |-> {}]
    /\ hold = [c \in Cleaners |-> "idle"] /\ at = [c \in Cleaners |-> NoRun]
    /\ late = [r \in Runs |-> "no"] /\ gate = FALSE
    /\ faults = 0

Go(r, here, there) == pc[r] = here /\ pc' = [pc EXCEPT ![r] = there]
Fault == faults < MaxFaults /\ faults' = faults + 1

-----------------------------------------------------------------------------
(* A run takes its leases and makes its directory.                          *)

\* begin_agent_run: a first attempt or another one, the columns are reset.
\* (Which ends are tried again is in EventDispatch and RunTree.)
Reserve(r) ==
    /\ Go(r, "idle", "queued")
    /\ ~ActiveRow(r) /\ left[r] > 0
    /\ Parent[r] # NoRun => pc[Parent[r]] = "work"
    /\ status' = [status EXCEPT ![r] = "queued"]
    /\ left' = [left EXCEPT ![r] = @ - 1]
    /\ ws' = [ws EXCEPT ![r] = "none"] /\ path' = [path EXCEPT ![r] = NoRun]
    /\ UNCHANGED <<files, leases, todo, hold, at, late, gate, faults>>

\* The usage lease is taken in the name of the root run: a tree shares it, a
\* cleaner never does.
UsageFree(d, owner) ==
    cleaner[d] = NoRun /\ \A u \in users[d] : Root(u) = owner

TakeUsage(r) ==
    /\ Go(r, "queued", "leased")
    /\ UsageFree(DirOf(r), Root(r))
    /\ users' = [users EXCEPT ![DirOf(r)] = @ \cup {r}]
    /\ UNCHANGED <<files, rows, git, cleaner, todo, hold, at, late, gate, faults>>

\* The lease of the base repository is taken in the run's own name, and under it
\* prepare_change_request_workspace fetches and ends with update-ref to the head
\* of the event.
PinAnyway(r) ==
    /\ Go(r, "leased", "pinned") /\ r \notin Inherits
    /\ git' = r /\ ref' = EventHead[r]
    /\ status' = [status EXCEPT ![r] = "preparing"]
    /\ UNCHANGED <<dir, marker, aged, left, ws, path, users, cleaner, todo, hold, at, late,
                   gate, faults>>
Pin(r) ==
    /\ Go(r, "leased", "pinned") /\ r \notin Inherits
    /\ git = NoRun /\ git' = r /\ ref' = EventHead[r]
    /\ status' = [status EXCEPT ![r] = "preparing"]
    /\ UNCHANGED <<dir, marker, aged, left, ws, path, users, cleaner, todo, hold, at, late,
                   gate, faults>>

\* ensure_isolated_clone and ensure_isolated_worktree: a directory that is
\* there is used again, a new one is made from what the reference says now.
Made(d) == dir' = [dir EXCEPT ![d] = IF @ = NoCommit THEN ref ELSE @]

Create(r) ==
    /\ Go(r, "pinned", "created")
    /\ Made(r)
    /\ UNCHANGED <<ref, marker, aged, rows, leases, todo, hold, at, late, gate, faults>>

\* mark_active_worktree, and the lease of the base repository is given back.
Mark(r) ==
    /\ Go(r, "created", "marked")
    /\ marker' = [marker EXCEPT ![r] = TRUE] /\ aged' = [aged EXCEPT ![r] = FALSE]
    /\ git' = NoRun
    /\ UNCHANGED <<ref, dir, rows, users, cleaner, todo, hold, at, late, gate, faults>>

\* Only now does the row name the directory.  Then dependencies are prepared and
\* the Agent works; both are `work' here.
RecordActive(r) ==
    /\ Go(r, "marked", "work")
    /\ ws' = [ws EXCEPT ![r] = "active"] /\ path' = [path EXCEPT ![r] = r]
    /\ UNCHANGED <<files, status, left, leases, todo, hold, at, late, gate, faults>>

\* A sub-agent that inherits checks the directory and records it as inherited.
Inherit(r) ==
    /\ Go(r, "leased", "work") /\ r \in Inherits
    /\ dir[Parent[r]] # NoCommit
    /\ status' = [status EXCEPT ![r] = "preparing"]
    /\ ws' = [ws EXCEPT ![r] = "inherited"] /\ path' = [path EXCEPT ![r] = Parent[r]]
    /\ UNCHANGED <<files, left, leases, todo, hold, at, late, gate, faults>>

\* The gate of the batch fetches and pins as well, without the lease.
GatePins ==
    /\ ~gate /\ GateHead # NoCommit /\ gate' = TRUE
    /\ ref' = GateHead
    /\ UNCHANGED <<dir, marker, aged, rows, leases, pc, todo, hold, at, late, faults>>

-----------------------------------------------------------------------------
(* A run ends.                                                              *)

\* Leaving the `async with' of the leases.
Released(r) ==
    /\ users' = [users EXCEPT ![DirOf(r)] = @ \ {r}]
    /\ git' = IF git = r THEN NoRun ELSE git
    /\ UNCHANGED cleaner

\* The work is over, or what comes after the directory was made fails; a sub-agent
\* that inherits then forgets the directory.  A sub-agent that still runs does not
\* hold the end of its parent up.
WorkEnds(r) ==
    /\ \/ Go(r, "work", "ended")
       \/ Go(r, "marked", "ended")
       \/ Go(r, "work", "gaveUp") /\ r \in Inherits
    /\ Released(r)
    /\ UNCHANGED <<files, rows, todo, hold, at, late, gate, faults>>

\* The deadline of a wait for a lease passes; or, before the directory is owned or
\* inherited, Git or the file system fails or the run is cancelled.
PrepareFails(r) ==
    /\ \/ pc[r] = "queued" /\ ~UsageFree(DirOf(r), Root(r)) /\ UNCHANGED faults
       \/ pc[r] = "leased" /\ r \notin Inherits /\ git # NoRun /\ UNCHANGED faults
       \/ pc[r] \in {"queued", "leased", "pinned", "created", "marked"} /\ Fault
    /\ pc' = [pc EXCEPT ![r] = "gaveUp"]
    /\ Released(r)
    /\ UNCHANGED <<files, rows, todo, hold, at, late, gate>>

\* A cancelled coroutine leaves the creation to its thread and gives the leases
\* back: nobody waits for that thread any more.
Abandon(r) ==
    /\ Go(r, "pinned", "gaveUp") /\ Fault
    /\ late' = [late EXCEPT ![r] = "runs"]
    /\ Released(r)
    /\ UNCHANGED <<files, rows, todo, hold, at, gate>>

LateCreate(r) ==
    /\ late[r] = "runs" /\ late' = [late EXCEPT ![r] = "was"]
    /\ Made(r)
    /\ UNCHANGED <<ref, marker, aged, rows, leases, pc, todo, hold, at, gate, faults>>

\* What the row says of the directory in the end: retained by the run that owns
\* one, not created for a run that gave up, unchanged for one that inherited.  Then
\* finish_agent_run; nobody reads the row between the two writes.
Finish(r) ==
    /\ pc[r] \in {"ended", "gaveUp"} /\ pc' = [pc EXCEPT ![r] = "look"]
    /\ \/ /\ pc[r] = "ended" /\ r \notin Inherits
          /\ ws' = [ws EXCEPT ![r] = "retained"] /\ path' = [path EXCEPT ![r] = r]
       \/ pc[r] = "ended" /\ r \in Inherits /\ UNCHANGED <<ws, path>>
       \/ /\ pc[r] = "gaveUp"
          /\ ws' = [ws EXCEPT ![r] = "not-created"] /\ path' = [path EXCEPT ![r] = NoRun]
    /\ status' = [status EXCEPT ![r] = "ended"]
    /\ aged' = [aged EXCEPT ![r] = FALSE]        \* finished_at
    /\ UNCHANGED <<ref, dir, marker, left, leases, todo, hold, at, late, gate, faults>>

-----------------------------------------------------------------------------
(* The cleaners: a run that ended, for the directories of its tree, and the  *)
(* periodic one for any directory whose time is over.                        *)

\* cleanup_terminal_run_workspaces: nothing while a run of the tree is active.
Look(r) ==
    /\ pc[r] = "look"
    /\ IF \E u \in Runs : Root(u) = Root(r) /\ ActiveRow(u)
       THEN pc' = [pc EXCEPT ![r] = "idle"] /\ UNCHANGED todo
       ELSE /\ pc' = [pc EXCEPT ![r] = "sweep"]
            /\ todo' = [todo EXCEPT ![r] =
                 {d \in Runs : Root(d) = Root(r) /\ ws[d] \in {"active", "retained"}
                                                 /\ path[d] # NoRun}]
    /\ UNCHANGED <<files, rows, leases, hold, at, late, gate, faults>>

\* _inspect_marker: the marker, the row and the directory agree.
Inspected(d) ==
    /\ marker[d] /\ path[d] = d
    /\ ~(ws[d] = "removed" /\ dir[d] # NoCommit)

\* _check_inactive
Inactive(d) ==
    /\ \A u \in Runs : ActiveRow(u) => Root(u) # Root(d) /\ path[u] # d
    /\ status[d] \in Terminal

\* Both leases or none, without waiting.
CleanerMay(d) == cleaner[d] = NoRun /\ users[d] = {} /\ git = NoRun
HoldWithoutLease(c, d) ==
    /\ hold' = [hold EXCEPT ![c] = "held"] /\ at' = [at EXCEPT ![c] = d]
    /\ UNCHANGED <<cleaner, git>>
Hold(c, d) ==
    /\ hold' = [hold EXCEPT ![c] = "held"] /\ at' = [at EXCEPT ![c] = d]
    /\ cleaner' = [cleaner EXCEPT ![d] = c] /\ git' = c

SweepOpen(r, d) ==
    /\ pc[r] = "sweep" /\ hold[r] = "idle" /\ d \in todo[r]
    /\ IF Inspected(d) /\ CleanerMay(d)
       THEN Hold(r, d) /\ UNCHANGED users
       ELSE UNCHANGED <<hold, at, leases>>
    /\ todo' = [todo EXCEPT ![r] = @ \ {d}]
    /\ UNCHANGED <<files, rows, pc, late, gate, faults>>

SweepEnds(r) ==
    /\ Go(r, "sweep", "idle") /\ hold[r] = "idle" /\ todo[r] = {}
    /\ UNCHANGED <<files, rows, leases, todo, hold, at, late, gate, faults>>

\* One directory at a time in the batch of the periodic cleaner.
PeriodicOpen(d) ==
    /\ hold[Periodic] = "idle"
    /\ Inspected(d) /\ Inactive(d) /\ aged[d]
    /\ CleanerMay(d) /\ Hold(Periodic, d)
    /\ UNCHANGED <<files, rows, users, pc, todo, late, gate, faults>>

Holds(c, d, stage) == at[c] = d /\ hold[c] = stage
GiveBack(c, d) ==
    /\ cleaner' = [cleaner EXCEPT ![d] = NoRun] /\ git' = NoRun
    /\ hold' = [hold EXCEPT ![c] = "idle"] /\ at' = [at EXCEPT ![c] = NoRun]
    /\ UNCHANGED users

\* Under the leases everything is read again.
Recheck(c, d) ==
    /\ Holds(c, d, "held")
    /\ IF Inspected(d) /\ Inactive(d) /\ (c = Periodic => aged[d])
       THEN hold' = [hold EXCEPT ![c] = "checked"] /\ UNCHANGED <<at, leases>>
       ELSE GiveBack(c, d)
    /\ UNCHANGED <<files, rows, pc, todo, late, gate, faults>>

\* The directory and then its marker.
Remove(c, d) ==
    /\ Holds(c, d, "checked")
    /\ dir' = [dir EXCEPT ![d] = NoCommit]
    /\ marker' = [marker EXCEPT ![d] = FALSE] /\ aged' = [aged EXCEPT ![d] = FALSE]
    /\ hold' = [hold EXCEPT ![c] = "removed"]
    /\ UNCHANGED <<ref, rows, leases, at, pc, todo, late, gate, faults>>

\* The removal fails.  The sweep writes the marker anew, with a time of its own.
KeepForgets(c, d) ==
    /\ Holds(c, d, "checked")
    /\ Fault
    /\ marker' = [marker EXCEPT ![d] = FALSE]
    /\ aged' = IF c \in Runs THEN [aged EXCEPT ![d] = FALSE] ELSE aged
    /\ GiveBack(c, d)
    /\ UNCHANGED <<ref, dir, rows, pc, todo, late, gate>>
Keep(c, d) ==
    /\ Holds(c, d, "checked")
    /\ Fault
    /\ marker' = IF c \in Runs THEN [marker EXCEPT ![d] = TRUE] ELSE marker
    /\ aged' = IF c \in Runs THEN [aged EXCEPT ![d] = FALSE] ELSE aged
    /\ GiveBack(c, d)
    /\ UNCHANGED <<ref, dir, rows, pc, todo, late, gate>>

\* record_workspace_cleanup, before the leases go: every row that names the
\* directory.  Without the database the directory is gone all the same.
RecordRemoval(c, d) ==
    /\ Holds(c, d, "removed")
    /\ \/ /\ ws' = [r \in Runs |-> IF r = d \/ path[r] = d THEN "removed" ELSE ws[r]]
          /\ UNCHANGED faults
       \/ Fault /\ UNCHANGED ws
    /\ GiveBack(c, d)
    /\ UNCHANGED <<files, status, left, path, pc, todo, late, gate>>

\* Days go by.
Age(d) ==
    /\ marker[d] /\ ~aged[d] /\ status[d] \in Terminal
    /\ aged' = [aged EXCEPT ![d] = TRUE]
    /\ UNCHANGED <<ref, dir, marker, rows, leases, tasks, faults>>

-----------------------------------------------------------------------------
\* The service dies and starts again: recover_interrupted_work.
Crash ==
    /\ Fault
    /\ pc' = [r \in Runs |-> "idle"] /\ todo' = [r \in Runs |-> {}]
    /\ hold' = [c \in Cleaners |-> "idle"] /\ at' = [c \in Cleaners |-> NoRun]
    /\ gate' = FALSE
    /\ late' = [r \in Runs |-> IF late[r] = "runs" THEN "was" ELSE late[r]]
    /\ status' = [r \in Runs |-> IF ActiveRow(r) THEN "ended" ELSE status[r]]
    /\ ws' = [r \in Runs |-> IF ActiveRow(r) /\ ws[r] = "active" THEN "retained" ELSE ws[r]]
    /\ git' = NoRun /\ users' = [r \in Runs |-> {}] /\ cleaner' = [r \in Runs |-> NoRun]
    /\ UNCHANGED <<files, left, path>>

CleanerStep(c) == \E d \in Runs :
    Recheck(c, d) \/ Remove(c, d) \/ Keep(c, d) \/ RecordRemoval(c, d)

\* execute() from the reservation of the run to the end of its sweep.
RunStep(r) ==
    \/ TakeUsage(r) \/ Pin(r) \/ Create(r) \/ Mark(r) \/ RecordActive(r)
    \/ Inherit(r) \/ WorkEnds(r) \/ PrepareFails(r) \/ Abandon(r)
    \/ Finish(r) \/ Look(r) \/ SweepEnds(r)
    \/ \E d \in Runs : SweepOpen(r, d)
    \/ CleanerStep(r)

PeriodicStep == (\E d \in Runs : PeriodicOpen(d)) \/ CleanerStep(Periodic)

Next ==
    \/ \E r \in Runs : Reserve(r) \/ RunStep(r) \/ LateCreate(r) \/ Age(r)
    \/ PeriodicStep \/ GatePins \/ Crash

\* The event loop runs every coroutine on, the batch of the periodic cleaner comes
\* again every day and days go by.
Fairness ==
    /\ \A r \in Runs : WF_vars(RunStep(r))
    /\ WF_vars(PeriodicStep) /\ WF_vars(\E d \in Runs : Age(d))

Spec == Init /\ [][Next]_vars /\ Fairness

-----------------------------------------------------------------------------
\* The variables have their types, and a lease that is held has somebody who will
\* give it back: the run in its preparation or the cleaner at the directory.
TypeOK ==
    /\ ref \in Commits \cup {NoCommit} /\ dir \in [Runs -> Commits \cup {NoCommit}]
    /\ marker \in [Runs -> BOOLEAN] /\ aged \in [Runs -> BOOLEAN]
    /\ status \in [Runs -> {"none"} \cup Active \cup Terminal]
    /\ left \in [Runs -> Nat]
    /\ ws \in [Runs -> {"none", "active", "inherited", "retained", "not-created", "removed"}]
    /\ path \in [Runs -> Runs \cup {NoRun}]
    /\ git \in Cleaners \cup {NoRun} /\ users \in [Runs -> SUBSET Runs]
    /\ cleaner \in [Runs -> Cleaners \cup {NoRun}]
    /\ pc \in [Runs -> {"idle", "queued", "leased", "pinned", "created", "marked",
                        "work", "ended", "gaveUp", "look", "sweep"}]
    /\ todo \in [Runs -> SUBSET Runs]
    /\ hold \in [Cleaners -> {"idle", "held", "checked", "removed"}]
    /\ at \in [Cleaners -> Runs \cup {NoRun}]
    /\ late \in [Runs -> {"no", "runs", "was"}] /\ gate \in BOOLEAN
    /\ faults \in 0..MaxFaults
    /\ git # NoRun => \/ git \in Runs /\ pc[git] \in {"pinned", "created"}
                      \/ hold[git] # "idle"
    /\ \A d \in Runs : /\ cleaner[d] # NoRun => at[cleaner[d]] = d
                       /\ \A u \in users[d] : DirOf(u) = d /\ pc[u] # "idle"

AtRest(r) == pc[r] = "idle" /\ status[r] \in Terminal

\* Nobody takes the directory from under a run that has made or inherited it.
WorkspaceInv ==
    /\ TypeOK
    /\ \A r \in Runs : pc[r] \in {"created", "marked", "work"} => dir[DirOf(r)] # NoCommit

\* What a row says of a directory is so: one that is active is there with its
\* marker, one that was removed is gone, and what a run has left behind is known
\* to the periodic cleaner by both the row and the marker.  (Not so when a creation
\* nobody waited for came after the removal.)
RecordTruth == \A r \in Runs \ Inherits :
    /\ ws[r] = "active" /\ ActiveRow(r) => dir[r] # NoCommit /\ marker[r]
    /\ ws[r] = "removed" /\ path[r] = r /\ AtRest(r) /\ late[r] = "no" => dir[r] = NoCommit
    /\ ws[r] = "retained" /\ AtRest(r) /\ late[r] = "no" /\ dir[r] # NoCommit => Inspected(r)

\* A run works on the commit of its event: the lease of the base repository keeps the
\* commit that was pinned until the directory is made.  (Not so beside a gate: without
\* that lease ensure_passed fetches into the same repository.)
LeasedCheckout == ~gate /\ faults = 0 =>
    \A r \in Runs \ Inherits : pc[r] = "work" => dir[r] = EventHead[r]

\* A directory that its run has left and recorded goes in the end, or the run
\* comes again for it.
Reclaimed == \A r \in Runs \ Inherits :
    (ws[r] = "retained" /\ late[r] = "no" /\ dir[r] # NoCommit)
        ~> (dir[r] = NoCommit \/ status[r] = "queued")
=============================================================================
