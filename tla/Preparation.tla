----------------------------- MODULE Preparation -----------------------------
(***************************************************************************)
(* How one repository's dependencies get into a working directory, and the *)
(* cache they come from: prepare_agent_workspace (agent_workspace.py), the *)
(* snapshots it restores and makes (workspace_snapshot.py), the shared and *)
(* exclusive use of the cache and its cleaner (dependency_cache.py), and   *)
(* the three kinds of task that use it: runs of Agents, warm-ups           *)
(* (agent_workspace_manager.py) and manual CI (preflight_manager.py).      *)
(*                                                                         *)
(* The repository has a cache, preparation steps and a Python environment  *)
(* to check.  What an installation leaves is good or bad: it passes the    *)
(* check or it does not; a good one may be bad once it is restored, when   *)
(* its scripts name the directory they were installed in.  A file lock is  *)
(* mutual exclusion as the operating system gives it.  Sub-agents that     *)
(* inherit a directory only check it and are left out.                     *)
(***************************************************************************)
EXTENDS PreparationState

tasks == <<cast, pc, env, src, again, cancel>>
books == <<row, op, current>>
store == <<snaps, cache, aged>>
clean == <<cl, owned, halt>>
vars  == <<tasks, books, git, users, store, clean, mishaps>>

Started(j) == pc[j] \notin {"idle", "end"}
ActiveRow == {"active"}                 \* queued, preparing, running
ActiveWarmup == {"waiting", "preparing"}

Init ==
    /\ cast \in Casts
    /\ pc = [j \in Jobs |-> "idle"] /\ env = [j \in Jobs |-> "empty"]
    /\ src = [j \in Jobs |-> "none"] /\ again = [j \in Jobs |-> FALSE]
    /\ cancel = [j \in Jobs |-> FALSE] /\ row = [j \in Jobs |-> "none"]
    /\ op = [j \in Warmups |-> "none"] /\ current = NoTask
    /\ git = NoTask /\ users = {}
    /\ snaps = <<>> /\ cache = FALSE /\ aged = FALSE
    /\ cl = "idle" /\ owned = FALSE /\ halt = FALSE /\ mishaps = 0

Go(j, here, there) == pc[j] \in here /\ pc' = [pc EXCEPT ![j] = there]
Fault == mishaps < MaxMishaps /\ mishaps' = mishaps + 1

-----------------------------------------------------------------------------
(* Tasks begin, and wait for their leases.                                  *)

\* begin_agent_run.
StartAgent(j) ==
    /\ j \in Agents \cap cast /\ Go(j, {"idle"}, "asked")
    /\ row' = [row EXCEPT ![j] = "active"]
    /\ UNCHANGED <<cast, env, src, again, cancel, op, current, git, users, store, clean, mishaps>>

\* AgentWorkspaceWarmupManager.start: an active one is returned as it is; one that
\* is over is replaced in the dictionary, whatever its task still does.
StartWarmup(j) ==
    /\ j \in Warmups \cap cast /\ Go(j, {"idle"}, "asked")
    /\ current # NoTask => op[current] \notin ActiveWarmup
    /\ current' = j /\ op' = [op EXCEPT ![j] = "waiting"]
    /\ UNCHANGED <<cast, env, src, again, cancel, row, git, users, store, clean, mishaps>>

\* ManualPreflightManager.start: the rows are asked under the manager's lock.
StartManual(j) ==
    /\ j \in Manuals \cap cast /\ Go(j, {"idle"}, "asked")
    /\ \A k \in Manuals : row[k] \notin ActiveRow
    /\ row' = [row EXCEPT ![j] = "active"]
    /\ UNCHANGED <<cast, env, src, again, cancel, op, current, git, users, store, clean, mishaps>>

\* The Git credentials and the environment of a warm-up and of a manual CI are
\* made before the `try': an error there ends the task and nothing else.
FailEarly(j) ==
    /\ j \in Warmups \cup Manuals /\ Go(j, {"asked"}, "end") /\ ~cancel[j]
    /\ Fault
    /\ UNCHANGED <<cast, env, src, again, cancel, books, git, users, store, clean>>

\* The lease of the base repository; Agents have left that behind (Workspace).
TakeGit(j) ==
    /\ j \in Warmups \cup Manuals /\ Go(j, {"asked"}, "leased")
    /\ git = NoTask /\ git' = j /\ ~cancel[j]
    /\ UNCHANGED <<cast, env, src, again, cancel, books, users, store, clean, mishaps>>

\* RepositoryCacheUsage.__aenter__, shared: the root is made and marked as used
\* now.  A manual CI uses the cache for its steps and takes no snapshot.
Enter(j) ==
    /\ ~owned /\ ~cancel[j]
    /\ \/ j \in Agents /\ Go(j, {"asked"}, "restore")
       \/ j \in Warmups /\ Go(j, {"leased"}, "restore")
       \/ j \in Manuals /\ Go(j, {"leased"}, "steps")
    /\ users' = users \cup {j} /\ cache' = TRUE /\ aged' = FALSE
    /\ op' = [w \in Warmups |-> IF w = j THEN "preparing" ELSE op[w]]
    /\ UNCHANGED <<cast, env, src, again, cancel, row, current, git, snaps, clean, mishaps>>

\* LockCancelledError, and LockTimeoutError when the last try found it taken.  A
\* warm-up that has no directory yet ends there; the others still write their rows.
Refused(j) ==
    CASE pc[j] = "asked" /\ j \notin Agents -> git # NoTask
      [] OTHER -> owned
OnlyCancelled(j) == cancel[j]
MayGiveUp(j) == cancel[j] \/ Refused(j)
GiveUp(j) ==
    /\ Go(j, {"asked", "leased"}, IF j \in Warmups THEN "end" ELSE "tidy")
    /\ MayGiveUp(j)
    /\ git' = IF git = j THEN NoTask ELSE git
    /\ op' = [w \in Warmups |-> IF w = j THEN "over" ELSE op[w]]
    /\ UNCHANGED <<cast, env, src, again, cancel, row, current, users, store, clean, mishaps>>

\* The three ways to cancel: of a run, of the warm-up the manager knows, of a
\* manual CI.
MayCancel(j) ==
    \/ j \in Agents \cup Manuals /\ row[j] \in ActiveRow
    \/ j = current /\ op[j] \in ActiveWarmup
Cancel(j) ==
    /\ MayCancel(j) /\ Started(j) /\ ~cancel[j]
    /\ cancel' = [cancel EXCEPT ![j] = TRUE]
    /\ UNCHANGED <<cast, pc, env, src, again, books, git, users, store, clean, mishaps>>

\* close() of the two managers: the tasks they know are cancelled and awaited.
Known(j) == Started(j) /\ (j \in Manuals \/ j = current)
Close ==
    /\ \E j \in Jobs : Known(j) /\ ~cancel[j]
    /\ cancel' = [j \in Jobs |-> cancel[j] \/ Known(j)]
    /\ UNCHANGED <<cast, pc, env, src, again, books, git, users, store, clean, mishaps>>

-----------------------------------------------------------------------------
(* prepare_agent_workspace.                                                 *)

Has(p) == \E i \in 1..Len(snaps) : snaps[i].of = p
Place(p) == CHOOSE i \in 1..Len(snaps) : snaps[i].of = p
Snap(p) == snaps[Place(p)]
Without(p) ==
    IF Has(p) THEN SubSeq(snaps, 1, Place(p) - 1) \o SubSeq(snaps, Place(p) + 1, Len(snaps))
    ELSE snaps

\* restore_workspace_snapshot, under _LOCK.  A hit is the last used one now.
Restore(j) ==
    /\ Has(Finger[j]) /\ Snap(Finger[j]).quality # "damaged"
    /\ Go(j, {"restore"}, "check")
    /\ env' = [env EXCEPT ![j] = Snap(Finger[j]).quality]
    /\ src' = [src EXCEPT ![j] = "restored"]
    /\ snaps' = <<Snap(Finger[j])>> \o Without(Finger[j])
    /\ UNCHANGED <<cast, again, cancel, books, git, users, cache, aged, clean, mishaps>>

Miss(j) ==
    /\ ~Has(Finger[j]) /\ Go(j, {"restore"}, "build")
    /\ UNCHANGED <<cast, env, src, again, cancel, books, git, users, store, clean, mishaps>>

\* WorkspaceSnapshotError: part of the archive is there, the snapshot is to go.
RestoreFails(j) ==
    /\ Has(Finger[j]) /\ Snap(Finger[j]).quality = "damaged"
    /\ Go(j, {"restore"}, "drop") /\ env' = [env EXCEPT ![j] = "bad"]
    /\ UNCHANGED <<cast, src, again, cancel, books, git, users, store, clean, mishaps>>

\* invalidate_workspace_snapshot names the fingerprint: whatever it stands for by
\* now.  An error of the removal is only logged.
Dropped(j) == snaps' \in {Without(Finger[j])} \cup (IF mishaps < MaxMishaps THEN {snaps} ELSE {})
DropDamaged(j) ==
    /\ Go(j, {"drop"}, "build") /\ Dropped(j)
    /\ mishaps' = IF Has(Finger[j]) /\ snaps' = snaps THEN mishaps + 1 ELSE mishaps
    /\ UNCHANGED <<cast, env, src, again, cancel, books, git, users, cache, aged, clean>>

\* execute_preflight_steps runs all the steps: what they install is good or bad.
Build(j) ==
    /\ Go(j, {"build"}, "save")
    /\ src' = [src EXCEPT ![j] = "built"]
    /\ \E q \in {"good", "bad"} : env' = [env EXCEPT ![j] = q]
    /\ UNCHANGED <<cast, again, cancel, books, git, users, store, clean, mishaps>>

\* A step fails, or the sandbox they must run in is not to be had.
BuildFails(j) ==
    /\ Go(j, {"build"}, "leave")
    /\ src' = [src EXCEPT ![j] = "built"] /\ env' = [env EXCEPT ![j] = "bad"]
    /\ UNCHANGED <<cast, again, cancel, books, git, users, store, clean, mishaps>>

\* create_workspace_snapshot: one that is there stays; a new one replaces what the
\* directory held and pushes out the ones unused for longest.
KeptOneMore(s) == IF Len(s) > MaxSnapshots + 1 THEN SubSeq(s, 1, MaxSnapshots + 1) ELSE s
Kept(s) == IF Len(s) > MaxSnapshots THEN SubSeq(s, 1, MaxSnapshots) ELSE s
SnapshotOf(j) ==
    {[of |-> Finger[j], quality |-> q] :
        q \in IF env[j] = "good" THEN {"good", "bad"} ELSE {"bad"}}
Save(j) ==
    /\ Go(j, {"save"}, "check")
    /\ IF Has(Finger[j]) /\ Snap(Finger[j]).quality # "damaged"
       THEN snaps' = snaps
       ELSE \E s \in SnapshotOf(j) : snaps' = Kept(<<s>> \o Without(Finger[j]))
    /\ UNCHANGED <<cast, env, src, again, cancel, books, git, users, cache, aged, clean, mishaps>>

\* Nothing to archive, archive too large, or an error: the task goes on.
SaveNothing(j) ==
    /\ Go(j, {"save"}, "check")
    /\ UNCHANGED <<cast, env, src, again, cancel, books, git, users, store, clean, mishaps>>

\* _validate_workspace_python: the interpreter of the environment runs the probe.
PassesUnlessRestored(j) == env[j] = "good" \/ (src[j] = "restored" /\ ~again[j])
Passes(j) == env[j] = "good"
Check(j) ==
    /\ Passes(j) /\ Go(j, {"check"}, "work")
    /\ op' = [w \in Warmups |-> IF w = j THEN "ready" ELSE op[w]]
    /\ UNCHANGED <<cast, env, src, again, cancel, row, current, git, users, store, clean, mishaps>>

\* The probe fails, or the sandbox it needs is not to be had.
CheckFails(j) ==
    /\ Go(j, {"check"}, "discard")
    /\ IF Passes(j) THEN Fault ELSE mishaps' = mishaps
    /\ UNCHANGED <<cast, env, src, again, cancel, books, git, users, store, clean>>

\* The snapshot goes; what was restored is built anew, once.  The rest is an error
\* that is not tried again.
Discard(j) ==
    /\ IF src[j] = "restored" /\ ~again[j]
       THEN \/ Go(j, {"discard"}, "build") /\ again' = [again EXCEPT ![j] = TRUE]
            \/ Go(j, {"discard"}, "leave") /\ again' = again   \* should_stop()
       ELSE Go(j, {"discard"}, "leave") /\ again' = again
    /\ Dropped(j)
    /\ mishaps' = IF Has(Finger[j]) /\ snaps' = snaps THEN mishaps + 1 ELSE mishaps
    /\ UNCHANGED <<cast, env, src, cancel, books, git, users, cache, aged, clean>>

\* A cancel or the common deadline (should_stop) is seen between the members of
\* an archive, during the steps and before the probe; no snapshot is dropped.
Stop(j) ==
    /\ \/ Go(j, {"restore", "build"}, "leave") /\ env' = [env EXCEPT ![j] = "bad"]
       \/ Go(j, {"save", "check"}, "leave") /\ env' = env
    /\ UNCHANGED <<cast, src, again, cancel, books, git, users, store, clean, mishaps>>

-----------------------------------------------------------------------------
(* The end of a task.                                                       *)

\* The Agent runs or the warm-up is ready; a manual CI has no time limit.
Work(j) ==
    /\ Go(j, {"work"}, "leave")
    /\ UNCHANGED <<cast, env, src, again, cancel, books, git, users, store, clean, mishaps>>
Steps(j) ==
    /\ Go(j, {"steps"}, "leave")
    /\ UNCHANGED <<cast, env, src, again, cancel, books, git, users, store, clean, mishaps>>

\* RepositoryCacheUsage.__aexit__: the mark is written again, or that fails.
Leave(j) ==
    /\ Go(j, {"leave"}, "unlock")
    /\ users' = users \ {j}
    /\ aged' \in {FALSE, aged}
    /\ mishaps' = IF aged' /\ j \in users THEN mishaps + 1 ELSE mishaps
    /\ aged' => mishaps < MaxMishaps
    /\ UNCHANGED <<cast, env, src, again, cancel, books, git, snaps, cache, clean>>

\* The lease of the base repository goes first, then the outcome of a warm-up is
\* set; its directory is removed after both (`finally').
Unlock(j) ==
    /\ Go(j, {"unlock"}, "tidy")
    /\ git' = IF git = j THEN NoTask ELSE git
    /\ op' = [w \in Warmups |-> IF w = j /\ op[w] # "ready" THEN "over" ELSE op[w]]
    /\ UNCHANGED <<cast, env, src, again, cancel, row, current, users, store, clean, mishaps>>
Tidy(j) ==
    /\ Go(j, {"tidy"}, "end") /\ env' = [env EXCEPT ![j] = "empty"]
    /\ src' = [src EXCEPT ![j] = "none"] /\ again' = [again EXCEPT ![j] = FALSE]
    /\ cancel' = [cancel EXCEPT ![j] = FALSE]
    /\ row' = [row EXCEPT ![j] = IF @ = "active" THEN "ended" ELSE @]
    /\ UNCHANGED <<cast, op, current, git, users, store, clean, mishaps>>

-----------------------------------------------------------------------------
(* cleanup_dependency_caches, and time.                                     *)

Age ==
    /\ cache /\ ~aged /\ aged' = TRUE
    /\ UNCHANGED <<tasks, books, git, users, snaps, cache, clean, mishaps>>

\* The file lock is tried once, and check() is done twice: before the directory is
\* measured and before it is removed.  Rows that name no cache of their own count
\* for the current one (_check_active).
MayRemove == ~halt /\ aged /\ \A j \in Jobs : row[j] \notin ActiveRow
Own ==
    /\ cl = "idle" /\ cache /\ users = {}
    /\ aged /\ \A j \in Jobs : row[j] \notin ActiveRow
    /\ cl' = "measured" /\ owned' = TRUE /\ halt' = FALSE
    /\ UNCHANGED <<tasks, books, git, users, store, mishaps>>
CheckAgain ==
    /\ cl = "measured"
    /\ IF MayRemove THEN cl' = "removing" /\ owned' = owned
       ELSE cl' = "idle" /\ owned' = FALSE
    /\ UNCHANGED <<tasks, books, git, users, store, halt, mishaps>>
Remove ==
    /\ cl = "removing" /\ cl' = "idle" /\ owned' = FALSE
    /\ cache' = FALSE /\ snaps' = <<>> /\ aged' = FALSE /\ halt' = FALSE
    /\ UNCHANGED <<tasks, books, git, users, mishaps>>

HaltAndDisown ==
    /\ cl # "idle" /\ ~halt /\ halt' = TRUE
    /\ owned' = FALSE
    /\ UNCHANGED <<tasks, books, git, users, store, cl, mishaps>>

\* The service stops, maintenance begins, the settings change, or the coroutine is
\* cancelled: that only sets an event, the thread is waited for.
Halt ==
    /\ cl # "idle" /\ ~halt /\ halt' = TRUE
    /\ UNCHANGED <<tasks, books, git, users, store, cl, owned, mishaps>>
-----------------------------------------------------------------------------
(* Mishaps.                                                                 *)

Damage ==
    /\ Fault /\ \E i \in 1..Len(snaps) :
         /\ snaps[i].quality # "damaged"
         /\ snaps' = [snaps EXCEPT ![i].quality = "damaged"]
    /\ UNCHANGED <<tasks, books, git, users, cache, aged, clean>>

\* The service dies and comes again: recover_interrupted_preflights and its like
\* end the rows, the operating system frees the file locks; directories stay.
Crash ==
    /\ Fault
    /\ pc' = [j \in Jobs |-> IF pc[j] = "idle" THEN "idle" ELSE "end"]
    /\ env' = [j \in Jobs |-> "empty"]
    /\ src' = [j \in Jobs |-> "none"] /\ again' = [j \in Jobs |-> FALSE]
    /\ cancel' = [j \in Jobs |-> FALSE]
    /\ row' = [j \in Jobs |-> IF row[j] = "active" THEN "ended" ELSE row[j]]
    /\ op' = [j \in Warmups |-> "none"] /\ current' = NoTask
    /\ git' = NoTask /\ users' = {} /\ cl' = "idle" /\ owned' = FALSE /\ halt' = FALSE
    /\ UNCHANGED <<cast, store>>

-----------------------------------------------------------------------------
Waits(j) == TakeGit(j) \/ Enter(j) \/ GiveUp(j)
Prepares(j) ==
    \/ Restore(j) \/ Miss(j) \/ RestoreFails(j) \/ DropDamaged(j) \/ Build(j) \/ BuildFails(j)
    \/ Save(j) \/ SaveNothing(j) \/ Check(j) \/ CheckFails(j) \/ Discard(j) \/ Stop(j)
Ends(j) == Work(j) \/ Leave(j) \/ Unlock(j) \/ Tidy(j)
Starts(j) == StartAgent(j) \/ StartWarmup(j) \/ StartManual(j)
Cleans == Own \/ CheckAgain \/ Remove

Next ==
    \/ \E j \in cast :
         \/ Starts(j) \/ Waits(j) \/ FailEarly(j) \/ Cancel(j)
         \/ Prepares(j) \/ Ends(j) \/ Steps(j)
    \/ Close \/ Age \/ Cleans \/ Halt \/ Damage \/ Crash

\* Coroutines and threads go on; waits, installations and probes end at the latest
\* with their time limits.  The steps of a manual CI have none: they end when they
\* are cancelled, or whenever they like.
Fairness == \A j \in Jobs :
    WF_vars(j \in cast /\ (Waits(j) \/ Prepares(j) \/ Ends(j) \/ (cancel[j] /\ Steps(j))))
SafeSpec == Init /\ [][Next]_vars
Spec == SafeSpec /\ Fairness

-----------------------------------------------------------------------------
\* Nothing waits for ever on the lease, on the file lock or on another task: each
\* Agent run and warm-up ends, a manual CI does when it is cancelled.
TasksEnd == \A j \in Jobs :
    (Started(j) /\ (j \notin Manuals \/ cancel[j])) ~> pc[j] = "end"

=============================================================================
