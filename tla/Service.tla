-------------------------------- MODULE Service --------------------------------
(***************************************************************************)
(* The service process around the scan and the dispatch: its background    *)
(* loops (runtime.py), the configuration they follow, changed by the pages *)
(* and by hand (config_manager.py), the migration of a repository to       *)
(* another identity or directory, which moves its files and its rows under *)
(* a journal (repository_migration.py), and start, stop and restart        *)
(* (process_manager.py, cli.py).                                           *)
(*                                                                         *)
(* A cycle is a scan, a batch of events or an occurrence of a schedule;    *)
(* what it does is EventDispatch and Scan.  The identity of the repository *)
(* is a number; the directories of a migration move together.  Only the    *)
(* page changes the identity: by hand it would name another repository.    *)
(***************************************************************************)
EXTENDS Naturals

CONSTANTS
    MaxMigrations, MaxEdits,  \* bounds: migrations begun, changes of the configuration
    MaxTroubles               \* bound: crashes, exceptions, stops, pauses

ASSUME ServiceAssumption == {MaxMigrations, MaxEdits, MaxTroubles} \subseteq Nat

Loops == {"scanner", "dispatcher", "scheduler"}
Workers == Loops \cup {"occurrence"}

VARIABLES
    up,         \* the process
    shut,       \* stop() has asked the orchestrators to shut down
    paused,
    at,         \* where the loops and the occurrence of a schedule are
    wake,       \* _dispatch_event
    orch,       \* the orchestrator of the runtime: its configuration, and whether it is shut
    works,      \* the orchestrator a cycle works with
    ready,      \* _repository_ready
    mig,        \* the migration
    journal,    \* its journal: whether it is there, and what it goes back to
    file,       \* config.yaml: identity of the repository, revision, validity
    conf,       \* ConfigManager.config
    changed,    \* the time of the file is not the one that was seen last
    db, dirs,   \* the identity in the database, and of the directories
    edits, begun, troubles

proc  == <<up, shut, paused>>
loops == <<at, wake, orch, works>>
store == <<journal, file, db, dirs>>
mem   == <<conf, changed>>
count == <<edits, begun, troubles>>
vars  == <<proc, loops, ready, mig, store, mem, count>>

Trouble == troubles < MaxTroubles /\ troubles' = troubles + 1 /\ UNCHANGED <<edits, begun>>
NoJournal == [on |-> FALSE, file |-> [id |-> 0, rev |-> 0, ok |-> TRUE], id |-> 0]
New(c) == [id |-> c.id, rev |-> c.rev, shut |-> FALSE]

Init ==
    /\ up = "down" /\ shut = FALSE /\ paused = FALSE
    /\ at = [w \in Workers |-> "over"] /\ wake = FALSE
    /\ file = [id |-> 0, rev |-> 0, ok |-> TRUE] /\ conf = [id |-> 0, rev |-> 0]
    /\ orch = New(conf) /\ works = [w \in Workers |-> New(conf)]
    /\ ready = TRUE /\ mig = "none" /\ journal = NoJournal /\ changed = FALSE
    /\ db = 0 /\ dirs = 0 /\ edits = 0 /\ begun = 0 /\ troubles = 0

-----------------------------------------------------------------------------
(* The journal.                                                            *)

\* The marker of the migration is written with the rows: it says which way to go.
Committed == db # journal.id

\* _finish_journal: what is left of a committed migration is removed, or else the
\* directories and the file are put back; the journal goes last.
Finish ==
    /\ journal' = NoJournal
    /\ IF Committed THEN UNCHANGED <<file, dirs>>
       ELSE dirs' = journal.id /\ file' = journal.file
    /\ UNCHANGED db
\* It may break off anywhere before that.
BreakOff ==
    /\ journal.on /\ UNCHANGED <<journal, db>>
    /\ IF Committed THEN UNCHANGED <<file, dirs>>
       ELSE \/ UNCHANGED <<file, dirs>>
            \/ dirs' = journal.id /\ UNCHANGED file
            \/ dirs' = journal.id /\ file' = journal.file

-----------------------------------------------------------------------------
(* Start and stop.                                                         *)

\* One process holds the lock.  The journal comes first, then the file, which must be
\* valid; events of before are recovered.
Start ==
    /\ up = "down" /\ (journal.on \/ file.ok)
    /\ IF journal.on THEN Finish ELSE UNCHANGED store
    /\ file'.ok
    /\ up' = "up" /\ shut' = FALSE /\ paused' = FALSE
    /\ at' = [w \in Workers |-> IF w \in Loops THEN "top" ELSE "over"] /\ wake' = FALSE
    /\ conf' = [id |-> file'.id, rev |-> file'.rev] /\ changed' = FALSE
    /\ orch' = New(conf') /\ ready' = TRUE
    /\ UNCHANGED <<works, mig, count>>
StartFails ==
    /\ up = "down" /\ journal.on /\ Trouble
    /\ \/ BreakOff
       \/ Finish /\ ~file'.ok
    /\ UNCHANGED <<proc, loops, ready, mig, mem>>

Down == up' = "down" /\ shut' = FALSE /\ at' = [w \in Workers |-> "over"] /\ mig' = "none"
Crash ==
    /\ up # "down" /\ Down /\ Trouble
    /\ UNCHANGED <<paused, wake, orch, works, ready, store, mem>>

\* The server ends its requests, a migration among them, before stop() is called; a
\* dispatch that one let through has gone on by then.
AskToStop ==
    /\ up = "up" /\ mig = "none" /\ (ready => at["dispatcher"] # "gate")
    /\ up' = "stopping" /\ Trouble
    /\ UNCHANGED <<shut, paused, loops, ready, mig, store, mem>>

\* Mutant: stop() does not wake the dispatch.
ShutdownAsleep ==
    /\ up = "stopping" /\ ~shut /\ shut' = TRUE
    /\ orch' = [orch EXCEPT !.shut = TRUE]
    /\ works' = [w \in Workers |-> IF at[w] = "cycle" THEN [works[w] EXCEPT !.shut = TRUE] ELSE works[w]]
    /\ UNCHANGED <<up, paused, at, wake, ready, mig, store, mem, count>>

\* stop(): the orchestrator of the runtime and those at work are shut; then every task
\* is awaited.
Shutdown ==
    /\ up = "stopping" /\ ~shut /\ shut' = TRUE /\ wake' = TRUE
    /\ orch' = [orch EXCEPT !.shut = TRUE]
    /\ works' = [w \in Workers |-> IF at[w] = "cycle" THEN [works[w] EXCEPT !.shut = TRUE] ELSE works[w]]
    /\ UNCHANGED <<up, paused, at, ready, mig, store, mem, count>>
Stopped ==
    /\ up = "stopping" /\ shut /\ \A w \in Workers : at[w] = "over" /\ Down
    /\ UNCHANGED <<paused, wake, orch, works, ready, store, mem, count>>

\* stop_managed_process after its time; a service stopped otherwise is not killed.
Kill ==
    /\ up = "stopping" /\ Down
    /\ UNCHANGED <<paused, wake, orch, works, ready, store, mem, count>>

-----------------------------------------------------------------------------
(* The configuration.                                                      *)

Edit == edits < MaxEdits /\ edits' = edits + 1 /\ UNCHANGED <<begun, troubles>>

\* _persist_locked: the file and what is in force change together; not with a journal.
Persist(c) ==
    /\ ~journal.on
    /\ file' = [file EXCEPT !.rev = c.rev] /\ conf' = c /\ changed' = FALSE

\* A page saves a part of the configuration, on top of the file as it is.  Refused while
\* requests are, and over a file that is not valid.
Save ==
    /\ up = "up" /\ ready /\ file.ok /\ Edit
    /\ Persist([id |-> file.id, rev |-> edits + 1])
    /\ UNCHANGED <<proc, loops, ready, mig, journal, db, dirs>>
\* During a migration a hand is taken to leave a valid file (see the README).
EditByHand ==
    /\ Edit
    /\ \E ok \in {TRUE, mig # "none"} : file' = [file EXCEPT !.rev = edits + 1, !.ok = ok]
    /\ changed' = TRUE
    /\ UNCHANGED <<proc, loops, ready, mig, journal, db, dirs, conf>>

\* Mutant: the orchestrator of before is kept.
KeepOrchestrator ==
    /\ conf' = IF changed /\ file.ok THEN [id |-> file.id, rev |-> file.rev] ELSE conf
    /\ changed' = FALSE /\ UNCHANGED orch

\* reload_if_changed, then _reload_config of the runtime: an invalid file changes
\* nothing but is looked at once; another revision gets another orchestrator.
Reload ==
    /\ conf' = IF changed /\ file.ok THEN [id |-> file.id, rev |-> file.rev] ELSE conf
    /\ changed' = FALSE
    /\ orch' = IF conf' # [id |-> orch.id, rev |-> orch.rev] THEN New(conf') ELSE orch

-----------------------------------------------------------------------------
(* The loops.                                                              *)

Go(w, s) == at' = [at EXCEPT ![w] = s]
Stopping == up = "stopping"

\* The scan: the file, then a cycle with the runtime's orchestrator.
Scan ==
    /\ at["scanner"] = "top" /\ ready /\ Reload
    /\ \/ Stopping /\ Go("scanner", "over") /\ UNCHANGED works
       \/ ~Stopping /\ paused /\ UNCHANGED <<at, works>>
       \/ /\ ~Stopping /\ ~paused /\ Go("scanner", "cycle")
          /\ works' = [works EXCEPT !["scanner"] = orch']
    /\ UNCHANGED <<proc, wake, ready, mig, store, count>>

\* The dispatch: woken, it looks for a stop, waits for curl, looks for a stop again, and
\* waits until the repositories are ready if they are not.
Woken ==
    /\ at["dispatcher"] = "top" /\ wake /\ wake' = FALSE
    /\ Go("dispatcher", IF Stopping THEN "over" ELSE "curl")
    /\ UNCHANGED <<proc, orch, works, ready, mig, store, mem, count>>
Dispatch == Go("dispatcher", "cycle") /\ works' = [works EXCEPT !["dispatcher"] = orch]
Curl ==
    /\ at["dispatcher"] = "curl"
    /\ \/ Stopping /\ Go("dispatcher", "top") /\ UNCHANGED works
       \/ ~Stopping /\ ready /\ Dispatch
       \/ ~Stopping /\ ~ready /\ Go("dispatcher", "gate") /\ UNCHANGED works
    /\ UNCHANGED <<proc, wake, orch, ready, mig, store, mem, count>>
Gate ==
    /\ at["dispatcher"] = "gate" /\ ready /\ Dispatch
    /\ UNCHANGED <<proc, wake, orch, ready, mig, store, mem, count>>

\* The schedule: the file; an occurrence that is due has an orchestrator of its own and
\* does not hold up the loop.
Schedule ==
    /\ at["scheduler"] = "top" /\ ready /\ Reload
    /\ \/ Stopping /\ at' = [at EXCEPT !["scheduler"] = "over"] /\ UNCHANGED works
       \/ ~Stopping /\ UNCHANGED <<at, works>>
       \/ /\ ~Stopping /\ ~paused /\ at["occurrence"] = "over" /\ Go("occurrence", "curl")
          /\ works' = [works EXCEPT !["occurrence"] = New(conf')]
    /\ UNCHANGED <<proc, wake, ready, mig, store, count>>
Occur ==
    /\ at["occurrence"] = "curl" /\ Go("occurrence", IF Stopping THEN "over" ELSE "cycle")
    /\ UNCHANGED <<proc, wake, orch, works, ready, mig, store, mem, count>>

\* The end of a cycle; a scan wakes the dispatch, and so does a failure of it.  An
\* exception of a loop is waited out, or the stop ends the loop.
CycleEnds(w) ==
    /\ at[w] = "cycle" /\ Go(w, IF w = "occurrence" THEN "over" ELSE "top")
    /\ wake' = (wake \/ w = "scanner")
    /\ UNCHANGED <<proc, orch, works, ready, mig, store, mem, count>>
CycleFails(w) ==
    /\ at[w] = "cycle" /\ Trouble /\ Go(w, IF w = "occurrence" THEN "over" ELSE "backoff")
    /\ wake' = (wake \/ w \in {"scanner", "dispatcher"})
    /\ UNCHANGED <<proc, orch, works, ready, mig, store, mem>>
BackOff(w) ==
    /\ at[w] = "backoff" /\ Go(w, IF Stopping THEN "over" ELSE "top")
    /\ UNCHANGED <<proc, wake, orch, works, ready, mig, store, mem, count>>

\* The page: pause, resume, and a request to dispatch.  Refused like Save.
Pause ==
    /\ up = "up" /\ ready /\ Trouble /\ paused' = ~paused
    /\ UNCHANGED <<up, shut, loops, ready, mig, store, mem>>

-----------------------------------------------------------------------------
(* The migration of a repository.                                          *)

\* repository_maintenance: only while no cycle works; the loops wait from now on.
Quiet == \A w \in Workers : at[w] # "cycle"
Idle == Quiet /\ at["occurrence"] = "over"
Begin ==
    /\ up = "up" /\ mig = "none" /\ ready /\ Idle
    /\ begun < MaxMigrations /\ begun' = begun + 1 /\ UNCHANGED <<edits, troubles>>
    /\ mig' = "asked" /\ ready' = FALSE
    /\ UNCHANGED <<proc, loops, store, mem>>

Mig(from, to) == up = "up" /\ mig = from /\ mig' = to /\ UNCHANGED <<proc, loops, ready>>

\* Refused: another revision than the page's, a target that is there, rows of active
\* work; or the journal is written.
Refuse == Mig("asked", "over") /\ UNCHANGED <<store, mem, count>>
Write ==
    /\ Mig("asked", "move") /\ file.ok
    /\ journal' = [on |-> TRUE, file |-> file, id |-> db]
    /\ UNCHANGED <<file, db, dirs, mem, count>>
Move ==
    /\ Mig("move", "config") /\ dirs' = journal.id + 1
    /\ UNCHANGED <<journal, file, db, mem, count>>
\* The new file is the one the page was opened on, with the new identity.
WriteConfig ==
    /\ Mig("config", "commit") /\ changed' = TRUE
    /\ file' = [id |-> journal.id + 1, rev |-> journal.file.rev, ok |-> TRUE]
    /\ UNCHANGED <<journal, db, dirs, conf, count>>
Commit ==
    /\ Mig("commit", "finish") /\ db' = journal.id + 1
    /\ UNCHANGED <<journal, file, dirs, mem, count>>

\* An exception: what was done so far stays until the journal is finished; that of the
\* commit may come after the fact.
Throw ==
    /\ \E s \in {"move", "config", "commit"} : Mig(s, "thrown") /\ Trouble
    /\ \/ UNCHANGED <<dirs, db>>
       \/ mig = "move" /\ dirs' = journal.id + 1 /\ UNCHANGED db
       \/ mig = "commit" /\ db' = journal.id + 1 /\ UNCHANGED dirs
    /\ UNCHANGED <<journal, file, mem>>

\* The journal is finished, whichever way; without an exception the configuration in
\* force is the new one.
Settle ==
    /\ \/ /\ Mig("finish", "over") /\ Finish
          /\ conf' = [id |-> journal.id + 1, rev |-> journal.file.rev] /\ changed' = FALSE
       \/ Mig("thrown", "over") /\ Finish /\ conf' = conf /\ changed' = TRUE
    /\ UNCHANGED count
SettleFails ==
    /\ \E s \in {"finish", "thrown"} : Mig(s, "over") /\ Trouble
    /\ BreakOff /\ changed' = TRUE /\ UNCHANGED conf

\* The end of repository_maintenance: with a journal left everything stays closed.
Open ==
    /\ up = "up" /\ mig = "over" /\ mig' = "none"
    /\ IF journal.on THEN UNCHANGED <<ready, wake, orch, mem>>
       ELSE Reload /\ ready' = TRUE /\ wake' = TRUE
    /\ UNCHANGED <<proc, at, works, store, count>>

-----------------------------------------------------------------------------
Steps == \* what goes on by itself
    \/ Scan \/ Woken \/ Curl \/ Gate \/ Schedule \/ Occur
    \/ \E w \in Workers : BackOff(w) \/ (works[w].shut /\ CycleEnds(w))
    \/ Shutdown \/ Stopped
    \/ Refuse \/ Write \/ Move \/ WriteConfig \/ Commit \/ Settle \/ Open

Next ==
    \/ Steps \/ Start \/ StartFails \/ Crash \/ AskToStop
    \/ Kill \/ Save \/ EditByHand \/ Pause \/ Begin \/ Throw \/ SettleFails
    \/ \E w \in Workers : CycleEnds(w) \/ CycleFails(w)

\* Loops poll, worker threads end; a cycle whose orchestrator was shut ends.  A cycle
\* need not end otherwise, nor is the service started.
Spec == Init /\ [][Next]_vars /\ WF_vars(Steps) /\ WF_vars(Schedule)

-----------------------------------------------------------------------------
TypeOK ==
    /\ up \in {"down", "up", "stopping"} /\ {shut, paused, wake, ready, changed} \subseteq BOOLEAN
    /\ at \in [Workers -> {"over", "top", "curl", "gate", "cycle", "backoff"}]
    /\ orch \in [id : 0 .. MaxMigrations, rev : 0 .. MaxEdits, shut : BOOLEAN]
    /\ \A w \in Workers : works[w] \in [id : 0 .. MaxMigrations, rev : 0 .. MaxEdits, shut : BOOLEAN]
    /\ mig \in {"none", "asked", "move", "config", "commit", "finish", "thrown", "over"}
    /\ file \in [id : 0 .. MaxMigrations, rev : 0 .. MaxEdits, ok : BOOLEAN]
    /\ journal.on \in BOOLEAN /\ journal.id \in 0 .. MaxMigrations
    /\ conf \in [id : 0 .. MaxMigrations, rev : 0 .. MaxEdits]
    /\ db \in 0 .. MaxMigrations /\ dirs \in 0 .. MaxMigrations

\* A cycle works on a repository whose directories and rows have the identity its
\* orchestrator knows, and never while they are moved or left half moved.
Consistent ==
    \A w \in Workers : at[w] = "cycle" =>
        ~journal.on /\ works[w].id = dirs /\ works[w].id = db

\* What no crash, exception or edit may leave unsettled: outside of a migration and of
\* its journal, directories, rows and file agree.
Settled == ~journal.on /\ mig \in {"none", "asked", "over"} => dirs = db /\ file.id = db

ServiceInv == TypeOK /\ Consistent /\ Settled

\* A service that is to stop stops by itself, whatever its loops are at, unless a
\* migration that could not be settled keeps them waiting.
StopEnds == Stopping /\ ~journal.on ~> up = "down"

\* A change of the file is looked at by a running service, unless a migration that
\* could not be settled has closed it, or a stop comes first.
EditsSeen == changed /\ up = "up" ~> ~changed \/ up # "up" \/ journal.on

\* A stop ends, and an edit by hand is seen without a restart (runtime.py: stop, the
\* loops and _reload_config).
ServiceGoesOn == StopEnds /\ EditsSeen

================================================================================
