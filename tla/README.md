# Verification of teamwork-review-agents

TLA+ modules, model-checking runs and TLAPS proofs about the service in
`src/teamwork_review_agents/` (Python, asyncio, one process, one SQLite file).
Paths below are relative to that package unless they start with `docs/`.

## 1. Inventory

The service scans pull requests of GitHub and GitLab, stores what changed as
events, matches events with rules and runs Agents (model loops with tools, or a
Codex CLI process) for them. Agents may delegate to sub-agents.

| component | state it keeps | operations | how it is reached |
|---|---|---|---|
| store (`state.py`) | all tables of SQLite; every method is one transaction | about 150 methods | called in worker threads by everything below |
| scan (`orchestrator.py`, `events.py`, `rules.py`) | snapshots, activity cursors, `event_inbox` | `scan`, comparison with the last snapshot, deduplication | a timer or the web page |
| event queue and dispatch (`orchestrator.py`) | `event_inbox`, `event_agent_dispatches`; in memory one task per pull request | `process_events`, `_process_resource_events`: claim, plan, gate, dispatch, settle | dispatch loop of the runtime |
| Agent executor (`executor.py`) | `agent_runs` | `execute`, `begin_shutdown`, `_invoke_embedded_agent` | dispatch, schedule, tools of a parent run |
| resource leases (`locks.py`) | `resource_locks`; a heartbeat task per lease | `__aenter__`, `_heartbeat`, `__aexit__` | executor, preflight, cleaner, workspace manager |
| run control and model runner (`run_control.py`, `codex_model_runner.py`) | a `RunControl` per run in a context variable, a watchdog task | model loop, watchdog, `effective_stop` | executor |
| runtime (`runtime.py`, `cli.py`) | loops, stop event, configuration revision | start, stop, reload, cycles | process |
| preflight (`preflight*.py`, `remote_ci.py`) | `preflight_runs`, steps, cache | `ensure_passed`, run, supersede, cancel | dispatch |
| MCP bridge (`mcp_*.py`, `run_waits.py`) | files of a request directory, `agent_run_waits` | call, answer, stop, `invoke_agent` | CLI-mode runs |
| workspaces (`workspace*.py`, `agent_workspace*.py`, `dependency_cache.py`) | directories, `workspace_status` | prepare, inherit, retain, clean | executor, cleaner |
| migration (`repository_migration.py`) | rows and directories of a repository identity | plan, move, roll back, resume | start of the service |
| configuration (`config*.py`) | a YAML file, revisions | validate, save, reload | web page |
| schedule (`scheduler.py`, `runtime.py`) | `scheduled_occurrences`; in memory a deadline per rule and a task per occurrence | next deadline, claim of an occurrence, its root runs | runtime |
| managed comments (`managed_comments.py`) | `managed_comments` and remote comments | create or update | Agents' tools |
| providers, model clients, accounts, sandbox, web pages | remote or operating-system state | I/O | the above |

Interaction: everything durable goes through SQLite transactions issued from
worker threads (`asyncio.to_thread`); everything in between is coroutines of one
process, which can be interleaved at every `await`, cancelled at every `await`
and lost in a crash. A stop raises flags first and sweeps the active rows after
it. A sub-agent runs inside its parent's task.

### What is hard here

* **Several writers of one row.** A run's row is written by its coroutine, by an
  administrator's cancel, by the sweep of a stop and by the recovery after a
  crash.
* **Commit and cancel.** A coroutine cancelled while a thread commits does not
  learn the result.
* **Time.** Leases expire, heartbeats are late, time limits strike anywhere.
* **Accounting.** Attempts are charged at the claim, given back on a stop, and
  kept in a crash, both for events and for runs.
* **Cancellation along a chain.** One `CancelledError` reaches the innermost run,
  whose `execute` may turn it into a tool error of its parent.
* **Reads that do not agree.** A scan reads the list, the details, the activities
  and the target head one after another while people go on working.
* **Resources held while waiting.** A parent keeps its slot and its lease while
  its sub-agent waits for both.
* **State in several places.** A directory, its marker and its row; a verdict, a
  commit status and a comment; a file, a database and directories under a journal.
* **Threads that outlive their coroutine**, and processes that talk over files.

### What makes the components correct

* Leases: owners exclude one another; members of one owner do not free each
  other's keys; a loss is reported when, and only when, it can have happened;
  waiting ends.
* Queue: an event is closed once, its Agents succeed at most once, batches of a
  pull request keep their order, stops cost no attempt, every event is closed.
* Runs: limits hold, a stop is final and reaches all runs below, its recorded
  cause is true, calls end, rows end with them.
* Scan: every difference between the platform and the snapshots is in reach of
  the next scan; what the cursor has passed has its event; a new head or a
  commit of the target branch starts the rules once, whatever fails in between.
* Preflight: a head gets one verdict, Agents start behind a success of their own
  head only, and commit status, steps and failure comment tell the same.
* Bridge: nothing that a CLI run started outlives it, an ended wait for CI is not
  taken for a cancel, and a stopped run ends.
* Workspaces: nobody's directory is removed, the rows say what is on disk, and
  what was left behind goes; Agents work in what was verified.
* Model loop: no round is lost, no request overflows its window, and no refusal is
  repeated for ever.
* Schedules: each period of a rule runs once, none is passed over, none is made up
  for after a pause or a stop.
* Deduplication: of a group only the newest event runs the rule, and the newest is
  never dropped.
* Service: cycles work with the identity that directories and rows have, a
  migration ends in one of two states, a stop ends, an edit is taken up.

`PROJECT.json` lists every component with its status and every hazard with the
line where it bites.

## 2. Modules

| module | what it is |
|---|---|
| `ResourceLease` | `locks.py` over `resource_locks` |
| `ResourceLeaseProofs` | its theorems, and those of `Preparation` |
| `EventDelivery` | what the queue promises: an abstract specification |
| `EventDispatchProofs` | theorems about `EventDispatch`, among them the refinement, and about `Schedule` |
| `EventDispatch` | queue, dispatch, executor's reservation protocol, stop, cancel, crash; implements `EventDelivery` |
| `RunTree` | runs and sub-agents: capacity, watchdogs, inherited stops, cancel, stop |
| `RunTreeProofs` | its theorems |
| `Scan` | the scan of a repository: watermark, cursors, activities, snapshots, events |
| `ScanProofs` | its theorems |
| `PreflightGate` | what the CI gate promises: an abstract specification |
| `Preflight` | the local CI of a pull request with its status and comment; implements `PreflightGate` |
| `PreflightProofs` | its theorems, among them the refinement |
| `Workspace` | the directories of runs: creation, inheritance, retention, removal |
| `WorkspaceProofs` | its theorems |
| `PreparationState`, `Preparation` | dependencies of a directory: snapshots, cache, warm-ups, manual CI |
| `Bridge` | a CLI run, its broker and the calls between them |
| `BridgeProofs` | its theorems, and that of `ModelLoop` |
| `ModelLoopState`, `ModelLoop` | the embedded loop: rounds, compaction, retries, fallbacks |
| `Service` | the loops of the process, the configuration, a migration, start and stop |
| `ServiceProofs` | its theorem, and those of `Dedup` |
| `ScheduleState`, `Schedule` | the rules that run by the clock, from deadline to root runs |
| `DedupState`, `Dedup` | the deduplication of a rule over the events of a scan or a manual batch |
| `MC*` | constants for TLC, nothing else |

Four systems are written in two modules: one that ends in `State` declares constants,
variables and the safety properties, the other extends it with the steps, the fairness
and the liveness. A module of proofs can then extend two systems' states without
mixing their `Init` and `Next`.

`EventDispatch` and `RunTree` look at the same `execute()` from two sides:
`EventDispatch` keeps what decides about an *event* (attempts, idempotency,
cancel source, retries and restarts) and lets an Agent run simply end;
`RunTree` keeps what happens *inside* a run and between the runs of a tree and
executes each once.

### ResourceLease

`owner`, `count`, `left` are the columns of `resource_locks` (the expiry as time
left, so that states do not grow with the clock); `phase`, `alive`, `lost`,
`patience` are the coroutine, its heartbeat task, its flag and its deadline;
`beat` is the age of its last write. A lease object is used once: when it is
gone its slot may serve the next, which is how any number of leases is
represented. Actions are the transactions and the steps between them:
`Acquire` is `acquire_locks`, `Enter` is the moment the coroutine learns of it,
`AbandonAcquired` the cancellation between the two; `Renew`, `HeartbeatFails`
are turns of `_heartbeat`; `Release`, `ExitWithoutRelease` are `__aexit__`
(awaiting a heartbeat that raised raises again, before the release); `Tick` is
the clock and `Restart` the recovery, which empties the table.

Left out: a renewal that is already in its worker thread when `__aexit__`
cancels the heartbeat may still commit after the release. It writes only rows
of its own owner that exist, so that it can do no more than a renewal by
another member of that owner.

### EventDispatch

`evX` and `runX`, `cancelReq`, `source` are columns of `event_inbox` and
`agent_runs`. `phase`, `todo`, `claimed`, `gateErr`, `verdict` are the local
variables of `_process_resource_events` for each pull request; `job`, `result`
the coroutine of `execute` for each idempotency key. `mode` is the service:
`up`, `flagged` (the flags of a stop are up), `stopping` (the active rows have
been swept), `down`. `genuine` counts the failures and crashes an event was
charged for, it is history and read by no action. The invocations that match an
event are constants: the rules are evaluated before anything is dispatched and
do not change in a run. `Decide` takes the reads of the cancel sources as one
step after `gather`; the settling of a batch's events is one step each, with
crashes possible between them.

Left out: failing writes of the store, the deduplication of events of several pull
requests (in `Dedup`), the 5-second back-off between
retries (a task may be restarted at once).

### RunTree

`status`, `slot`, `request` are columns of `agent_runs`; `pc` is where `execute`
is; `stop` is `RunControl.stop`; `outcome` is the result `execute` is about to
write; `cause` its error code. `Interrupt` is what `main_task.cancel()` does to
the innermost coroutine of the chain, with all four places where it can find it.
`late` is the thread that commits although its coroutine is gone.

`RunsEnd` excepts the two ways in which a call does not end: a row left behind keeps a
slot (5 below), and a circle of runs that wait for each other across root runs
(`InCircle`, 4 below): each is a parent that waits for its sub-agent, or is in the queue
for an Agent whose slots such parents hold, and nobody has asked it to stop.

Left out: retries (in `EventDispatch`), a lease that is lost during a run (it
only turns the outcome into a failure), CLI-mode runs.

### Scan

The platform is part of the model: `remote[c]` is the history of a pull request
(a *change request*), and a snapshot is the length of a prefix of it, so that
"the snapshot is older than the activities" is a comparison of two lengths.
`snap`, `snapTarget`, `cursor`, `rebase`, `events`, `watermark` are the tables;
`scan` holds the local variables of `_scan_repository` (`seen` the snapshots of
the list, `left` those not yet processed). `Process` is one turn of the loop, up
to its one transaction `Save`; people may act before and after it. What it reads
of the activities is any moment since the list, and for GitLab's three requests
three such moments, with the checks of the code on them (versions and details
that differ are an error of the provider, which is `ProcessUnread`; details that
differ from the snapshot let the scan fail, which is `Fail`). GitHub dates
commits by when they were written, so that a first look may take them for older
than its window. The events carry what their identifiers are made of, and
`Inserted` is `INSERT OR IGNORE`. `unread` is history.

There are two clocks. The dates of an activity are the platform's (`Dated`): its clock is
`Skew[p]` ahead of the service's (or behind it) and its dates are rounded down to `Grain[p]`,
a full second on GitHub, milliseconds on GitLab, while the service counts in microseconds.
What the code compares with them, the start and the completion of a scan, is by the
service's `clock`. A date is then behind the service's clock by at most `Lag`
(`ScanAssumption`). That a platform's skew stays what it is, is assumed. The overlap of the
list absorbs the lag (`NothingMissed`); the event window has none, so that a pull request
which the platform dates before the start of the last successful scan, although it was
created after that scan's list, is stored without its opened event (16 below).
`CreationAnnounced` says that this is the only way, and how far back such a date can be.

A difference of snapshots is told from an earlier one by its time and its values alone
(`_event_id`), so that a change request which is closed and reopened twice at one instant
of the platform's clock, seen by GitLab's details first, may leave one event for two turns.
`ChangesAnnounced` counts turns for change requests whose turns lie apart (`TurnsApart`).

Left out: labels, draft, approvals and the other fields, which are compared as
head and state are; the paging of lists and timelines; several target branches;
the databases of older versions, whose snapshots have no cursor. The list and
the target head are read in one step. Pull requests of one repository share only the
watermark, the target head and the cut of the list.

### Preflight

`row`, `steps`, `mapped`, `gen` are tables, `remote` and `lost` what the platform
shows, `pc` the place in `ensure_passed`. The events of a pull request come one
after the other, as `EventDispatch` makes them, so that there is one coroutine;
what interleaves with it are pushes, scans, replays by an administrator, faults
of Git or of the platform (whose call may have been carried out all the same) and
crashes, after which `Recovered` is the recovery at the start. A verdict once
reached is refined to `PreflightGate`: nothing takes it back.

Left out: the other fields of a result, the output of steps, manual CI (in
`Preparation`), the comments Agents write. `failure` stands for `failure` and
`timed_out`.

### Workspace

Three places know of a directory: the file system (`dir`, `marker`), the row
(`ws`, `path`) and the leases (`git`, `users`, `cleaner`). `pc` is `execute()`
from the lease to the end, `hold` and `at` are the cleaners: the one of the run
that ends last in its tree and the periodic one. Each looks, checks under the
usage lease, removes and records, with whatever others do in between. `late` is a
thread that makes the directory although its coroutine was cancelled. `gate` is
the CI gate of the same batch, which fetches without the lease.

Left out: the two ways Git makes a directory, deeper trees than a parent and its
sub-agent, a removal that stops half-way, limits and cancels (in `RunTree`).

### Preparation

Tasks of three kinds (`Agents`, `Warmups`, `Manuals`) go through
`prepare_agent_workspace`: restore a snapshot, check it, install, save. What an
installation leaves (`env`) is good, bad, or good until it is restored elsewhere.
`users` and `owned` are the shared and exclusive file lock of the cache, `git` the
lease of the base repository, `cl` the thread of the cache's cleaner, `halt` its
coroutine's wish to stop it. `cast` chooses which tasks are looked at together.

Left out: sub-agents that inherit a directory, repositories without steps or
Python environment, the identity check of the cache's directory.

### Bridge

`runner`, `codex`, `broker` are the three processes or coroutines of a CLI run,
`req`, `resp`, `cfile`, `stopfile`, `errfile` the files they talk through, `task`
the broker's task of a call, `wait` the rows of `agent_run_waits`, `child` a
sub-agent. `asking` is `_request_current_run_cancellation`, which reads the cause
in one transaction and writes the cancel in another. `meant` is history. A turn of the
watch is two steps, `Look` (or `StreamFails`) at the stream and the cancels while Codex
runs, then `Stop` or `GoOn` after the look at the waits, when Codex may have exited
meanwhile; so that `codex` tells whether it exited by itself or was killed.

Left out: the fallback without a bridge, the framing of JSON-RPC, a process tree
that survives its kill, a sub-agent's own deadline.

### ModelLoop

`plan` is the chain of candidates, `exhausted` the models whose quota is used up,
`rounds` and `summary` the history by its sizes, `draft` the local variables of
`ensure_budget` while it waits for a summary. A request ends as the clients make
of the service's error: an answer, a refused effort, a full context, a used-up
quota, an error to fall back on, one to try again, one that ends the run. Windows
are small numbers in which a summary may or may not fit.

Left out: the semaphores of the providers, limits in bytes and the margin of the
estimator, tokens of accounts.

### Service

`at` is where the three supervised loops and an occurrence of a schedule are,
`works` the orchestrator each works with, `orch` the one of the runtime, `conf`
the configuration in force, `file` the one on disk, `changed` that the time of the
file differs from the last one seen. `mig` is the thread of `migrate_repository`
and `repository_maintenance` around it, `journal` the file it writes first; `db`
and `dirs` are the identity in the rows and of the directories. `Throw` is an
exception of any step, also of a commit that was carried out; `Finish` goes
forward or back by the marker, `BreakOff` gets stuck on the way, `Start` settles
what is left. `Shutdown` is `stop()` after the server has ended its requests,
`Kill` what `stop` of the command line does after 30 seconds.

Left out: an invalid file left by hand in the middle of a migration (then a
migration whose commit raised after the fact goes on with the old orchestrator);
an edit by hand between `os.replace` and `stat` of a save, which is never seen;
the wait for curl beyond its place in the loops; what a cycle does, which is
`EventDispatch` and `Scan`.

### Schedule

`rule` is what the configuration in force says of a rule, its version `of` standing
for the signature, which also says of which kind the rule is; `deadline` is `_schedule_deadlines`, where `at = 0` is no entry.
`waiting` and `asking` count the tasks of an occurrence before and after the wait for
curl, `calls` are its calls of `execute()`, `rows` and `roots` the tables. Between
reading the clock and going to sleep the loop does not wait for anything, so that
`Wake` is one turn of it: the entries are brought in line with the rules and every
deadline that has passed becomes a task. `WakeFails` is an exception on the way, when the
deadlines of some rules were taken, and of one rule those before a certain one. When it comes is open. `since`, `started`, `away`,
`called` and `lost` (what a crash, a stop or a failed write has lost) are history and
read by no action.

The signature is a hash of the whole rule, its Agents and its name included: any edit
lets the interval begin anew, not only one of the schedule (`docs/design.md:1114`).
An occurrence that waits for curl when the service is paused still creates its runs.

Left out: the calendar of Cron (croniter is external, a Cron rule here is due at the
multiples of `Period`), the moments of daylight saving, the loop's sleeping time,
repositories that are switched off between the claim and the run.

### Dedup

`of` is what the events carry, in the order of their times: pull request, branch and
batch; the source and the target branch are two switches of the same kind, and one
stands for both. `inbox` is the status in `event_inbox`, `listed` the local variable
of `_settle_scan_deduplicated_events`, `page` and `claimed` those of
`_process_resource_events` for a pull request, `dispatches` is
`event_agent_dispatches`. `Forest` is the union-find of `_deduplicated_matches`, in
any order of the events and their keys (`Marks`, taken one after the other by `Join`);
the properties speak of groups by
`Together`, which is written without it: the closure under sharing a key. `Casts` bounds
what the events of an instance may be, and is any set of them in the proofs. `Prune`
deletes any set of events that it may: which are old enough is open.

Left out: what lies between a claim and the end of the runs (`EventDispatch`), the
limit of 100 pull requests in a turn of the loop, events from before batches had a
name.

## 3. Runs

| run | instance | checks |
|---|---|---|
| `lease` | a parent and its sub-agent with one owner, a foreign lease whose heartbeat may fail, two keys; 1 fault | `LeaseInv` (types, isolation, re-entrance), no false alarm; waiting ends |
| `dispatch` | one pull request, two batches: a gated event beside one that no rule matches, later a direct one; 2 attempts, 1 crash, 1 stop, 1 cancel; fairness | `DispatchInv` (types, stops are free), delivered when completed, order, refinement of `EventDelivery`, no start after the sweep; every event is closed, save for two named ways to get stuck |
| `tree` | a chain of three runs and a rival root run that wants the middle Agent and delegates to the first root's; two runs at a time, one of each Agent; 1 time limit, 1 cancel, a stop; fairness | `TreeInv` (types, limits), true causes, a stop is final; every call ends, save for two named ways to get stuck |
| `scan` | one pull request with three activities on either platform, one commit on the target, a clock of three units in which a scan takes up to one; GitHub's dates are rounded down to two units, GitLab's clock is one behind; the overlap is as long as a scan and that lag | `ScanInv` (types; closed, reopened and committed are announced); nothing is missed; opened is announced, save for what the platform dates before the window; new heads (GitLab) and target commits once; a successful scan has looked at the target |
| `preflight` | two heads, two steps, two pushes, one replay, 2 attempts, 1 fault, 1 crash | published is shown, verdicts have their steps, nobody's row runs on; the comment follows the gate; refinement of `PreflightGate` |
| `workspace` | a root run with a sub-agent that inherits, another root run at a later head, two plans of attempts, both cleaners; 1 fault | directories stay under their users; rows are true; a run works on its commit; what is left behind goes |
| `preparation` | an Agent and a warm-up of one fingerprint, two warm-ups of different ones, a warm-up and a manual CI; room for one snapshot; 1 fault | Agents work in what was verified, few snapshots; the cache stays under its users; tasks end |
| `bridge` | two calls: two waits for one commit, a sub-agent beside a wait, and a sub-agent's run with a comment; 1 trouble | nothing outlives the run; a time-out of CI is not made a cancel; stopped runs end |
| `loop` | two candidates of different windows and efforts, with and without compaction; 5 rounds, 1 retry | complete history, requests fit, quotas remembered; the loop ends |
| `service` | one migration, one edit, two troubles (crash, exception, stop, pause) | consistent identities, settled migrations; a stop ends, an edit is seen |
| `schedule` | a rule of a version by interval and one by Cron, a period of two and four units of time, two edits, two troubles (crash, stop, pause, failure, the clock set back); fairness | `ScheduleInv` (types; no period is passed over and deadlines do not drift; a period runs once); nothing is made up for after a pause or a stop; a deadline that has passed leads to its runs |
| `dedup` | three events of two pull requests and two branches, in one or two batches, the first matched by a second rule; a page of one event; 1 fault | `DedupInv` (types; of a manual batch only the newest of a group runs the rule); the newest is never settled without a run |

`scan` holds 1.6 million states, `bridge` 1.0 million,
`schedule` 0.4 million, the others up to 320 thousand. `dedup` takes pull requests
and branches for symmetric.

**Bounds.** One fault, crash, stop and cancel each are enough to meet each other
in every order, which is where the counterexamples below come from; two attempts
are the least with a retry; three runs in a chain are the least with a run that
is both child and parent, two root runs with a sub-agent each the least that can wait for
each other; two batches are the least with an order. A second pull
request would only multiply the states of the dispatch: tasks of two pull
requests share nothing but the flags. In `scan`, three activities are enough to
close and reopen or to commit twice around every read, and three units of time
for a scan, a failed or late one, and one that no longer lists an old pull
request. A lag of one unit is the least that moves a date across the start of a scan; with
an overlap of one, no longer than a scan, `NothingMissed` is violated. Two heads are the least with an older verdict, two pushes with a head
that comes back in a later generation. Two tasks of the preparation meet on the
lease, on the lock, on a snapshot and at its limit of one. Two calls of a CLI run
can share a wait or not; a third would share it too. In `loop` a candidate's
window is smaller than the history the other has made. In `schedule` four units of
time hold two periods at either offset and a loop that sleeps through both; two edits
turn the rule into the other version and back, or switch it off and on. Rules share
nothing but the loop, where `Wake` treats each alike; `WakeFails` takes any part of
them and of one rule any of its deadlines up to now, which with one rule leaves the last. In `dedup` three events are the least of which the third links the other
two, and a page of one event is the least that tears a batch apart. Two troubles in `service`
are the least for a migration that breaks off and a settlement that does.

**Deadlock** is not checked in the runs but `lease`, `bridge` and `loop`: the
system rests when all events are closed and all calls are over, or at the end of
the bounds. In `bridge` and `loop` what is over keeps stuttering by an action of
its own.

**Fairness.** Weak fairness of the steps of coroutines that can go on: the event
loop schedules ready coroutines, worker threads finish (SQLite has a busy
timeout), Agents end by their time limits, a lease by its deadline. No fairness
for events, cancels, stops, crashes, failures and requests. A stopped service is
assumed to be started again where the liveness of events is concerned. In
`workspace` the periodic cleaner runs again and directories grow old; in
`preparation` a command ends only once its task is cancelled; in `bridge` the
watchdog polls and processes die when they are killed, while a call and Codex
itself need not end; in `loop` requests have a deadline; in `service` loops poll,
and a cycle ends only once its orchestrator was shut. In `schedule` the loop polls and
its tasks go on, since the wait for curl has a limit; the clock need not move.

**The ways to get stuck.** `EventsClose` excepts `Exhausted` and `Blocked`,
which is what the code does (1 and 2 below); apart from them it holds. So does `RunsEnd`,
apart from a slot kept by a row left behind and from `InCircle` (5 and 4 below).

### Disagreements with the documents

They were met while the modules were written. TLC has shown each but 12 and 13 on a
small instance of the module named; no run is kept for them. The instances of `tree` and
`scan` reach 4 and 16, which `RunsEnd` and `CreationAnnounced` name as their exceptions:
without the exception each is violated there.

1. `EventDispatch`: a run swept by a stop that completes all the same keeps
   `cancel_source = 'service_shutdown'` (`finish_agent_run` does not reset it).
   After the restart its event is released at each attempt, and later batches of
   the pull request wait behind it. `docs/design.md:572` says completed runs of
   the batch are skipped.
2. `EventDispatch`: a crash in the last attempt leaves a pending event
   whose attempts are used up. `claim_event` refuses it,
   `pending_event_resources` lists it. `docs/design.md:576` says the rule of a
   failure applies.
3. `EventDispatch`: a crash between an administrator's cancel and the end of
   the run turns it into a failure that is tried again; `README.md:638` of the
   repository says it is not.
4. `RunTree`: two root runs that delegate to each other's Agent, each at
   its `max_concurrent_runs`, wait for ever; `docs/design-sub-agent-waiting.md:14`
   says that queueing is bounded by the parent's total limit, which root runs do
   not have (`codex_model_runner.py:475`).
5. `RunTree`: the reservation before the `try` of `execute` and the
   writes after it are not shielded from the parent's cancellation, so a
   sub-agent's row can stay active, with its slot, until the next start. The
   comment at `executor.py:1204` says queued and preparing runs always get a
   final status first.
6. `Scan`: on GitHub a commit between the list and the timeline is
   announced, taken back by a difference with the older snapshot, and announced
   again by the next scan; `docs/design.md:240` says that what the timeline has
   consumed is not generated again by the snapshots. On GitLab the check of
   `observed_head_sha` prevents it for commits (`AnnouncedOnce`), not for a close
   between the answers for the details and for the state events.
7. `Scan`: the list stops at the last *completion* minus the overlap, so
   that a scan longer than the overlap (less the lag of the platform's dates) leaves a
   gap after its list; `docs/design.md:284` gives the list an overlap and says that what
   is created right after it falls into no gap.
8. `Workspace`: `ensure_passed` fetches into the base repository
   (`preflight.py:843`) without the lease under which direct Agents of the same
   batch pin and clone, so that a run may start at another commit than its
   event's; `docs/design.md:554` says the repository is updated under its lease.
9. `Preparation`: after a warm-up was replaced in `_operations`
   (`agent_workspace_manager.py:229`) `has_active_operations` no longer knows of
   the one that still ends; its docstring (line 113) says a migration waits for
   all.
10. `Bridge`: a run that ended, or was stopped for a time limit, with a call
    outstanding is recorded as cancelled by the administrator when the channel
    closes (`mcp_bridge.py:487`); `docs/implementation-plan-agent-wait-timeouts.md:12`
    says the end of the broker does not make an administrator's cancel. The same may
    happen to a time-out of CI when Codex exits by itself during the turn of the watch
    that finds the time-out, which `CITimeoutKept` excepts.
11. `Service`: after a migration that could not be settled `_repository_ready` stays
    unset (`runtime.py:254`); the loops wait for it for ever, so `stop()` does not
    return and the process has to be killed. The docstring of `stop()`
    (`runtime.py:97`) says it waits for everything to end safely. `StopEnds`
    excepts the case.
12. `Preflight`, not run: a crash in the last attempt, between the commit status
    "running" and the verdict, leaves that status on the platform, since the row may
    not be tried again. The docstring at `state.py:2088` says the position of the
    status is stored so that the final one can be sent after a restart.
13. `ModelLoop`, not run: `_retryable_error` (`codex_model_client.py:617`) says that
    short failures of the network without events are tried again, but those of the
    HTTP client arrive as an error without a status, which is not.
14. `Schedule`: the loop moves the deadline on when it makes the task of an
   occurrence (`runtime.py:604`), which waits for curl and only then writes the row. A
   crash, a stop or a failing write in between loses the period, and nothing is in the
   table. `docs/design.md:1118` says a period that is due is persisted first and
   executed then.
15. `Dedup`: what the settlement of a scan may settle has lost for
   every rule. An event that is superseded for one rule by an event of another pull
   request, and is the newest for a second rule, is planned by
   `_process_resource_events` from the events of its own pull request, where nothing
   supersedes it, and runs both rules. `README.md:272` of the repository says a
   superseded event does not run the rule. (Events of a scan that arrive while a
   dispatch is active are not compared with those of other pull requests at all;
   `docs/design.md:1106` says so.)
16. `Scan`: the event window begins at the start of the last successful scan, by the
   service's clock in microseconds (`orchestrator.py:370`), and is compared with
   `created_at` without an overlap (`events.py:426`), which GitHub gives in full seconds. A
   pull request that is opened right after the list was read, within the second the
   scan began in, or at any time by a platform's clock that is behind, may be dated before
   the window and gets no opened event. `docs/design.md:284` says the use of the start
   avoids just this gap.

## 4. Proofs

All theorems are checked by TLAPS, to the last leaf, for every value of the
constants that satisfies the named assumption of the module. `EventDispatchProofs`,
`ResourceLeaseProofs`, `BridgeProofs` and `ServiceProofs` each have a second part about a
neighbouring system of the same package, which they name by an instance (`S!`, `P!`,
`L!`, `U!`). The two
parts share no lemma about a step, and nothing is composed.

### ResourceLeaseProofs

`Spec => []LeaseInv` (`LeasesKept`), and one by one what it consists of and what
follows: types (`TypeCorrect`), isolation of owners that renew in time (`Isolation`, from it `Exclusion`: no two such owners work on one key),
re-entrance (`Reentrance`), no false alarm (`NoFalseAlarm`). Assumptions:
`LeaseAssumption` (sorts of the constants) and `HeartbeatInTime`
(`Interval + MaxDelay < Ttl`: a renewal that is as late as it may be still
arrives before the expiry; for the code's `max(1, ttl / 3)` that is so from a
`ttl` of a few seconds on).

None of the properties is inductive: a row could expire although its member is
alive if nothing tied the time left to the age of the last beat. The invariant
adds `RowAge` (time left + age of a sound member's beat is at least `Ttl`) and
`BeatOfMembers` (the age of a beat is counted for members only). `Tick` cannot
pass a heartbeat that is due by more than `MaxDelay`; with the assumption, a
row a sound member works under is unexpired, so that no other owner can take it, and `HoldCountCovers` follows
because only members of its own owner ever decrease its count.

### EventDispatchProofs

`Spec => []` of `DispatchInv` (`TypeOK` and `OnlyFailuresExhaust`),
`CompletedMeansDelivered` and `InOrder`, the action property `NoStartAfterSweep`, and the
refinement `Spec => ImplementsDelivery`, for any events, invocations, batches
and pull requests, any number of attempts, crashes, stops and cancels. Only
`DispatchAssumption` (sorts of the constants) is assumed.

The inductive invariant `IInv` says what the process's memory knows of the
database:

* `RowsInv`, `JobInv`, `CalledInv`: an active row belongs to exactly the
  `execute()` that works on it, `execute()` runs only while the batch of its
  event is gathered, and what it has returned is what its row says. This makes
  `Finish` the only step that completes a run, of an event that is in flight,
  and `VerdictInv` turn the verdict "complete" into completed runs.
* `TaskInv`, `HeldInv`: a task's events are in flight and, unless the service is
  down, what is in flight is held by a task. So only the holder closes or
  releases it.
* `CreatedInv`, `BatchInv`, `TurnInv`: why batches keep their order. An event
  before one that a task holds, or has in its snapshot, is there too, is settled,
  or was put off in the batch that is being settled; a task holds one batch, so
  that the put-off event's batch has nothing later in flight, and
  `NextBatchAllowed` drops the snapshot before anything later is claimed.
* `ChargeInv`: each attempt but the one in flight is charged to a failure or a
  crash; a stop gives its attempt back.

Each `NextX` lemma shows that every step preserves one conjunct, action by
action. For the refinement, `NextEventStep` and `NextRunStep` show that a step
moves at most one event on, or lets at most one run succeed while its event is
open, and never both.

### RunTreeProofs

`Spec => []` of `TreeInv` (`TypeOK` and `LimitsRespected`) and `CauseIsTrue`, and the action
property `StopIsFinal`, for any finite forest of runs, any limits, and any number
of cancellations and time limits that strike. Two assumptions:
`RunTreeAssumption` (sorts of the constants, finitely many runs) and
`ForestAssumption`, what a `Parent` without cycles gives by induction on the
depth of a run (its ancestors form a chain and each set of them has a nearest).
The prover has no induction over data, so these facts are assumed by name; TLC
evaluates them on each instance.

The argument of `LimitsRespected`: `SlotInv` says where `execute()` is in terms
of the row (a run that prepares or works has its slot and the matching status),
`CapacityInv` that the slots the database counts respect the limits; only
`Acquire` adds one. A row cancelled while it queues loses its slot, and then
`Prepare` refuses it.

The argument of `StopIsFinal`: `ChainInv` says that the live runs of a tree form
a chain in which all but the last one wait. So the one run that
`task.cancel()` interrupts is the only one below the stopped run that could go
on, and `StopInv` (at or below a stop a run has not begun, waits, ends or is
over) is preserved: `Call` and `Resume` look at the reasons above first.
`CauseIsTrue` follows from `BlameInv`, which traces each inherited reason to the
run where it arose, and from `RequestKeeps`: the one step that overwrites a
request (a shutdown that finds a run just reserved) does so before anything
below that run exists.

### PreflightProofs

`Spec => []` of `PreflightInv` and `CommentFollowsGate`, and the refinement
`Spec => ImplementsGate`, for any heads, steps and attempts and any number of
pushes, replays, faults and crashes. Only `PreflightAssumption` (sorts of the
constants) is assumed.

What rows, steps and the platform say agrees because of where the coroutine is
and what it holds in its hands; the invariant `IInv` says that:

* `RowInv`, `ToldInv`: the row that runs is the coroutine's, and once the result
  is in the row, the two are equal until the coroutine returns.
* `PublishedInv`: a row is marked after the platform has its status, and a
  reservation takes the mark off before the platform is told anything else.
* `StepsInv`: the commands that passed come first (`NextCommand`: the next one is
  the one after them), so that "all are through" and "one failed" are what the
  result says.
* `OneComment`, `OrderInv`, `CommentInv`: as long as nothing disturbs it
  (`Quiet`), the queue holds the generations in their order and what is closed
  was before it. So nobody touches the comment of the newest generation after
  its verdict.
* `GateInv` keeps that an event that was let through has a row that passed.

For the refinement, `GateStep` shows that a step concludes about one head
(`Finish` only), lets the Agents of one start (`Return` only, and never with a
failed status), or changes neither.

### ScanProofs

`Spec => []NothingMissed` (`MissesNothing`), `Spec => CreationAnnounced`
(`AnnouncesCreations`) and `Spec => TargetFresh` (`ComparesTargets`), for any change
requests, activities, commits on the target and clock. The first two are stated for
repositories and scans that satisfy `ShortScans` (a scan and the lag of the platform's
dates together take no longer than the overlap, which is at least a minute) and `NoneCut`
(no more change requests than `max_items_per_repository`): without the first the list
leaves a gap (7 above), and what a limit cuts is behind the next watermark.
`CreationAnnounced` leaves out what the platform dates before the start of the last
successful scan, and the theorem says that such a date is at most `Lag` before it: a
change request that appears after a successful scan was created after that scan's list
(`SeenInv`), and no date is further behind the clock than `Lag` (`DateIs`, from the
assumption on `Grain` and `Skew`). The last needs only `ScanAssumption` (sorts of the constants).

`SeenInv` is the argument: what differs from its snapshot has changed since the last
*successful* scan began, and, for what the scan in progress has processed or did not
list, since this one began; each by the platform's dates, which are up to `Lag` earlier. What was not listed is behind the watermark, so that the
invariant itself says that its snapshot was up to date. `ClockInv` bounds the
distance from the start of a scan to its completion, which is what the overlap has to
cover. `TargetInv` says that without a head of the target there is nothing open; it
needs that a history only grows (`StateStays`), and for this that a prefix has a
latest turn (`Largest`, from the well-foundedness of finite sets).

`Spec => []AnnouncedOnce` (`AnnouncesOnce`) and `Spec => []ScanInv`
(`AnnouncesChanges`: `TypeOK` and `ChangesAnnounced`) need only `ScanAssumption` too: they
hold of scans of any length, of lists that are cut and of activities that are read late.
The recursion of the replay is brought into closed form first (`ReplayIs`): after the
activities up to one of them, the view has the head of the last commit and the state of
the last turn among those, and each activity that changes the view makes its event.
From this follow `HeadsReported` and `TurnsReported`: which events a replay makes of a
part of a history, the difference that is left at its end included. The invariant:

* `HistoryInv`: histories are in the order of their times, closing and reopening
  alternate.
* `PlaceInv`, `TargetsInv`: a snapshot is not past the cursors, unless a rebaseline is due;
  neither is past what a list still to be worked on has shown; what is stored of the
  target is not newer than the target.
* `EventInv`: an event of an activity is of one that has happened and is not newer than the
  list that is worked on; a head on GitLab is not newer than the snapshot. So what a
  turn of the loop finds on GitLab is new, and a head is announced once.
* `AnnouncedInv`: each turn that a cursor has passed has an event of its own (`Direct`), or
  the difference between a snapshot before it and the state after it (`ByDiff`), or, for a
  closing, the details read with it (`ByDetail`). `Ahead` keeps, on GitLab, the same for a
  snapshot whose state the state events did not show yet, `HeadsTold` for each head.

What `ChangesAnnounced` counts follows from `AnnouncedInv` by an injection of turns into
events (`EnoughTold`): of two turns told by one difference the later would have an event of
its own, except when the turns have one time, which is what `TurnsApart` excludes.

### WorkspaceProofs

`Spec => []` of `WorkspaceInv`, `RecordTruth` and `LeasedCheckout`, for any runs,
commits and plans and any number of faults, from `WorkspaceAssumption` (sorts of the
constants; a sub-agent's parent is a root run). The invariant:

* `Leased`, `Held`: the users of a directory are exactly the runs between their lease
  and their end; a cleaner at a directory has both leases and nobody uses it. So
  `Owned`: a removal finds no run that has made or inherited the directory.
* `Recorded`: what row, marker and directory say at each place of `execute()`, with
  the two ways a thread that nobody waited for (`late`) makes them disagree.
* `Checked`: past its check, a cleaner's directory belongs to a run that is settled,
  since an active row is a run's that is on its way and holds the directory.
* `Pinned`: without faults and without a gate, the reference is the pinning run's
  until its directory is made from it, because pinning takes the lease of the base
  repository.

### BridgeProofs

`Spec => []` of `BridgeInv` and `CITimeoutKept`, for any calls, plans and number
of troubles, from `BridgeAssumption` (sorts of the constants). The invariant adds
`Once` (a call is asked for once and claimed once, and only a delegation has a
run below), `Lives` (Codex runs under the watch only, tasks under a living broker
only) and `Blamed`: a cancel, decided or recorded, is somebody's, or it is the
broker's at the end of a run whose CI has not timed out, or whose Codex had exited by
itself. The last is what the
property rests on: the closing of the channel cancels calls by itself, and only
the order of its checks keeps it from blaming an administrator.

### ServiceProofs

`Spec => []ServiceInv`, for any number of migrations, edits and troubles, from
`ServiceAssumption` (bounds are natural numbers). The invariant: `Doors` (with
the repositories not ready no cycle works and none begins; a journal keeps them
closed until the process ends), `Steady` (what the journal knows at each step of
the migration, so that either way to settle it leaves directories, rows and file
with one identity), `Counted` (identities are new) and `Memory` (every
configuration that may be used has the identity of the rows). `Memory` is what
an exception or a late answer of the commit would break first.

### Preparation (in ResourceLeaseProofs)

`Spec => []PreparationInv` and `Spec => []CacheInUse`, for any tasks, fingerprints, limit
of snapshots and number of mishaps, from `PreparationAssumption` (sorts of the constants).
The invariant `PrepInv` adds `LockInv` (the cleaner owns the file lock from its first
check to its end, alone, so that its removal meets nobody who uses the cache) and
`SnapsInv` (no fingerprint has two snapshots, there are no more than the limit, and with
one there is a directory). What is done to the list of snapshots is a restored snapshot
moved to the front, one dropped, one saved before the others and the rest cut off;
`CutOutOne` and its like say what that leaves of a sequence without repetitions.
`WorksVerified` needs no more than that the check is the last step before the work, on
each of the ways there.

### ModelLoop (in BridgeProofs)

`Spec => []LoopInv`, for any chains of candidates, windows, sizes and bounds, from
`ModelLoopAssumption`: sorts of the constants, and that what introduces a summary
(`SUMMARY_PREFIX`, more than 350 bytes) is longer than the slack of the summary's target
(`Slack`, 256). That is what makes a summary which is let through fit into the window it
was made for. A part of the history is weighed by the difference of two prefix sums
(`upto`), as long as it is a part without gaps: `RecentOk`, `WeightOk` and `KeptOk` say
what the compaction keeps and when it cuts nothing. `DraftInv` ties what `ensure_budget`
holds in its hands while it waits for a summary to a history that nobody changes
meanwhile, `IdxInv` says when there is a candidate.

### Schedule (in EventDispatchProofs)

`Spec => []ScheduleInv` (`SchedulesKept`) and `Spec => NoBackfill` (`SleptIsNotRun`), for
any rules, versions, targets, period and clock, from `ScheduleAssumption`. `CalledOnce`
says that `execute` is called for the targets of an occurrence when its row is written
and only then, which is `RunsOnce`. For `NoPeriodSkipped` the loops of the source that go
from deadline to deadline are brought into closed form: `PassedIs` and `LaterIs` show that
the recursive functions of `Schedule` are the times of a grid up to a given one, and the
first one after it (for a loop that fails, a time before now: `Firings`), by the least number at which they would differ (`Least`, `FromLater`).
`GridPassed`, `GridLater` and `GridNext` are the arithmetic of that grid. `Backlog` and
`Cleared` say that what the service has slept through lies before every deadline, since a
pause clears them and a start begins anew; from this `NoBackfill` follows for each turn of
the loop.

### Dedup (in ServiceProofs)

`Spec => []DedupInv` (`DedupSafe`) and `Spec => []NewestNotDropped` (`NewestKept`), for
any events, branches, switches and batches, any size of a page and any number of
interruptions, from `DedupAssumption` (sorts of the constants).

The union-find comes first. `Rooted` is a forest with its roots and a depth that falls on
the way up; with it `find` ends at the root (`RootIs`) and a union gives one tree the
other's root (`UnionIs`). After each mark of an event with a key (`Grown`, kept by
`JoinOk`) all that were marked with a key have one root, and no set that is closed under
sharing a key holds an event without its root. When all are marked, the first says that
who shares a key has one root, the second that no others have: that is `GroupsFound`, two
events have one root exactly when they are `Together`. So a rule selects what nothing
newer among the same events stands for (`SelectedIs`).

What the dispatch looks at is a part of what there is: the list it began with, or what a
task has claimed. `TogetherMore` says that who loses in a part loses in the whole, which
is all that `NewestNotDropped` needs. A winner in a part may lose in the whole, and this
is why `DedupInv` speaks of manual batches only, and why `manual_events_for_batch` is
read for them: `TogetherInBatch` says that a batch is whole enough. The invariant
`DedupIInv` adds what makes the batch that is read whole: `WholeBatch` (it comes at once,
and nothing of it is deleted while one of it is active) with `Tasked` (what is claimed and
not planned is processing, so active, and no two tasks hold one event). `Newest` is
stronger than the property: what runs is the newest of all that match, the deleted and
those to come included.

### Model-checked only

Liveness (`WaitingEnds`, `EventsClose`, `RunsEnd`, `Reclaimed`, `TasksEnd`,
`StoppedRunsEnd`, `LoopEnds`, `ServiceGoesOn`, `PeriodRuns`): the prover does not do
`ENABLED`. Every invariant and every action property that a run checks is proved. The
disagreements above are counterexamples, found by TLC where section 3 says so.

## 5. Not modelled

* Failing writes of the store (an exception of SQLite in the middle of a batch):
  only crashes interrupt the steps of the dispatch.
* Accounts, the sandbox, diagnostics and the programs the service runs: input and
  output, no protocol of their own between processes of the service. They are
  listed in `PROJECT.json` as components that are not modelled.
* Prompts, rendering, diffs of files, validation of the configuration: functions
  of data without state, covered by the repository's unit tests.
* The paging of the platforms' lists, and a limit of items that cuts them
  (`orchestrator.py:387`): what is cut is behind the next watermark, as
  `docs/design.md:129` accepts.
* That scans succeed in the end (`orchestrator.py:440`): a merge request that
  changes during each of them makes each fail.
* The initialisation of a repository, the comments of Agents.

## 6. Plan

1. The initialisation of a repository beside its first scan.
2. A composition of `Dedup` with `EventDispatch`, where the retry of a winner meets
   the settlement of its group.
