------------------------------- MODULE Schedule -------------------------------
(***************************************************************************)
(* The rules that run by the clock: the loop that turns the deadlines that *)
(* have passed into occurrences (runtime.py, scheduler.py), and an         *)
(* occurrence until its root runs, one for each repository and Agent, are  *)
(* created (orchestrator.py, state.py).  What a run does is RunTree.       *)
(*                                                                         *)
(* The loop has no wait between reading the clock and going to sleep: one  *)
(* step.  How late it comes is open, so a migration that holds it up is    *)
(* not told apart.  A rule is every Period, counted from when the loop     *)
(* first saw it or, for Cron, from zero; its signature is all of it, so    *)
(* that a version says of which kind it is.                                *)
(***************************************************************************)
EXTENDS ScheduleState

clock   == <<now, away>>
process == <<up, paused, stop, shut>>
plan    == <<rule, deadline, since>>
tasks   == <<waiting, asking, calls, started, called, lost>>
tables  == <<rows, roots>>
count   == <<edits, troubles>>
vars    == <<clock, process, plan, tasks, tables, count>>

None == [of |-> CHOOSE v \in Versions : TRUE, at |-> 0]
NoTasks == [o \in Occurrences |-> 0]
Trouble == troubles < MaxTroubles /\ troubles' = troubles + 1 /\ UNCHANGED edits

Init ==
    /\ now = 0 /\ away = {}
    /\ up = TRUE /\ paused = FALSE /\ stop = FALSE /\ shut = FALSE
    /\ rule \in [Rules -> [on : {TRUE}, of : Versions]]
    /\ deadline = [r \in Rules |-> None] /\ since = [r \in Rules |-> 0]
    /\ waiting = NoTasks /\ asking = NoTasks /\ calls = {} /\ started = {}
    /\ called = [c \in Occurrences \X Targets |-> 0]
    /\ lost = {} /\ rows = {} /\ roots = {} /\ edits = 0 /\ troubles = 0

-----------------------------------------------------------------------------
(* The clock, and the process.                                             *)

Idle == paused \/ stop \/ ~up
Tick ==
    /\ now < MaxTime /\ now' = now + 1
    /\ away' = IF Idle THEN away \cup {now'} ELSE away \ {now'}
    /\ UNCHANGED <<process, plan, tasks, tables, count>>
SetBack ==
    /\ now > 0 /\ now' = now - 1 /\ Trouble
    /\ UNCHANGED <<away, process, plan, tasks, tables>>

Loses(S) == lost' = lost \cup S
Forget ==
    /\ waiting' = NoTasks /\ asking' = NoTasks /\ calls' = {}
    /\ Loses({c \in Occurrences \X Targets : waiting[c[1]] + asking[c[1]] > 0}
              \cup {<<c[1], c[2]>> : c \in calls})
    /\ UNCHANGED <<started, called>>

Start ==
    /\ ~up /\ up' = TRUE /\ paused' = FALSE /\ stop' = FALSE /\ shut' = FALSE
    /\ deadline' = [r \in Rules |-> None]
    /\ UNCHANGED <<clock, rule, since, tasks, tables, count>>
Crash ==
    /\ up /\ up' = FALSE /\ Trouble /\ Forget
    /\ UNCHANGED <<clock, paused, stop, shut, plan, tables>>

\* stop(): first the event; later every orchestrator that is at work; then the tasks
\* are awaited.
AskToStop ==
    /\ up /\ ~stop /\ stop' = TRUE /\ Trouble
    /\ UNCHANGED <<clock, up, paused, shut, plan, tasks, tables>>
Shutdown ==
    /\ up /\ stop /\ ~shut /\ shut' = TRUE
    /\ UNCHANGED <<clock, up, paused, stop, plan, tasks, tables, count>>
Stopped ==
    /\ up /\ shut /\ waiting = NoTasks /\ asking = NoTasks /\ calls = {} /\ up' = FALSE
    /\ UNCHANGED <<clock, paused, stop, shut, plan, tasks, tables, count>>

\* Mutant: pause() leaves it to the loop to clear the deadlines.
PauseOnly ==
    /\ up /\ ~paused /\ Trouble /\ paused' = TRUE
    /\ UNCHANGED <<clock, up, stop, shut, rule, deadline, since, tasks, tables>>

Pause ==
    /\ up /\ ~paused /\ Trouble /\ paused' = TRUE
    /\ deadline' = [r \in Rules |-> None]
    /\ UNCHANGED <<clock, up, stop, shut, rule, since, tasks, tables>>
Resume ==
    /\ up /\ paused /\ paused' = FALSE
    /\ UNCHANGED <<clock, up, stop, shut, plan, tasks, tables, count>>

\* A page or a hand changes a rule, on or off, or anything else of it.
Edit(r) ==
    /\ edits < MaxEdits /\ edits' = edits + 1 /\ UNCHANGED troubles
    /\ \E on \in BOOLEAN, of \in Versions :
         /\ rule[r] # [on |-> on, of |-> of]
         /\ rule' = [rule EXCEPT ![r] = [on |-> on, of |-> of]]
    /\ UNCHANGED <<clock, process, deadline, since, tasks, tables>>

-----------------------------------------------------------------------------
(* The loop.                                                               *)

\* next_scheduled_at: strictly later.
NextAt(v, after) ==
    IF v \in Crons THEN (after \div Period + 1) * Period ELSE after + Period

\* A rule that is new to the loop, or not as it was, counts from now; one that is off
\* has no deadline.
Fresh(r) == rule[r].on /\ (deadline[r].at = 0 \/ deadline[r].of # rule[r].of)
Synced(r) ==
    IF ~rule[r].on THEN None
    ELSE IF Fresh(r) THEN [of |-> rule[r].of, at |-> NextAt(rule[r].of, now)]
    ELSE deadline[r]

\* Mutant: the next deadline counts from now, not from the one that has passed.
Drift(v, t) == NextAt(v, now)

FollowedBy(v, t) == NextAt(v, t)

\* The deadlines up to a time, and the first after it.
Passed(v, first, upTo) ==
    LET due[t \in Time] == IF t > upTo THEN {} ELSE {t} \cup due[FollowedBy(v, t)]
    IN due[first]
Later(v, first, upTo) ==
    LET next[t \in Time] == IF t > upTo THEN t ELSE next[FollowedBy(v, t)]
    IN next[first]

\* The loop starts a task for each deadline of a rule up to upTo[r]; later ones stay.
Fire(upTo) ==
    LET due == {o \in Occurrences : rule[o[1]].on /\ o[2] = rule[o[1]].of
                                      /\ o[3] \in Passed(o[2], Synced(o[1]).at, upTo[o[1]])}
    IN  /\ waiting' = [o \in Occurrences |-> waiting[o] + IF o \in due THEN 1 ELSE 0]
        /\ started' = started \cup due
        /\ deadline' = [r \in Rules |->
              IF rule[r].on
              THEN [of |-> rule[r].of, at |-> Later(rule[r].of, Synced(r).at, upTo[r])]
              ELSE Synced(r)]
        /\ since' = [r \in Rules |-> IF Fresh(r) THEN now ELSE since[r]]
        /\ UNCHANGED <<clock, process, rule, asking, calls, called, lost, tables>>

Wake == up /\ ~stop /\ ~paused /\ Fire([r \in Rules |-> now]) /\ UNCHANGED count
\* The orchestrator of an occurrence of q cannot be made: the deadlines of the rules
\* before it, and its own before that one, are taken; the loop is started again later.
WakeFails ==
    /\ up /\ ~stop /\ ~paused /\ Trouble
    /\ \E R \in SUBSET Rules, q \in Rules, t \in 0 .. now :
          Fire([r \in Rules |-> IF r = q THEN t ELSE IF r \in R THEN now ELSE 0])
\* The loop while paused.
WakePaused ==
    /\ up /\ ~stop /\ paused /\ deadline' = [r \in Rules |-> None]
    /\ UNCHANGED <<clock, process, rule, since, tasks, tables, count>>

-----------------------------------------------------------------------------
(* An occurrence.                                                          *)

Less(tasksOf, o) == [tasksOf EXCEPT ![o] = @ - 1]

\* Curl is ready, or will not be: no more is started once the service stops.
Occur(o) ==
    /\ waiting[o] > 0 /\ waiting' = Less(waiting, o)
    /\ asking' = IF stop THEN asking ELSE [asking EXCEPT ![o] = @ + 1]
    /\ Loses(IF stop THEN {o} \X Targets ELSE {})
    /\ UNCHANGED <<clock, process, plan, calls, started, called, tables, count>>

\* Mutants: the row is replaced, not ignored; the time is no part of the identifier.
Reserved(o) == TRUE
FirstOfRule(o) == \A p \in rows : <<p[1], p[2]>> # <<o[1], o[2]>>

\* reserve_scheduled_occurrence: INSERT OR IGNORE.
New(o) == o \notin rows

Reserve(o) ==
    /\ asking[o] > 0 /\ asking' = Less(asking, o)
    /\ rows' = rows \cup {o}
    /\ IF New(o)
       THEN /\ calls' = calls \cup {<<o, x, "called">> : x \in Targets}
            /\ called' = [c \in DOMAIN called |-> called[c] + IF c[1] = o THEN 1 ELSE 0]
       ELSE UNCHANGED <<calls, called>>
    /\ UNCHANGED <<clock, process, plan, waiting, started, lost, roots, count>>
\* The status or the row cannot be written: logged, and that is all.
ReserveFails(o) ==
    /\ asking[o] > 0 /\ asking' = Less(asking, o) /\ Trouble /\ Loses({o} \X Targets)
    /\ UNCHANGED <<clock, process, plan, waiting, calls, started, called, tables>>

\* execute: refused by an orchestrator that is shut, and later begin_agent_run, of a
\* key that the occurrence and the target make.
Enter(c) ==
    /\ c \in calls /\ c[3] = "called"
    /\ calls' = (calls \ {c}) \cup IF shut THEN {} ELSE {<<c[1], c[2], "checked">>}
    /\ Loses(IF shut THEN {<<c[1], c[2]>>} ELSE {})
    /\ UNCHANGED <<clock, process, plan, waiting, asking, started, called, tables, count>>
Create(c) ==
    /\ c \in calls /\ c[3] = "checked" /\ calls' = calls \ {c}
    /\ roots' = roots \cup {<<c[1], c[2]>>}
    /\ UNCHANGED <<clock, process, plan, waiting, asking, started, called, lost, rows, count>>
CreateFails(c) ==
    /\ c \in calls /\ c[3] = "checked" /\ calls' = calls \ {c} /\ Trouble
    /\ Loses({<<c[1], c[2]>>})
    /\ UNCHANGED <<clock, process, plan, waiting, asking, started, called, tables>>

-----------------------------------------------------------------------------
Task ==
    \/ \E o \in Occurrences : Occur(o) \/ Reserve(o)
    \/ \E c \in calls : Enter(c) \/ Create(c)

Next ==
    \/ Tick \/ SetBack \/ Start \/ Crash \/ AskToStop \/ Shutdown \/ Stopped
    \/ Pause \/ Resume \/ (\E r \in Rules : Edit(r))
    \/ Wake \/ WakeFails \/ WakePaused \/ Task
    \/ \E o \in Occurrences : ReserveFails(o)
    \/ \E c \in calls : CreateFails(c)

\* The loop polls, and no task waits for ever.  The clock need not go on.
Spec == Init /\ [][Next]_vars /\ WF_vars(Wake) /\ WF_vars(Task)

-----------------------------------------------------------------------------
\* Whose deadline has passed, or what the loop has started, and has no run yet.
Owed == {c \in (Occurrences \X Targets) \ (roots \cup lost) :
           LET o == c[1]
           IN \/ o \in started
              \/ /\ ~Idle /\ o[3] \in 1 .. now
                 /\ deadline[o[1]] = [of |-> o[2], at |-> o[3]]
                 /\ rule[o[1]] = [on |-> TRUE, of |-> o[2]]}

\* A deadline that has passed leads to the runs of all its targets, however slow the
\* loop is and whatever is done meanwhile; only a crash, a stop or a failing write
\* loses one (runtime.py: _run_scheduled_occurrence).
PeriodRuns == []<>(Owed = {})
================================================================================
