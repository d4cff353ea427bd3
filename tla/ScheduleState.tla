----------------------------- MODULE ScheduleState -----------------------------
(***************************************************************************)
(* What is kept of the rules that run by the clock (runtime.py,            *)
(* scheduler.py, state.py), and what must hold of it whatever step comes.  *)
(* The steps are those of Schedule.                                        *)
(***************************************************************************)
EXTENDS Naturals

CONSTANTS
    Rules,
    Versions, Crons,      \* what a rule may be; which of that is Cron
    Targets,              \* the repositories and Agents of a rule
    Period, MaxTime,      \* MaxTime: bound of the clock
    MaxEdits, MaxTroubles \* bounds: changes of rules; crashes, faults, pauses, ...

\* The sorts of the constants.
Sorts == {Period, MaxTime} \subseteq Nat \ {0} /\ Crons \subseteq Versions /\ Versions # {}
ASSUME ScheduleAssumption == Sorts

Time == 0 .. MaxTime + Period
Occurrences == Rules \X Versions \X Time

VARIABLES
    now, up, paused,
    stop, shut,      \* _stop_event; the orchestrators at work have been shut
    rule,            \* the rules in force: enabled, version
    deadline,        \* _schedule_deadlines
    waiting, asking, \* how many tasks wait for curl, and are about to reserve
    rows,            \* the table scheduled_occurrences
    calls,           \* calls of execute: not yet checked, or checked
    roots,           \* the root runs of schedules in agent_runs
    \* history: when a rule was first seen, what the loop has started, times that the
    \* service was paused or down at, how often execute was called, what a fault lost
    since, started, away, called, lost,
    edits, troubles

-----------------------------------------------------------------------------
\* Every variable stays in its type.
ScheduleTypes ==
    /\ now \in 0 .. MaxTime /\ away \subseteq 0 .. MaxTime
    /\ {up, paused, stop, shut} \subseteq BOOLEAN
    /\ rule \in [Rules -> [on : BOOLEAN, of : Versions]]
    /\ deadline \in [Rules -> [of : Versions, at : Time]] /\ since \in [Rules -> Time]
    /\ waiting \in [Occurrences -> Nat] /\ asking \in [Occurrences -> Nat]
    /\ calls \subseteq Occurrences \X Targets \X {"called", "checked"}
    /\ started \subseteq Occurrences /\ called \in [Occurrences \X Targets -> Nat]
    /\ rows \subseteq Occurrences /\ {roots, lost} \subseteq SUBSET (Occurrences \X Targets)

\* A rule is due every Period from when the loop first saw it, or by the calendar.
DueAt(r, t) ==
    /\ t > since[r]
    /\ (IF deadline[r].of \in Crons THEN t ELSE t - since[r]) % Period = 0

\* However late the loop comes, it passes over no period of a rule that stayed as it is,
\* and starts none between: the deadlines do not drift (runtime.py: _schedule_loop).
NoPeriodSkipped ==
    \A r \in Rules : LET d == deadline[r] IN d.at # 0 =>
        /\ DueAt(r, d.at)
        /\ \A t \in Time : DueAt(r, t) /\ t < d.at => <<r, d.of, t>> \in started

\* A period runs once for each of its targets, although the clock is set back, rules go
\* back to what they were and the service is restarted (reserve_scheduled_occurrence).
RunsOnce == \A c \in DOMAIN called : called[c] <= 1

ScheduleInv == ScheduleTypes /\ NoPeriodSkipped /\ RunsOnce

\* What became due while the service was paused or down is not made up for (README.md,
\* runtime.py: pause).
NoBackfill == [][\A o \in started' \ started : o[3] \notin away]_started
================================================================================
