---------------------------- MODULE ResourceLease ----------------------------
(***************************************************************************)
(* The SQLite lease that guards every write resource of the service:       *)
(* locks.py (class ResourceLease) over the resource_locks table of         *)
(* state.py.  A lease asks for a set of keys at once, is re-entrant for    *)
(* its owner (a root run and its sub-agents share one owner), is kept      *)
(* alive by a heartbeat task and expires on its own.                       *)
(*                                                                         *)
(* A row is kept by the time it has LEFT, not by its date of expiry: the   *)
(* row is expired when left = 0.  An expired row stays in the table until  *)
(* some acquire_locks purges it, and a late heartbeat may still revive it. *)
(* A member of Leases is a slot for successive ResourceLease objects.      *)
(***************************************************************************)
EXTENDS Integers, FiniteSets

CONSTANTS
    Leases,     \* concurrent users of ResourceLease
    Keys,       \* resource keys
    Owners,     \* lock owners (root run ids)
    NoOwner,    \* what a key without a row is owned by
    OwnerOf,    \* OwnerOf[h]: the owner lease h acquires for
    Wants,      \* Wants[h]: the keys lease h needs
    Faulty,     \* leases whose heartbeat may fail, or be later than MaxDelay
    Ttl,        \* ttl_seconds, in ticks
    Interval,   \* the heartbeat's period
    MaxDelay,   \* how late a heartbeat of a lease that is not Faulty may be
    Timeout,    \* timeout_seconds, in ticks
    MaxFaults   \* bound: abandoned acquisitions and failed heartbeats

ASSUME LeaseAssumption ==
    /\ IsFiniteSet(Leases)
    /\ Faulty \subseteq Leases
    /\ NoOwner \notin Owners
    /\ OwnerOf \in [Leases -> Owners]
    /\ Wants \in [Leases -> SUBSET Keys]
    /\ Ttl \in Nat /\ Interval \in Nat \ {0} /\ MaxDelay \in Nat
    /\ Timeout \in Nat /\ MaxFaults \in Nat

\* The heartbeat of a lease that is not Faulty is early enough: with the
\* defaults (ttl 120, interval 40) the 30 s SQLite busy timeout fits.
ASSUME HeartbeatInTime == Interval + MaxDelay < Ttl

VARIABLES
    owner,      \* owner[k]: resource_locks.owner of key k, or NoOwner
    count,      \* count[k]: resource_locks.hold_count
    left,       \* left[k]: expires_at - now, never below 0
    phase,      \* phase[h]: where the lease's coroutine is
    beat,       \* beat[h]: ticks since member h last wrote expires_at
    alive,      \* alive[h]: its heartbeat task runs and has not ended
    lost,       \* lost[h]: ResourceLease.lost
    patience,   \* patience[h]: ticks to the deadline of a waiting __aenter__
    faults      \* faults so far (bounded by MaxFaults)

rows == <<owner, count, left>>
vars == <<owner, count, left, phase, beat, alive, lost, patience, faults>>

Phases == {"idle", "waiting", "acquired", "holding"}

\* A row that acquire_locks would not purge.
Live(k) == owner[k] # NoOwner /\ left[k] > 0

\* Leases whose transaction has committed and that have not been released.
Members == {h \in Leases : phase[h] \in {"acquired", "holding"}}

\* Every lease that shares h's owner keeps its heartbeat.
Sound(o) == \A h \in Leases : OwnerOf[h] = o => h \notin Faulty

Init ==
    /\ owner = [k \in Keys |-> NoOwner]
    /\ count = [k \in Keys |-> 0]
    /\ left = [k \in Keys |-> 0]
    /\ phase = [h \in Leases |-> "idle"]
    /\ beat = [h \in Leases |-> 0]
    /\ alive = [h \in Leases |-> FALSE]
    /\ lost = [h \in Leases |-> FALSE]
    /\ patience = [h \in Leases |-> 0]
    /\ faults = 0

-----------------------------------------------------------------------------
\* The ResourceLease object is gone; its slot may serve another one.
Leave(h) ==
    /\ phase' = [phase EXCEPT ![h] = "idle"]
    /\ beat' = [beat EXCEPT ![h] = 0]
    /\ alive' = [alive EXCEPT ![h] = FALSE]
    /\ lost' = [lost EXCEPT ![h] = FALSE]
    /\ patience' = [patience EXCEPT ![h] = 0]

\* __aenter__ starts: a lease without keys has nothing to wait for.
Request(h) ==
    /\ phase[h] = "idle"
    /\ Wants[h] # {}
    /\ phase' = [phase EXCEPT ![h] = "waiting"]
    /\ patience' = [patience EXCEPT ![h] = Timeout]
    /\ UNCHANGED <<owner, count, left, beat, alive, lost, faults>>

\* Some key is held by another owner: acquire_locks takes all keys or none.
BlockedByAll(h) == \A k \in Wants[h] : Live(k) /\ owner[k] # OwnerOf[h]
Blocked(h) == \E k \in Wants[h] : Live(k) /\ owner[k] # OwnerOf[h]

\* ON CONFLICT DO UPDATE SET hold_count = hold_count + 1.
CountTaken(k) == IF Live(k) THEN count[k] + 1 ELSE 1

\* acquire_locks commits: expired rows go, every wanted key is taken.  (When
\* it refuses, the rollback undoes the purge too and nothing changes.)
Acquire(h) ==
    /\ phase[h] = "waiting"
    /\ ~Blocked(h)
    /\ owner' = [k \in Keys |-> IF k \in Wants[h] THEN OwnerOf[h]
                                ELSE IF Live(k) THEN owner[k] ELSE NoOwner]
    /\ count' = [k \in Keys |-> IF k \in Wants[h] THEN CountTaken(k)
                                ELSE IF Live(k) THEN count[k] ELSE 0]
    /\ left' = [k \in Keys |-> IF k \in Wants[h] THEN Ttl ELSE left[k]]
    /\ phase' = [phase EXCEPT ![h] = "acquired"]
    /\ alive' = [alive EXCEPT ![h] = TRUE]
    /\ patience' = [patience EXCEPT ![h] = 0]
    /\ UNCHANGED <<beat, lost, faults>>

\* The worker thread's answer reaches the coroutine, which starts the
\* heartbeat task and enters the body of the `async with`.
Enter(h) ==
    /\ phase[h] = "acquired"
    /\ phase' = [phase EXCEPT ![h] = "holding"]
    /\ UNCHANGED <<owner, count, left, beat, alive, lost, patience, faults>>

\* An attempt that failed past the deadline raises LockTimeoutError.
GiveUpNever(h) == FALSE
GiveUp(h) == Blocked(h) /\ patience[h] = 0

AcquireTimeout(h) ==
    /\ phase[h] = "waiting"
    /\ GiveUp(h)
    /\ Leave(h)
    /\ UNCHANGED <<owner, count, left, faults>>

\* cancel_check raises LockCancelledError, or the task is cancelled while it
\* sleeps between two attempts.
CancelWaiting(h) ==
    /\ phase[h] = "waiting"
    /\ Leave(h)
    /\ UNCHANGED <<owner, count, left, faults>>

\* The task is cancelled while the thread commits acquire_locks: __aenter__
\* ends without a heartbeat, __aexit__ never runs and the rows are left to
\* expire.
AbandonAcquired(h) ==
    /\ phase[h] = "acquired"
    /\ faults < MaxFaults
    /\ Leave(h)
    /\ faults' = faults + 1
    /\ UNCHANGED <<owner, count, left>>

\* renew_locks: every row must still be the owner's, expired or not.
Renewable(h) == \A k \in Wants[h] : owner[k] = OwnerOf[h]

\* One turn of _heartbeat: renew every key, or set `lost` and end the task.
Renew(h) ==
    /\ phase[h] = "holding"
    /\ alive[h]
    /\ beat[h] >= Interval
    /\ IF Renewable(h)
       THEN /\ left' = [k \in Keys |-> IF k \in Wants[h] THEN Ttl ELSE left[k]]
            /\ beat' = [beat EXCEPT ![h] = 0]
            /\ UNCHANGED <<alive, lost>>
       ELSE /\ lost' = [lost EXCEPT ![h] = TRUE]
            /\ alive' = [alive EXCEPT ![h] = FALSE]
            /\ UNCHANGED <<left, beat>>
    /\ UNCHANGED <<owner, count, phase, patience, faults>>

\* renew_locks raises (the database stayed locked): the heartbeat task ends
\* with the exception, `lost` stays FALSE and nobody is told.
HeartbeatFails(h) ==
    /\ phase[h] = "holding"
    /\ alive[h]
    /\ h \in Faulty
    /\ faults < MaxFaults
    /\ alive' = [alive EXCEPT ![h] = FALSE]
    /\ faults' = faults + 1
    /\ UNCHANGED <<owner, count, left, phase, beat, lost, patience>>

\* release_locks on one key: a row of another owner is passed over.
DropsLast(h, k) == count[k] <= 1
DropsAlways(h, k) == TRUE
Drops(h, k) == DropsLast(h, k)

\* __aexit__ with a heartbeat that runs, or that ended by setting `lost`:
\* the task is cancelled and one hold of every key is given back.
Release(h) ==
    /\ phase[h] = "holding"
    /\ alive[h] \/ lost[h]
    /\ LET mine == {k \in Wants[h] : owner[k] = OwnerOf[h]}
           gone == {k \in mine : Drops(h, k)}
       IN  /\ owner' = [k \in Keys |-> IF k \in gone THEN NoOwner ELSE owner[k]]
           /\ left' = [k \in Keys |-> IF k \in gone THEN 0 ELSE left[k]]
           /\ count' = [k \in Keys |-> IF k \in gone THEN 0
                                       ELSE IF k \in mine THEN count[k] - 1
                                       ELSE count[k]]
    /\ Leave(h)
    /\ UNCHANGED faults

\* __aexit__ with a heartbeat that failed: awaiting the task raises its
\* exception again before release_locks is reached, the rows stay.
ExitWithoutRelease(h) ==
    /\ phase[h] = "holding"
    /\ ~alive[h] /\ ~lost[h]
    /\ Leave(h)
    /\ UNCHANGED <<owner, count, left, faults>>

\* A lease that must renew, or leave, before time goes on.
Due(h) == h \in Members /\ h \notin Faulty /\ beat[h] >= Interval + MaxDelay

\* What a span of time has left after a tick.
Counted(n) == IF n > 0 THEN n - 1 ELSE 0

\* One tick of the clock.  `beat` needs no value above Interval + MaxDelay.
Tick ==
    /\ \A h \in Leases : ~Due(h)
    /\ left' = [k \in Keys |-> Counted(left[k])]
    /\ beat' = [h \in Leases |-> IF h \in Members /\ beat[h] < Interval + MaxDelay
                                 THEN beat[h] + 1 ELSE beat[h]]
    /\ patience' = [h \in Leases |-> Counted(patience[h])]
    /\ UNCHANGED <<owner, count, phase, alive, lost, faults>>

\* The process dies and a new one runs recover_interrupted_work: the leases
\* are gone and resource_locks is emptied.
Restart ==
    /\ owner' = [k \in Keys |-> NoOwner]
    /\ count' = [k \in Keys |-> 0]
    /\ left' = [k \in Keys |-> 0]
    /\ phase' = [h \in Leases |-> "idle"]
    /\ beat' = [h \in Leases |-> 0]
    /\ alive' = [h \in Leases |-> FALSE]
    /\ lost' = [h \in Leases |-> FALSE]
    /\ patience' = [h \in Leases |-> 0]
    /\ UNCHANGED faults

LeaseStep(h) ==
    \/ Request(h) \/ Acquire(h) \/ Enter(h)
    \/ AcquireTimeout(h) \/ CancelWaiting(h) \/ AbandonAcquired(h)
    \/ Renew(h) \/ HeartbeatFails(h)
    \/ Release(h) \/ ExitWithoutRelease(h)

Next == Tick \/ Restart \/ \E h \in Leases : LeaseStep(h)

Spec == Init /\ [][Next]_vars

\* A waiting coroutine polls, a finished body leaves, heartbeats run and time
\* passes.  Nothing makes anyone request, cancel, fail or restart.
Fairness ==
    /\ WF_vars(Tick)
    /\ \A h \in Leases :
        /\ WF_vars(Acquire(h) \/ AcquireTimeout(h))
        /\ WF_vars(Enter(h))
        /\ WF_vars(Renew(h))
        /\ WF_vars(Release(h) \/ ExitWithoutRelease(h))

FairSpec == Spec /\ Fairness

-----------------------------------------------------------------------------
\* Every variable keeps its type.
TypeOK ==
    /\ owner \in [Keys -> Owners \union {NoOwner}]
    /\ count \in [Keys -> Nat]
    /\ left \in [Keys -> 0 .. Ttl]
    /\ phase \in [Leases -> Phases]
    /\ beat \in [Leases -> 0 .. Interval + MaxDelay]
    /\ alive \in [Leases -> BOOLEAN]
    /\ lost \in [Leases -> BOOLEAN]
    /\ patience \in [Leases -> 0 .. Timeout]
    /\ faults \in 0 .. MaxFaults

\* Members of owner o that hold key k.
Holders(o, k) == {h \in Members : OwnerOf[h] = o /\ k \in Wants[h]}

\* Isolation: as long as every lease of an owner renews in time, the owner
\* keeps every row its leases are working under, unexpired, whatever the
\* leases of other owners do: late, failed or abandoned heartbeats, restarts.
\* So two such leases of different owners never work on one key.
SoundHoldersKeepRows ==
    \A h \in Members : Sound(OwnerOf[h]) =>
        \A k \in Wants[h] : owner[k] = OwnerOf[h] /\ left[k] > 0

\* Re-entrance: the hold count of such an owner's row never falls below the
\* number of its leases that work under it (it may be above: an abandoned
\* acquisition leaves its count behind), so that no release frees a key that
\* a parent or a sub-agent still uses.
HoldCountCovers ==
    \A o \in Owners, k \in Keys :
        Sound(o) => count[k] >= Cardinality(Holders(o, k)) \/ owner[k] # o

\* What every state of the leases is: of its types, isolated and re-entrant.
LeaseInv == TypeOK /\ SoundHoldersKeepRows /\ HoldCountCovers

\* No false alarm: a lease is told that it lost its rows only if it, or a
\* lease that shares its owner, was late or failed; otherwise a run's result
\* would be thrown away for nothing (executor.py, "lease.lost").
LostOnlyWhenFaulty ==
    \A h \in Leases : lost[h] => ~Sound(OwnerOf[h])

\* Waiting ends: a lease gets its keys, times out or is cancelled.
WaitingEnds ==
    \A h \in Leases : phase[h] = "waiting" ~> phase[h] # "waiting"

=============================================================================
