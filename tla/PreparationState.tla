--------------------------- MODULE PreparationState ---------------------------
(***************************************************************************)
(* What is kept of the preparation of directories and of the caches of     *)
(* dependencies (agent_workspace.py, workspace_snapshot.py,                *)
(* dependency_cache.py), and what must hold of it whatever step comes.     *)
(* The steps are those of Preparation.                                     *)
(***************************************************************************)
EXTENDS Naturals, Sequences

CONSTANTS
    Agents, Warmups, Manuals,   \* tasks, each is started once
    NoTask,
    Finger,         \* Finger[j]: the fingerprint of what j prepares
    MaxSnapshots,   \* MAX_SNAPSHOTS_PER_REPOSITORY
    Casts,          \* bound: the sets of tasks that are looked at together
    MaxMishaps      \* bound: crashes, damaged files, errors of the surroundings

Jobs == Agents \cup Warmups \cup Manuals

\* The sorts of the constants.
Sorts ==
    /\ NoTask \notin Jobs /\ DOMAIN Finger = Jobs
    /\ MaxSnapshots \in Nat \ {0} /\ MaxMishaps \in Nat
    /\ \A c \in Casts : c \subseteq Jobs
ASSUME PreparationAssumption == Sorts

VARIABLES
    cast,
    pc,         \* where a task is
    env,        \* what is installed in its directory
    src,        \* where that came from: snapshot_status
    again,      \* the steps are run once more, because of what was restored
    cancel,     \* a cancel was requested
    row,        \* the row of a run or of a manual CI
    op,         \* status of a warm-up
    current,    \* _operations[repository]: the warm-up the manager knows
    git,        \* who holds the lease git_repository:<workspace>
    users,      \* who holds the file lock of the cache, shared
    snaps,      \* the snapshots, the last used one first
    cache,      \* the directory of the cache exists
    aged,       \* its usage mark is older than the retention period
    cl,         \* the thread of the cleaner of caches
    owned,      \* the cleaner holds the file lock, exclusively
    halt,       \* the cleaner is to stop: service, maintenance, settings, cancel
    mishaps

-----------------------------------------------------------------------------
\* Every variable stays in its type.
PreparationTypes ==
    /\ cast \in Casts
    /\ pc \in [Jobs -> {"idle", "asked", "leased", "restore", "drop", "build", "save",
                        "check", "discard", "work", "steps", "leave", "unlock", "tidy", "end"}]
    /\ env \in [Jobs -> {"empty", "good", "bad"}]
    /\ src \in [Jobs -> {"none", "restored", "built"}]
    /\ again \in [Jobs -> BOOLEAN] /\ cancel \in [Jobs -> BOOLEAN]
    /\ row \in [Jobs -> {"none", "active", "ended"}]
    /\ op \in [Warmups -> {"none", "waiting", "preparing", "ready", "over"}]
    /\ current \in Warmups \cup {NoTask} /\ git \in Jobs \cup {NoTask} /\ users \subseteq Jobs
    /\ \A i \in 1..Len(snaps) : snaps[i].quality \in {"good", "bad", "damaged"}
    /\ cache \in BOOLEAN /\ aged \in BOOLEAN /\ owned \in BOOLEAN /\ halt \in BOOLEAN
    /\ cl \in {"idle", "measured", "removing"}
    /\ mishaps \in 0..MaxMishaps

Using == {"restore", "drop", "build", "save", "check", "discard", "work", "steps", "leave"}

\* Whatever snapshots hold, an Agent starts and a warm-up is `ready' only with an
\* environment whose probe has just passed (prepare_agent_workspace).
WorksVerified == \A j \in Jobs : pc[j] = "work" => env[j] = "good"

\* Under one fingerprint there is one snapshot, and never more than
\* MAX_SNAPSHOTS_PER_REPOSITORY of them (_cleanup_snapshots).
SnapshotsBounded ==
    /\ Len(snaps) <= MaxSnapshots
    /\ \A i, k \in 1..Len(snaps) : snaps[i].of = snaps[k].of => i = k
    /\ snaps # <<>> => cache

\* The types, and: Agents work in what was verified, snapshots stay few.
PreparationInv == PreparationTypes /\ WorksVerified /\ SnapshotsBounded

\* While any task uses the cache its directory is there and nobody is removing it:
\* a task may have begun between any two steps of the cleaner, and the cleaner's
\* coroutine may be cancelled while its thread removes (cleanup_dependency_caches).
CacheInUse ==
    /\ \A j \in Jobs : pc[j] \in Using => j \in users
    /\ users # {} => cache /\ cl # "removing"
================================================================================
