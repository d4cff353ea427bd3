---------------------------- MODULE WorkspaceProofs ----------------------------
(***************************************************************************)
(* Proofs about Workspace, for any runs, commits and plans and any number  *)
(* of faults.                                                              *)
(*                                                                         *)
(* WorkspaceInv rests on the leases (Leased, Held): a run that has or gets *)
(* a directory is one of its users, a cleaner only comes to a directory    *)
(* without users and keeps them out.  RecordTruth rests on the order of    *)
(* the writes to directory, marker and row (Recorded), and on a cleaner    *)
(* that is past its check having a row that is not active (Checked).       *)
(* LeasedCheckout rests on the lease of the base repository (Pinned).      *)
(***************************************************************************)
EXTENDS Workspace, TLAPS

Leasing   == {"leased", "pinned", "created", "marked", "work"}
Preparing == {"queued", "leased", "pinned", "created", "marked"}
Places    == {"idle", "queued", "leased", "pinned", "created", "marked", "work", "ended",
              "gaveUp", "look", "sweep"}
RowWords  == {"none", "active", "inherited", "retained", "not-created", "removed"}

FilesType ==
    /\ ref \in Commits \cup {NoCommit} /\ dir \in [Runs -> Commits \cup {NoCommit}]
    /\ marker \in [Runs -> BOOLEAN] /\ aged \in [Runs -> BOOLEAN]
RowsType ==
    /\ status \in [Runs -> {"none"} \cup Active \cup Terminal]
    /\ left \in [Runs -> Nat]
    /\ ws \in [Runs -> RowWords] /\ path \in [Runs -> Runs \cup {NoRun}]
LeasesType ==
    /\ git \in Cleaners \cup {NoRun} /\ users \in [Runs -> SUBSET Runs]
    /\ cleaner \in [Runs -> Cleaners \cup {NoRun}]
TasksType ==
    /\ pc \in [Runs -> Places] /\ todo \in [Runs -> SUBSET Runs]
    /\ hold \in [Cleaners -> {"idle", "held", "checked", "removed"}]
    /\ at \in [Cleaners -> Runs \cup {NoRun}]
    /\ late \in [Runs -> {"no", "runs", "was"}] /\ gate \in BOOLEAN
    /\ faults \in 0..MaxFaults
Types == FilesType /\ RowsType /\ LeasesType /\ TasksType

\* A run at a directory is one of its users, and a directory that is being made has a
\* commit to be made from.
Leased ==
    /\ \A d \in Runs : \A u \in users[d] : d = DirOf(u)
    /\ \A r \in Runs :
        /\ r \in users[DirOf(r)] <=> pc[r] \in Leasing
        /\ pc[r] \in {"pinned", "created", "marked"} => r \notin Inherits
        /\ pc[r] \in {"pinned", "created"} => git = r
        /\ pc[r] = "pinned" \/ late[r] = "runs" => ref # NoCommit
        /\ late[r] # "no" => r \notin Inherits

\* A cleaner at a directory has both leases, and nobody else uses it.
Held ==
    /\ \A k \in Cleaners : hold[k] # "idle" =>
          at[k] \in Runs /\ cleaner[at[k]] = k /\ git = k /\ (k \in Runs => pc[k] = "sweep")
    /\ \A d \in Runs : cleaner[d] # NoRun =>
          hold[cleaner[d]] # "idle" /\ at[cleaner[d]] = d /\ users[d] = {}
    /\ git # NoRun => \/ git \in Runs /\ pc[git] \in {"pinned", "created"}
                      \/ hold[git] # "idle"

\* The directory of a run that has made or inherited it is there.
Owned == \A r \in Runs : pc[r] \in {"created", "marked", "work"} => dir[DirOf(r)] # NoCommit

\* What the places that know of a directory say while its run is on its way.
Recorded == \A r \in Runs \ Inherits :
    /\ path[r] \in {r, NoRun} /\ ws[r] # "inherited"
    /\ ws[r] \in {"active", "retained"} => path[r] = r
    /\ ws[r] = "active" => pc[r] \in {"work", "ended"}
    /\ pc[r] \in Preparing => ws[r] \in {"none", "removed"} /\ path[r] = NoRun
    /\ pc[r] \notin {"idle", "look", "sweep"} => ActiveRow(r)
    /\ pc[r] \in {"marked", "work", "ended"} => marker[r] /\ dir[r] # NoCommit
    /\ ws[r] = "removed" /\ path[r] = r /\ late[r] = "no" => dir[r] = NoCommit
    /\ ws[r] = "retained" /\ late[r] = "no" /\ dir[r] # NoCommit => marker[r]

\* Past its check, a cleaner's directory belongs to a run whose row was settled; it is
\* gone when the cleaner says so.
Checked ==
    /\ \A r \in Runs : marker[r] => r \notin Inherits
    /\ \A k \in Cleaners : hold[k] # "idle" =>
        /\ at[k] \notin Inherits
        /\ hold[k] = "checked" => pc[at[k]] \notin {"work", "ended"}
        /\ hold[k] = "removed" /\ late[at[k]] = "no" => dir[at[k]] = NoCommit

\* Without faults and without a gate, the reference is the pinning run's until its
\* directory is made from it.
Pinned == ~gate /\ faults = 0 => \A r \in Runs \ Inherits :
    /\ pc[r] = "pinned" => ref = EventHead[r]
    /\ dir[r] \in {NoCommit, EventHead[r]}
    /\ late[r] = "no"

IInv == Types /\ Leased /\ Held /\ Owned /\ Recorded /\ Checked /\ Pinned

-----------------------------------------------------------------------------
(* Lemmas about runs, their directories and the steps.                      *)

\* The directory a run works in is its own, or that of the run it inherits from.
LEMMA DirType ==
    ASSUME NEW r \in Runs
    PROVE  DirOf(r) \in Runs /\ (r \notin Inherits => DirOf(r) = r)
BY WorkspaceAssumption DEF DirOf

\* The named parts of the types, with what the leases say, give the type invariant.
LEMMA TypesTypeOK == Types /\ Leased /\ Held => TypeOK
<1> SUFFICES ASSUME Types, Leased, Held PROVE TypeOK
    OBVIOUS
<1>1. \A d \in Runs : \A u \in users[d] : DirOf(u) = d /\ pc[u] # "idle"
  <2> SUFFICES ASSUME NEW d \in Runs, NEW u \in users[d] PROVE DirOf(u) = d /\ pc[u] # "idle"
    OBVIOUS
  <2>1. u \in Runs
    BY DEF Types, LeasesType
  <2> QED
    BY <2>1 DEF Leased, Leasing
<1> QED
    BY <1>1 DEF Types, TypeOK, FilesType, RowsType, LeasesType, TasksType, Held, Places,
        RowWords

-----------------------------------------------------------------------------
(* The steps keep the invariants.                                            *)

\* Each step keeps the types of the files.
LEMMA NextFilesType == IInv /\ [Next]_vars => FilesType'
<1> SUFFICES ASSUME IInv, [Next]_vars PROVE FilesType'
    OBVIOUS
<1> USE DEF IInv, Types, Cleaners
<1>a. \A u \in Runs : DirOf(u) \in Runs /\ (u \notin Inherits => DirOf(u) = u)
    BY DirType
<1>1. ASSUME NEW r \in Runs, Reserve(r) PROVE FilesType'
    BY <1>1 DEF Reserve, files, FilesType
<1>2. ASSUME NEW r \in Runs, TakeUsage(r) PROVE FilesType'
    BY <1>2 DEF TakeUsage, files, FilesType
<1>3. ASSUME NEW r \in Runs, Pin(r) PROVE FilesType'
    BY <1>3, WorkspaceAssumption DEF Pin, FilesType
<1>4. ASSUME NEW r \in Runs, Create(r) PROVE FilesType'
    BY <1>4 DEF Create, Made, FilesType
<1>5. ASSUME NEW r \in Runs, Mark(r) PROVE FilesType'
    BY <1>5 DEF Mark, FilesType
<1>6. ASSUME NEW r \in Runs, RecordActive(r) PROVE FilesType'
    BY <1>6 DEF RecordActive, files, FilesType
<1>7. ASSUME NEW r \in Runs, Inherit(r) PROVE FilesType'
    BY <1>7 DEF Inherit, files, FilesType
<1>8. ASSUME NEW r \in Runs, WorkEnds(r) PROVE FilesType'
    BY <1>8 DEF WorkEnds, files, FilesType
<1>9. ASSUME NEW r \in Runs, PrepareFails(r) PROVE FilesType'
    BY <1>9 DEF PrepareFails, files, FilesType
<1>10. ASSUME NEW r \in Runs, Abandon(r) PROVE FilesType'
    BY <1>10 DEF Abandon, files, FilesType
<1>11. ASSUME NEW r \in Runs, Finish(r) PROVE FilesType'
    BY <1>11 DEF Finish, FilesType
<1>12. ASSUME NEW r \in Runs, Look(r) PROVE FilesType'
    BY <1>12 DEF Look, files, FilesType
<1>13. ASSUME NEW r \in Runs, SweepEnds(r) PROVE FilesType'
    BY <1>13 DEF SweepEnds, files, FilesType
<1>14. ASSUME NEW r \in Runs, LateCreate(r) PROVE FilesType'
    BY <1>14 DEF LateCreate, Made, FilesType
<1>15. ASSUME NEW r \in Runs, Age(r) PROVE FilesType'
    BY <1>15 DEF Age, FilesType
<1>16. ASSUME NEW r \in Runs, NEW d \in Runs, SweepOpen(r, d) PROVE FilesType'
    BY <1>16 DEF SweepOpen, files, FilesType
<1>17. ASSUME NEW k \in Cleaners, NEW d \in Runs, Recheck(k, d) PROVE FilesType'
    BY <1>17 DEF Recheck, files, FilesType
<1>18. ASSUME NEW k \in Cleaners, NEW d \in Runs, Remove(k, d) PROVE FilesType'
    BY <1>18 DEF Remove, FilesType
<1>19. ASSUME NEW k \in Cleaners, NEW d \in Runs, Keep(k, d) PROVE FilesType'
    BY <1>19 DEF Keep, FilesType
<1>20. ASSUME NEW k \in Cleaners, NEW d \in Runs, RecordRemoval(k, d) PROVE FilesType'
    BY <1>20 DEF RecordRemoval, files, FilesType
<1>21. ASSUME NEW d \in Runs, PeriodicOpen(d) PROVE FilesType'
    BY <1>21 DEF PeriodicOpen, files, FilesType
<1>22. CASE GatePins
    BY <1>22, WorkspaceAssumption DEF GatePins, FilesType
<1>23. CASE Crash
    BY <1>23 DEF Crash, files, FilesType
<1>24. CASE UNCHANGED vars
    BY <1>24 DEF vars, files, rows, leases, tasks, FilesType
<1> QED
    BY <1>1, <1>2, <1>3, <1>4, <1>5, <1>6, <1>7, <1>8, <1>9, <1>10, <1>11, <1>12, <1>13,
        <1>14, <1>15, <1>16, <1>17, <1>18, <1>19, <1>20, <1>21, <1>22, <1>23, <1>24
        DEF Next, RunStep, CleanerStep, PeriodicStep

\* Each step keeps the types of the rows.
LEMMA NextRowsType == IInv /\ [Next]_vars => RowsType'
<1> SUFFICES ASSUME IInv, [Next]_vars PROVE RowsType'
    OBVIOUS
<1> USE DEF IInv, Types, Cleaners
<1>a. \A u \in Runs : DirOf(u) \in Runs /\ (u \notin Inherits => DirOf(u) = u)
    BY DirType
<1>1. ASSUME NEW r \in Runs, Reserve(r) PROVE RowsType'
    BY <1>1 DEF Reserve, RowsType, RowWords, Active
<1>2. ASSUME NEW r \in Runs, TakeUsage(r) PROVE RowsType'
    BY <1>2 DEF TakeUsage, rows, RowsType
<1>3. ASSUME NEW r \in Runs, Pin(r) PROVE RowsType'
    BY <1>3 DEF Pin, RowsType, Active
<1>4. ASSUME NEW r \in Runs, Create(r) PROVE RowsType'
    BY <1>4 DEF Create, rows, RowsType
<1>5. ASSUME NEW r \in Runs, Mark(r) PROVE RowsType'
    BY <1>5 DEF Mark, rows, RowsType
<1>6. ASSUME NEW r \in Runs, RecordActive(r) PROVE RowsType'
    BY <1>6 DEF RecordActive, RowsType, RowWords
<1>7. ASSUME NEW r \in Runs, Inherit(r) PROVE RowsType'
    BY <1>7, WorkspaceAssumption DEF Inherit, RowsType, RowWords, Active
<1>8. ASSUME NEW r \in Runs, WorkEnds(r) PROVE RowsType'
    BY <1>8 DEF WorkEnds, rows, RowsType
<1>9. ASSUME NEW r \in Runs, PrepareFails(r) PROVE RowsType'
    BY <1>9 DEF PrepareFails, rows, RowsType
<1>10. ASSUME NEW r \in Runs, Abandon(r) PROVE RowsType'
    BY <1>10 DEF Abandon, rows, RowsType
<1>11. ASSUME NEW r \in Runs, Finish(r) PROVE RowsType'
    BY <1>11 DEF Finish, RowsType, RowWords, Terminal
<1>12. ASSUME NEW r \in Runs, Look(r) PROVE RowsType'
    BY <1>12 DEF Look, rows, RowsType
<1>13. ASSUME NEW r \in Runs, SweepEnds(r) PROVE RowsType'
    BY <1>13 DEF SweepEnds, rows, RowsType
<1>14. ASSUME NEW r \in Runs, LateCreate(r) PROVE RowsType'
    BY <1>14 DEF LateCreate, rows, RowsType
<1>15. ASSUME NEW r \in Runs, Age(r) PROVE RowsType'
    BY <1>15 DEF Age, rows, RowsType
<1>16. ASSUME NEW r \in Runs, NEW d \in Runs, SweepOpen(r, d) PROVE RowsType'
    BY <1>16 DEF SweepOpen, rows, RowsType
<1>17. ASSUME NEW k \in Cleaners, NEW d \in Runs, Recheck(k, d) PROVE RowsType'
    BY <1>17 DEF Recheck, rows, RowsType
<1>18. ASSUME NEW k \in Cleaners, NEW d \in Runs, Remove(k, d) PROVE RowsType'
    BY <1>18 DEF Remove, rows, RowsType
<1>19. ASSUME NEW k \in Cleaners, NEW d \in Runs, Keep(k, d) PROVE RowsType'
    BY <1>19 DEF Keep, rows, RowsType
<1>20. ASSUME NEW k \in Cleaners, NEW d \in Runs, RecordRemoval(k, d) PROVE RowsType'
    BY <1>20 DEF RecordRemoval, RowsType, RowWords
<1>21. ASSUME NEW d \in Runs, PeriodicOpen(d) PROVE RowsType'
    BY <1>21 DEF PeriodicOpen, rows, RowsType
<1>22. CASE GatePins
    BY <1>22 DEF GatePins, rows, RowsType
<1>23. CASE Crash
    BY <1>23 DEF Crash, RowsType, RowWords, Terminal
<1>24. CASE UNCHANGED vars
    BY <1>24 DEF vars, files, rows, leases, tasks, RowsType, RowWords, Active, Terminal
<1> QED
    BY <1>1, <1>2, <1>3, <1>4, <1>5, <1>6, <1>7, <1>8, <1>9, <1>10, <1>11, <1>12, <1>13,
        <1>14, <1>15, <1>16, <1>17, <1>18, <1>19, <1>20, <1>21, <1>22, <1>23, <1>24
        DEF Next, RunStep, CleanerStep, PeriodicStep

\* Each step keeps the types of the leases.
LEMMA NextLeasesType == IInv /\ [Next]_vars => LeasesType'
<1> SUFFICES ASSUME IInv, [Next]_vars PROVE LeasesType'
    OBVIOUS
<1> USE DEF IInv, Types, Cleaners
<1>a. \A u \in Runs : DirOf(u) \in Runs /\ (u \notin Inherits => DirOf(u) = u)
    BY DirType
<1>1. ASSUME NEW r \in Runs, Reserve(r) PROVE LeasesType'
    BY <1>1 DEF Reserve, leases, LeasesType
<1>2. ASSUME NEW r \in Runs, TakeUsage(r) PROVE LeasesType'
    BY <1>2 DEF TakeUsage, LeasesType
<1>3. ASSUME NEW r \in Runs, Pin(r) PROVE LeasesType'
    BY <1>3 DEF Pin, LeasesType
<1>4. ASSUME NEW r \in Runs, Create(r) PROVE LeasesType'
    BY <1>4 DEF Create, leases, LeasesType
<1>5. ASSUME NEW r \in Runs, Mark(r) PROVE LeasesType'
    BY <1>5 DEF Mark, LeasesType
<1>6. ASSUME NEW r \in Runs, RecordActive(r) PROVE LeasesType'
    BY <1>6 DEF RecordActive, leases, LeasesType
<1>7. ASSUME NEW r \in Runs, Inherit(r) PROVE LeasesType'
    BY <1>7 DEF Inherit, leases, LeasesType
<1>8. ASSUME NEW r \in Runs, WorkEnds(r) PROVE LeasesType'
    BY <1>8 DEF WorkEnds, Released, LeasesType
<1>9. ASSUME NEW r \in Runs, PrepareFails(r) PROVE LeasesType'
    BY <1>9 DEF PrepareFails, Released, LeasesType
<1>10. ASSUME NEW r \in Runs, Abandon(r) PROVE LeasesType'
    BY <1>10 DEF Abandon, Released, LeasesType
<1>11. ASSUME NEW r \in Runs, Finish(r) PROVE LeasesType'
    BY <1>11 DEF Finish, leases, LeasesType
<1>12. ASSUME NEW r \in Runs, Look(r) PROVE LeasesType'
    BY <1>12 DEF Look, leases, LeasesType
<1>13. ASSUME NEW r \in Runs, SweepEnds(r) PROVE LeasesType'
    BY <1>13 DEF SweepEnds, leases, LeasesType
<1>14. ASSUME NEW r \in Runs, LateCreate(r) PROVE LeasesType'
    BY <1>14 DEF LateCreate, leases, LeasesType
<1>15. ASSUME NEW r \in Runs, Age(r) PROVE LeasesType'
    BY <1>15 DEF Age, leases, LeasesType
<1>16. ASSUME NEW r \in Runs, NEW d \in Runs, SweepOpen(r, d) PROVE LeasesType'
    BY <1>16 DEF SweepOpen, Hold, leases, LeasesType
<1>17. ASSUME NEW k \in Cleaners, NEW d \in Runs, Recheck(k, d) PROVE LeasesType'
    BY <1>17 DEF Recheck, GiveBack, leases, LeasesType
<1>18. ASSUME NEW k \in Cleaners, NEW d \in Runs, Remove(k, d) PROVE LeasesType'
    BY <1>18 DEF Remove, leases, LeasesType
<1>19. ASSUME NEW k \in Cleaners, NEW d \in Runs, Keep(k, d) PROVE LeasesType'
    BY <1>19 DEF Keep, GiveBack, LeasesType
<1>20. ASSUME NEW k \in Cleaners, NEW d \in Runs, RecordRemoval(k, d) PROVE LeasesType'
    BY <1>20 DEF RecordRemoval, GiveBack, LeasesType
<1>21. ASSUME NEW d \in Runs, PeriodicOpen(d) PROVE LeasesType'
    BY <1>21 DEF PeriodicOpen, Hold, LeasesType
<1>22. CASE GatePins
    BY <1>22 DEF GatePins, leases, LeasesType
<1>23. CASE Crash
    BY <1>23 DEF Crash, LeasesType
<1>24. CASE UNCHANGED vars
    BY <1>24 DEF vars, files, rows, leases, tasks, LeasesType
<1> QED
    BY <1>1, <1>2, <1>3, <1>4, <1>5, <1>6, <1>7, <1>8, <1>9, <1>10, <1>11, <1>12, <1>13,
        <1>14, <1>15, <1>16, <1>17, <1>18, <1>19, <1>20, <1>21, <1>22, <1>23, <1>24
        DEF Next, RunStep, CleanerStep, PeriodicStep

\* Each step keeps the types of what the coroutines hold.
LEMMA NextTasksType == IInv /\ [Next]_vars => TasksType'
<1> SUFFICES ASSUME IInv, [Next]_vars PROVE TasksType'
    OBVIOUS
<1> USE DEF IInv, Types, Cleaners
<1>a. \A u \in Runs : DirOf(u) \in Runs /\ (u \notin Inherits => DirOf(u) = u)
    BY DirType
<1>1. ASSUME NEW r \in Runs, Reserve(r) PROVE TasksType'
    BY <1>1 DEF Reserve, Go, TasksType, Places
<1>2. ASSUME NEW r \in Runs, TakeUsage(r) PROVE TasksType'
    BY <1>2 DEF TakeUsage, Go, TasksType, Places
<1>3. ASSUME NEW r \in Runs, Pin(r) PROVE TasksType'
    BY <1>3 DEF Pin, Go, TasksType, Places
<1>4. ASSUME NEW r \in Runs, Create(r) PROVE TasksType'
    BY <1>4 DEF Create, Go, TasksType, Places
<1>5. ASSUME NEW r \in Runs, Mark(r) PROVE TasksType'
    BY <1>5 DEF Mark, Go, TasksType, Places
<1>6. ASSUME NEW r \in Runs, RecordActive(r) PROVE TasksType'
    BY <1>6 DEF RecordActive, Go, TasksType, Places
<1>7. ASSUME NEW r \in Runs, Inherit(r) PROVE TasksType'
    BY <1>7 DEF Inherit, Go, TasksType, Places
<1>8. ASSUME NEW r \in Runs, WorkEnds(r) PROVE TasksType'
    BY <1>8 DEF WorkEnds, Go, TasksType, Places
<1>9. ASSUME NEW r \in Runs, PrepareFails(r) PROVE TasksType'
    BY <1>9, WorkspaceAssumption DEF PrepareFails, Fault, TasksType, Places
<1>10. ASSUME NEW r \in Runs, Abandon(r) PROVE TasksType'
    BY <1>10, WorkspaceAssumption DEF Abandon, Fault, Go, TasksType, Places
<1>11. ASSUME NEW r \in Runs, Finish(r) PROVE TasksType'
    BY <1>11 DEF Finish, TasksType, Places
<1>12. ASSUME NEW r \in Runs, Look(r) PROVE TasksType'
    BY <1>12 DEF Look, TasksType, Places
<1>13. ASSUME NEW r \in Runs, SweepEnds(r) PROVE TasksType'
    BY <1>13 DEF SweepEnds, Go, TasksType, Places
<1>14. ASSUME NEW r \in Runs, LateCreate(r) PROVE TasksType'
    BY <1>14 DEF LateCreate, TasksType
<1>15. ASSUME NEW r \in Runs, Age(r) PROVE TasksType'
    BY <1>15 DEF Age, tasks, TasksType
<1>16. ASSUME NEW r \in Runs, NEW d \in Runs, SweepOpen(r, d) PROVE TasksType'
    BY <1>16 DEF SweepOpen, Hold, TasksType
<1>17. ASSUME NEW k \in Cleaners, NEW d \in Runs, Recheck(k, d) PROVE TasksType'
    BY <1>17 DEF Recheck, GiveBack, TasksType
<1>18. ASSUME NEW k \in Cleaners, NEW d \in Runs, Remove(k, d) PROVE TasksType'
    BY <1>18 DEF Remove, TasksType
<1>19. ASSUME NEW k \in Cleaners, NEW d \in Runs, Keep(k, d) PROVE TasksType'
    BY <1>19, WorkspaceAssumption DEF Keep, GiveBack, Fault, TasksType
<1>20. ASSUME NEW k \in Cleaners, NEW d \in Runs, RecordRemoval(k, d) PROVE TasksType'
    BY <1>20, WorkspaceAssumption DEF RecordRemoval, GiveBack, Fault, TasksType
<1>21. ASSUME NEW d \in Runs, PeriodicOpen(d) PROVE TasksType'
    BY <1>21 DEF PeriodicOpen, Hold, TasksType
<1>22. CASE GatePins
    BY <1>22 DEF GatePins, TasksType
<1>23. CASE Crash
  <2>1. pc' \in [Runs -> Places] /\ todo' \in [Runs -> SUBSET Runs]
    BY <1>23 DEF Crash, Places
  <2>2. hold' \in [Cleaners -> {"idle", "held", "checked", "removed"}]
    BY <1>23 DEF Crash
  <2>3. at' \in [Cleaners -> Runs \cup {NoRun}]
    BY <1>23 DEF Crash
  <2>4. late' \in [Runs -> {"no", "runs", "was"}]
    BY <1>23 DEF Crash, TasksType
  <2>5. gate' \in BOOLEAN /\ faults' \in 0..MaxFaults
    <3>1. faults \in 0..MaxFaults /\ MaxFaults \in Nat
      BY WorkspaceAssumption DEF TasksType
    <3>2. faults < MaxFaults /\ faults' = faults + 1 /\ gate' = FALSE
      BY <1>23 DEF Crash, Fault
    <3>3. faults' \in 0..MaxFaults
      BY <3>1, <3>2
    <3> QED
      BY <3>2, <3>3
  <2> QED
    BY <2>1, <2>2, <2>3, <2>4, <2>5 DEF TasksType
<1>24. CASE UNCHANGED vars
    BY <1>24 DEF vars, files, rows, leases, tasks, TasksType, Places
<1> QED
    BY <1>1, <1>2, <1>3, <1>4, <1>5, <1>6, <1>7, <1>8, <1>9, <1>10, <1>11, <1>12, <1>13,
        <1>14, <1>15, <1>16, <1>17, <1>18, <1>19, <1>20, <1>21, <1>22, <1>23, <1>24
        DEF Next, RunStep, CleanerStep, PeriodicStep

\* Each step keeps the users of a directory the runs that are at it.
LEMMA NextLeased == IInv /\ [Next]_vars => Leased'
<1> SUFFICES ASSUME IInv, [Next]_vars PROVE Leased'
    OBVIOUS
<1> USE DEF IInv, Types, Cleaners
<1>a. \A u \in Runs : DirOf(u) \in Runs /\ (u \notin Inherits => DirOf(u) = u)
    BY DirType
<1>1. ASSUME NEW r \in Runs, Reserve(r) PROVE Leased'
    BY <1>1 DEF Reserve, files, leases, Go, Leased, Leasing
<1>2. ASSUME NEW r \in Runs, TakeUsage(r) PROVE Leased'
    BY <1>2, <1>a DEF TakeUsage, files, Go, Leased, Leasing, LeasesType, TasksType
<1>3. ASSUME NEW r \in Runs, Pin(r) PROVE Leased'
  <2>1. ref' # NoCommit
    BY <1>3, WorkspaceAssumption DEF Pin
  <2>2. /\ pc' = [pc EXCEPT ![r] = "pinned"] /\ git' = r /\ git = NoRun
        /\ users' = users /\ late' = late
    BY <1>3 DEF Pin, Go
  <2>3. \A u \in Runs : pc[u] \notin {"pinned", "created"}
    BY <2>2, WorkspaceAssumption DEF Leased
  <2>4. pc[r] = "leased" /\ r \notin Inherits
    BY <1>3 DEF Pin, Go
  <2> QED
    BY <2>1, <2>2, <2>3, <2>4, <1>a DEF Leased, Leasing, TasksType
<1>4. ASSUME NEW r \in Runs, Create(r) PROVE Leased'
    BY <1>4 DEF Create, leases, Go, Leased, Leasing
<1>5. ASSUME NEW r \in Runs, Mark(r) PROVE Leased'
    BY <1>5 DEF Mark, Go, Leased, Leasing, TasksType
<1>6. ASSUME NEW r \in Runs, RecordActive(r) PROVE Leased'
    BY <1>6 DEF RecordActive, files, leases, Go, Leased, Leasing
<1>7. ASSUME NEW r \in Runs, Inherit(r) PROVE Leased'
    BY <1>7 DEF Inherit, files, leases, Go, Leased, Leasing
<1>8. ASSUME NEW r \in Runs, WorkEnds(r) PROVE Leased'
    BY <1>8, <1>a DEF WorkEnds, Released, files, Go, Leased, Leasing, LeasesType, TasksType
<1>9. ASSUME NEW r \in Runs, PrepareFails(r) PROVE Leased'
    BY <1>9, <1>a DEF PrepareFails, Released, files, Leased, Leasing, LeasesType, TasksType
<1>10. ASSUME NEW r \in Runs, Abandon(r) PROVE Leased'
    BY <1>10, <1>a DEF Abandon, Released, files, Go, Leased, Leasing, LeasesType, TasksType
<1>11. ASSUME NEW r \in Runs, Finish(r) PROVE Leased'
    BY <1>11 DEF Finish, leases, Leased, Leasing
<1>12. ASSUME NEW r \in Runs, Look(r) PROVE Leased'
    BY <1>12 DEF Look, files, leases, Leased, Leasing, TasksType
<1>13. ASSUME NEW r \in Runs, SweepEnds(r) PROVE Leased'
    BY <1>13 DEF SweepEnds, files, leases, Go, Leased, Leasing
<1>14. ASSUME NEW r \in Runs, LateCreate(r) PROVE Leased'
    BY <1>14 DEF LateCreate, leases, Leased
<1>15. ASSUME NEW r \in Runs, Age(r) PROVE Leased'
    BY <1>15 DEF Age, leases, tasks, Leased
<1>16. ASSUME NEW r \in Runs, NEW d \in Runs, SweepOpen(r, d) PROVE Leased'
    BY <1>16, WorkspaceAssumption DEF SweepOpen, CleanerMay, files, leases, Leased
<1>17. ASSUME NEW k \in Cleaners, NEW d \in Runs, Recheck(k, d) PROVE Leased'
    BY <1>17 DEF Recheck, Holds, GiveBack, files, leases, Leased, Held
<1>18. ASSUME NEW k \in Cleaners, NEW d \in Runs, Remove(k, d) PROVE Leased'
    BY <1>18 DEF Remove, leases, Leased
<1>19. ASSUME NEW k \in Cleaners, NEW d \in Runs, Keep(k, d) PROVE Leased'
    BY <1>19 DEF Keep, Holds, GiveBack, Leased, Held
<1>20. ASSUME NEW k \in Cleaners, NEW d \in Runs, RecordRemoval(k, d) PROVE Leased'
    BY <1>20 DEF RecordRemoval, Holds, GiveBack, files, Leased, Held
<1>21. ASSUME NEW d \in Runs, PeriodicOpen(d) PROVE Leased'
    BY <1>21, WorkspaceAssumption DEF PeriodicOpen, CleanerMay, files, Leased
<1>22. CASE GatePins
    BY <1>22 DEF GatePins, leases, Leased
<1>23. CASE Crash
    BY <1>23, <1>a DEF Crash, Leased, Leasing
<1>24. CASE UNCHANGED vars
    BY <1>24 DEF vars, files, rows, leases, tasks, Leased, Held, Leasing, FilesType,
        RowsType, LeasesType, TasksType
<1> QED
    BY <1>1, <1>2, <1>3, <1>4, <1>5, <1>6, <1>7, <1>8, <1>9, <1>10, <1>11, <1>12, <1>13,
        <1>14, <1>15, <1>16, <1>17, <1>18, <1>19, <1>20, <1>21, <1>22, <1>23, <1>24
        DEF Next, RunStep, CleanerStep, PeriodicStep

\* Each step keeps the leases of a cleaner its own.
LEMMA NextHeld == IInv /\ [Next]_vars => Held'
<1> SUFFICES ASSUME IInv, [Next]_vars PROVE Held'
    OBVIOUS
<1> USE DEF IInv, Types, Cleaners
<1>a. \A u \in Runs : DirOf(u) \in Runs /\ (u \notin Inherits => DirOf(u) = u)
    BY DirType
<1>1. ASSUME NEW r \in Runs, Reserve(r) PROVE Held'
    BY <1>1 DEF Reserve, leases, Go, Held
<1>2. ASSUME NEW r \in Runs, TakeUsage(r) PROVE Held'
    BY <1>2 DEF TakeUsage, UsageFree, Go, Held
<1>3. ASSUME NEW r \in Runs, Pin(r) PROVE Held'
    BY <1>3, WorkspaceAssumption DEF Pin, Go, Held, TasksType
<1>4. ASSUME NEW r \in Runs, Create(r) PROVE Held'
    BY <1>4 DEF Create, leases, Go, Held
<1>5. ASSUME NEW r \in Runs, Mark(r) PROVE Held'
    BY <1>5 DEF Mark, Go, Held, Leased
<1>6. ASSUME NEW r \in Runs, RecordActive(r) PROVE Held'
    BY <1>6 DEF RecordActive, leases, Go, Held
<1>7. ASSUME NEW r \in Runs, Inherit(r) PROVE Held'
    BY <1>7 DEF Inherit, leases, Go, Held
<1>8. ASSUME NEW r \in Runs, WorkEnds(r) PROVE Held'
    BY <1>8 DEF WorkEnds, Released, Go, Held, TasksType
<1>9. ASSUME NEW r \in Runs, PrepareFails(r) PROVE Held'
    BY <1>9 DEF PrepareFails, Released, Held
<1>10. ASSUME NEW r \in Runs, Abandon(r) PROVE Held'
    BY <1>10 DEF Abandon, Released, Go, Held
<1>11. ASSUME NEW r \in Runs, Finish(r) PROVE Held'
    BY <1>11 DEF Finish, leases, Held
<1>12. ASSUME NEW r \in Runs, Look(r) PROVE Held'
    BY <1>12 DEF Look, leases, Held, TasksType
<1>13. ASSUME NEW r \in Runs, SweepEnds(r) PROVE Held'
    BY <1>13 DEF SweepEnds, leases, Go, Held
<1>14. ASSUME NEW r \in Runs, LateCreate(r) PROVE Held'
    BY <1>14 DEF LateCreate, leases, Held
<1>15. ASSUME NEW r \in Runs, Age(r) PROVE Held'
    BY <1>15 DEF Age, leases, tasks, Held
<1>16. ASSUME NEW r \in Runs, NEW d \in Runs, SweepOpen(r, d) PROVE Held'
  <2>1. CASE UNCHANGED <<hold, at, leases>>
    BY <2>1, <1>16 DEF SweepOpen, Held, leases
  <2>2. CASE Hold(r, d) /\ UNCHANGED users /\ CleanerMay(d)
    <3>1. \A k \in Cleaners : hold[k] = "idle"
      BY <2>2, WorkspaceAssumption DEF CleanerMay, Held
    <3>2. \A e \in Runs : cleaner[e] = NoRun
      BY <3>1 DEF Held, LeasesType
    <3>3. /\ hold' = [hold EXCEPT ![r] = "held"] /\ at' = [at EXCEPT ![r] = d]
          /\ cleaner' = [cleaner EXCEPT ![d] = r] /\ git' = r /\ users' = users
          /\ users[d] = {}
      BY <2>2 DEF Hold, CleanerMay
    <3>4. pc[r] = "sweep" /\ pc' = pc
      BY <1>16 DEF SweepOpen
    <3> QED
      BY <3>1, <3>2, <3>3, <3>4, WorkspaceAssumption DEF Held, LeasesType, TasksType
  <2> QED
    BY <1>16, <2>1, <2>2 DEF SweepOpen
<1>17. ASSUME NEW k \in Cleaners, NEW d \in Runs, Recheck(k, d) PROVE Held'
  <2>1. /\ at[k] = d /\ hold[k] = "held" /\ git = k /\ cleaner[d] = k
        /\ users' = users /\ pc' = pc
    BY <1>17 DEF Recheck, Holds, GiveBack, leases, Held
  <2>2. CASE hold' = [hold EXCEPT ![k] = "checked"] /\ UNCHANGED <<at, leases>>
    BY <2>1, <2>2 DEF Held, leases, TasksType
  <2>3. CASE GiveBack(k, d)
    <3>1. \A j \in Cleaners : j # k => hold[j] = "idle"
      BY <2>1 DEF Held
    <3>2. \A e \in Runs : e # d => cleaner[e] = NoRun
      BY <3>1, <2>1 DEF Held, LeasesType
    <3> QED
      BY <2>1, <2>3, <3>1, <3>2 DEF GiveBack, Held, LeasesType, TasksType
  <2> QED
    BY <1>17, <2>2, <2>3 DEF Recheck
<1>18. ASSUME NEW k \in Cleaners, NEW d \in Runs, Remove(k, d) PROVE Held'
    BY <1>18 DEF Remove, Holds, leases, Held
<1>19. ASSUME NEW k \in Cleaners, NEW d \in Runs, Keep(k, d) PROVE Held'
    BY <1>19 DEF Keep, Holds, GiveBack, Held, LeasesType, TasksType
<1>20. ASSUME NEW k \in Cleaners, NEW d \in Runs, RecordRemoval(k, d) PROVE Held'
    BY <1>20 DEF RecordRemoval, Holds, GiveBack, Held, LeasesType, TasksType
<1>21. ASSUME NEW d \in Runs, PeriodicOpen(d) PROVE Held'
    BY <1>21, WorkspaceAssumption DEF PeriodicOpen, Hold, CleanerMay, Held, LeasesType,
        TasksType
<1>22. CASE GatePins
    BY <1>22 DEF GatePins, leases, Held
<1>23. CASE Crash
    BY <1>23 DEF Crash, Held
<1>24. CASE UNCHANGED vars
    BY <1>24 DEF vars, files, rows, leases, tasks, Held, Leased, Leasing, FilesType,
        RowsType, LeasesType, TasksType
<1> QED
    BY <1>1, <1>2, <1>3, <1>4, <1>5, <1>6, <1>7, <1>8, <1>9, <1>10, <1>11, <1>12, <1>13,
        <1>14, <1>15, <1>16, <1>17, <1>18, <1>19, <1>20, <1>21, <1>22, <1>23, <1>24
        DEF Next, RunStep, CleanerStep, PeriodicStep

\* Each step keeps the directories of the runs that work.
LEMMA NextOwned == IInv /\ [Next]_vars => Owned'
<1> SUFFICES ASSUME IInv, [Next]_vars PROVE Owned'
    OBVIOUS
<1> USE DEF IInv, Types, Cleaners
<1>a. \A u \in Runs : DirOf(u) \in Runs /\ (u \notin Inherits => DirOf(u) = u)
    BY DirType
<1>1. ASSUME NEW r \in Runs, Reserve(r) PROVE Owned'
    BY <1>1 DEF Reserve, files, Go, Owned
<1>2. ASSUME NEW r \in Runs, TakeUsage(r) PROVE Owned'
    BY <1>2 DEF TakeUsage, files, Go, Owned
<1>3. ASSUME NEW r \in Runs, Pin(r) PROVE Owned'
    BY <1>3 DEF Pin, Go, Owned
<1>4. ASSUME NEW r \in Runs, Create(r) PROVE Owned'
    BY <1>4, <1>a DEF Create, Made, Go, Owned, Leased, FilesType
<1>5. ASSUME NEW r \in Runs, Mark(r) PROVE Owned'
    BY <1>5 DEF Mark, Go, Owned
<1>6. ASSUME NEW r \in Runs, RecordActive(r) PROVE Owned'
    BY <1>6 DEF RecordActive, files, Go, Owned
<1>7. ASSUME NEW r \in Runs, Inherit(r) PROVE Owned'
  <2>1. DirOf(r) = Parent[r] /\ dir[Parent[r]] # NoCommit /\ dir' = dir
    BY <1>7 DEF Inherit, DirOf, files
  <2> QED
    BY <1>7, <2>1, <1>a DEF Inherit, Go, Owned, TasksType
<1>8. ASSUME NEW r \in Runs, WorkEnds(r) PROVE Owned'
    BY <1>8 DEF WorkEnds, files, Go, Owned, TasksType
<1>9. ASSUME NEW r \in Runs, PrepareFails(r) PROVE Owned'
    BY <1>9 DEF PrepareFails, files, Owned
<1>10. ASSUME NEW r \in Runs, Abandon(r) PROVE Owned'
    BY <1>10 DEF Abandon, files, Go, Owned
<1>11. ASSUME NEW r \in Runs, Finish(r) PROVE Owned'
    BY <1>11 DEF Finish, Owned
<1>12. ASSUME NEW r \in Runs, Look(r) PROVE Owned'
    BY <1>12 DEF Look, files, Owned, TasksType
<1>13. ASSUME NEW r \in Runs, SweepEnds(r) PROVE Owned'
    BY <1>13 DEF SweepEnds, files, Go, Owned
<1>14. ASSUME NEW r \in Runs, LateCreate(r) PROVE Owned'
    BY <1>14 DEF LateCreate, Made, Owned
<1>15. ASSUME NEW r \in Runs, Age(r) PROVE Owned'
    BY <1>15 DEF Age, tasks, Owned
<1>16. ASSUME NEW r \in Runs, NEW d \in Runs, SweepOpen(r, d) PROVE Owned'
    BY <1>16 DEF SweepOpen, files, Owned
<1>17. ASSUME NEW k \in Cleaners, NEW d \in Runs, Recheck(k, d) PROVE Owned'
    BY <1>17 DEF Recheck, files, Owned
<1>18. ASSUME NEW k \in Cleaners, NEW d \in Runs, Remove(k, d) PROVE Owned'
    BY <1>18, WorkspaceAssumption DEF Remove, Holds, Owned, Leased, Held, Leasing
<1>19. ASSUME NEW k \in Cleaners, NEW d \in Runs, Keep(k, d) PROVE Owned'
    BY <1>19 DEF Keep, Owned
<1>20. ASSUME NEW k \in Cleaners, NEW d \in Runs, RecordRemoval(k, d) PROVE Owned'
    BY <1>20 DEF RecordRemoval, files, Owned
<1>21. ASSUME NEW d \in Runs, PeriodicOpen(d) PROVE Owned'
    BY <1>21 DEF PeriodicOpen, files, Owned
<1>22. CASE GatePins
    BY <1>22 DEF GatePins, Owned
<1>23. CASE Crash
    BY <1>23 DEF Crash, Owned
<1>24. CASE UNCHANGED vars
    BY <1>24 DEF vars, files, rows, leases, tasks, Owned, Leased, Held, Leasing, FilesType,
        RowsType, LeasesType, TasksType
<1> QED
    BY <1>1, <1>2, <1>3, <1>4, <1>5, <1>6, <1>7, <1>8, <1>9, <1>10, <1>11, <1>12, <1>13,
        <1>14, <1>15, <1>16, <1>17, <1>18, <1>19, <1>20, <1>21, <1>22, <1>23, <1>24
        DEF Next, RunStep, CleanerStep, PeriodicStep

\* Each step keeps what rows and markers say of a directory.
LEMMA NextRecorded == IInv /\ [Next]_vars => Recorded'
<1> SUFFICES ASSUME IInv, [Next]_vars PROVE Recorded'
    OBVIOUS
<1> USE DEF IInv, Types, Cleaners
<1>a. \A u \in Runs : DirOf(u) \in Runs /\ (u \notin Inherits => DirOf(u) = u)
    BY DirType
<1>1. ASSUME NEW r \in Runs, Reserve(r) PROVE Recorded'
    BY <1>1 DEF Reserve, files, Go, Recorded, ActiveRow, Active, RowsType
<1>2. ASSUME NEW r \in Runs, TakeUsage(r) PROVE Recorded'
    BY <1>2 DEF TakeUsage, files, rows, Go, Recorded, Preparing, ActiveRow
<1>3. ASSUME NEW r \in Runs, Pin(r) PROVE Recorded'
    BY <1>3 DEF Pin, Go, Recorded, Preparing, ActiveRow, Active
<1>4. ASSUME NEW r \in Runs, Create(r) PROVE Recorded'
    BY <1>4, WorkspaceAssumption DEF Create, Made, rows, Go, Recorded, Preparing, ActiveRow
<1>5. ASSUME NEW r \in Runs, Mark(r) PROVE Recorded'
  <2>1. /\ pc[r] = "created" /\ pc' = [pc EXCEPT ![r] = "marked"]
        /\ marker' = [marker EXCEPT ![r] = TRUE]
        /\ UNCHANGED <<dir, status, ws, path, late>>
    BY <1>5 DEF Mark, Go, rows
  <2>2. r \notin Inherits /\ DirOf(r) = r /\ dir[r] # NoCommit
    BY <2>1, <1>a DEF Leased, Owned
  <2> QED
    BY <2>1, <2>2 DEF Recorded, Preparing, ActiveRow, FilesType, TasksType
<1>6. ASSUME NEW r \in Runs, RecordActive(r) PROVE Recorded'
    BY <1>6 DEF RecordActive, files, Go, Recorded, Preparing, ActiveRow, RowsType, TasksType
<1>7. ASSUME NEW r \in Runs, Inherit(r) PROVE Recorded'
    BY <1>7 DEF Inherit, files, Go, Recorded, ActiveRow
<1>8. ASSUME NEW r \in Runs, WorkEnds(r) PROVE Recorded'
    BY <1>8 DEF WorkEnds, files, rows, Go, Recorded, Preparing, ActiveRow, TasksType
<1>9. ASSUME NEW r \in Runs, PrepareFails(r) PROVE Recorded'
    BY <1>9 DEF PrepareFails, files, rows, Recorded, Preparing, ActiveRow
<1>10. ASSUME NEW r \in Runs, Abandon(r) PROVE Recorded'
    BY <1>10 DEF Abandon, files, rows, Go, Recorded, Preparing, ActiveRow
<1>11. ASSUME NEW r \in Runs, Finish(r) PROVE Recorded'
    BY <1>11 DEF Finish, Recorded, Preparing, ActiveRow, RowsType, TasksType
<1>12. ASSUME NEW r \in Runs, Look(r) PROVE Recorded'
    BY <1>12 DEF Look, files, rows, Recorded, Preparing, ActiveRow, TasksType
<1>13. ASSUME NEW r \in Runs, SweepEnds(r) PROVE Recorded'
    BY <1>13 DEF SweepEnds, files, rows, Go, Recorded, Preparing, ActiveRow
<1>14. ASSUME NEW r \in Runs, LateCreate(r) PROVE Recorded'
    BY <1>14 DEF LateCreate, Made, rows, Recorded, ActiveRow
<1>15. ASSUME NEW r \in Runs, Age(r) PROVE Recorded'
    BY <1>15 DEF Age, rows, tasks, Recorded, ActiveRow
<1>16. ASSUME NEW r \in Runs, NEW d \in Runs, SweepOpen(r, d) PROVE Recorded'
    BY <1>16 DEF SweepOpen, files, rows, Recorded, ActiveRow
<1>17. ASSUME NEW k \in Cleaners, NEW d \in Runs, Recheck(k, d) PROVE Recorded'
    BY <1>17 DEF Recheck, files, rows, Recorded, ActiveRow
<1>18. ASSUME NEW k \in Cleaners, NEW d \in Runs, Remove(k, d) PROVE Recorded'
    BY <1>18, <1>a, WorkspaceAssumption DEF Remove, Holds, rows, Recorded, Checked, Leased,
        Held, Leasing, ActiveRow, FilesType, TasksType
<1>19. ASSUME NEW k \in Cleaners, NEW d \in Runs, Keep(k, d) PROVE Recorded'
    BY <1>19 DEF Keep, rows, Recorded, ActiveRow
<1>20. ASSUME NEW k \in Cleaners, NEW d \in Runs, RecordRemoval(k, d) PROVE Recorded'
  <2>1. /\ at[k] = d /\ hold[k] = "removed"
        /\ UNCHANGED <<dir, marker, status, path, pc, late>>
    BY <1>20 DEF RecordRemoval, Holds, files
  <2>2. late[d] = "no" => dir[d] = NoCommit
    BY <2>1 DEF Checked
  <2>3. CASE ws' = ws
    BY <2>1, <2>3 DEF Recorded, ActiveRow
  <2>4. CASE ws' = [r \in Runs |-> IF r = d \/ path[r] = d THEN "removed" ELSE ws[r]]
    <3>1. \A r \in Runs \ Inherits : ws'[r] = ws[r] \/ (r = d /\ ws'[r] = "removed")
      BY <2>4, WorkspaceAssumption DEF Recorded
    <3> QED
      BY <2>1, <2>2, <3>1 DEF Recorded, ActiveRow
  <2> QED
    BY <1>20, <2>3, <2>4 DEF RecordRemoval
<1>21. ASSUME NEW d \in Runs, PeriodicOpen(d) PROVE Recorded'
    BY <1>21 DEF PeriodicOpen, files, rows, Recorded, ActiveRow
<1>22. CASE GatePins
    BY <1>22 DEF GatePins, rows, Recorded, ActiveRow
<1>23. CASE Crash
    BY <1>23 DEF Crash, files, Recorded, Preparing
<1>24. CASE UNCHANGED vars
    BY <1>24 DEF vars, files, rows, leases, tasks, Recorded, Checked, Leased, Held,
        Leasing, Preparing, ActiveRow, Active, Terminal, FilesType, RowsType, LeasesType,
        TasksType
<1> QED
    BY <1>1, <1>2, <1>3, <1>4, <1>5, <1>6, <1>7, <1>8, <1>9, <1>10, <1>11, <1>12, <1>13,
        <1>14, <1>15, <1>16, <1>17, <1>18, <1>19, <1>20, <1>21, <1>22, <1>23, <1>24
        DEF Next, RunStep, CleanerStep, PeriodicStep

\* Each step keeps what a cleaner has seen under its leases.
LEMMA NextChecked == IInv /\ [Next]_vars => Checked'
<1> SUFFICES ASSUME IInv, [Next]_vars PROVE Checked'
    OBVIOUS
<1> USE DEF IInv, Types, Cleaners
<1>a. \A u \in Runs : DirOf(u) \in Runs /\ (u \notin Inherits => DirOf(u) = u)
    BY DirType
<1>1. ASSUME NEW r \in Runs, Reserve(r) PROVE Checked'
    BY <1>1 DEF Reserve, files, Go, Checked
<1>2. ASSUME NEW r \in Runs, TakeUsage(r) PROVE Checked'
    BY <1>2 DEF TakeUsage, files, Go, Checked
<1>3. ASSUME NEW r \in Runs, Pin(r) PROVE Checked'
    BY <1>3 DEF Pin, Go, Checked
<1>4. ASSUME NEW r \in Runs, Create(r) PROVE Checked'
    BY <1>4 DEF Create, Go, Checked, Leased, Held
<1>5. ASSUME NEW r \in Runs, Mark(r) PROVE Checked'
    BY <1>5 DEF Mark, Go, Checked, Leased
<1>6. ASSUME NEW r \in Runs, RecordActive(r) PROVE Checked'
    BY <1>6, <1>a, WorkspaceAssumption DEF RecordActive, files, Go, Checked, Leased, Held,
        Leasing, LeasesType
<1>7. ASSUME NEW r \in Runs, Inherit(r) PROVE Checked'
    BY <1>7 DEF Inherit, files, Go, Checked
<1>8. ASSUME NEW r \in Runs, WorkEnds(r) PROVE Checked'
    BY <1>8, <1>a, WorkspaceAssumption DEF WorkEnds, files, Go, Checked, Leased, Held,
        Leasing, TasksType
<1>9. ASSUME NEW r \in Runs, PrepareFails(r) PROVE Checked'
    BY <1>9 DEF PrepareFails, files, Checked
<1>10. ASSUME NEW r \in Runs, Abandon(r) PROVE Checked'
    BY <1>10 DEF Abandon, files, Go, Checked
<1>11. ASSUME NEW r \in Runs, Finish(r) PROVE Checked'
    BY <1>11 DEF Finish, Checked
<1>12. ASSUME NEW r \in Runs, Look(r) PROVE Checked'
    BY <1>12 DEF Look, files, Checked, Held, TasksType
<1>13. ASSUME NEW r \in Runs, SweepEnds(r) PROVE Checked'
    BY <1>13 DEF SweepEnds, files, Go, Checked
<1>14. ASSUME NEW r \in Runs, LateCreate(r) PROVE Checked'
    BY <1>14 DEF LateCreate, Made, Checked
<1>15. ASSUME NEW r \in Runs, Age(r) PROVE Checked'
    BY <1>15 DEF Age, tasks, Checked
<1>16. ASSUME NEW r \in Runs, NEW d \in Runs, SweepOpen(r, d) PROVE Checked'
    BY <1>16 DEF SweepOpen, Hold, Inspected, files, Checked, TasksType
<1>17. ASSUME NEW k \in Cleaners, NEW d \in Runs, Recheck(k, d) PROVE Checked'
  <2>1. /\ at[k] = d /\ hold[k] = "held" /\ d \notin Inherits
        /\ UNCHANGED <<dir, marker, pc, late>>
    BY <1>17 DEF Recheck, Holds, files, Checked
  <2>2. CASE Inactive(d) /\ hold' = [hold EXCEPT ![k] = "checked"] /\ UNCHANGED at
    <3>1. ~ActiveRow(d)
      BY <2>2 DEF Inactive, ActiveRow, Active, Terminal
    <3>2. pc[d] \notin {"work", "ended"}
      BY <2>1, <3>1 DEF Recorded
    <3> QED
      BY <2>1, <2>2, <3>2 DEF Checked, TasksType
  <2>3. CASE GiveBack(k, d)
    BY <2>1, <2>3 DEF GiveBack, Checked, TasksType
  <2> QED
    BY <1>17, <2>2, <2>3 DEF Recheck
<1>18. ASSUME NEW k \in Cleaners, NEW d \in Runs, Remove(k, d) PROVE Checked'
    BY <1>18 DEF Remove, Holds, Checked, FilesType
<1>19. ASSUME NEW k \in Cleaners, NEW d \in Runs, Keep(k, d) PROVE Checked'
    BY <1>19 DEF Keep, Holds, GiveBack, Checked, TasksType
<1>20. ASSUME NEW k \in Cleaners, NEW d \in Runs, RecordRemoval(k, d) PROVE Checked'
    BY <1>20 DEF RecordRemoval, GiveBack, files, Checked, TasksType
<1>21. ASSUME NEW d \in Runs, PeriodicOpen(d) PROVE Checked'
    BY <1>21 DEF PeriodicOpen, Hold, Inspected, files, Checked, TasksType
<1>22. CASE GatePins
    BY <1>22 DEF GatePins, Checked
<1>23. CASE Crash
    BY <1>23 DEF Crash, files, Checked
<1>24. CASE UNCHANGED vars
    BY <1>24 DEF vars, files, rows, leases, tasks, Checked, Recorded, Leased, Held,
        Leasing, Preparing, ActiveRow, Active, Terminal, FilesType, RowsType, LeasesType,
        TasksType
<1> QED
    BY <1>1, <1>2, <1>3, <1>4, <1>5, <1>6, <1>7, <1>8, <1>9, <1>10, <1>11, <1>12, <1>13,
        <1>14, <1>15, <1>16, <1>17, <1>18, <1>19, <1>20, <1>21, <1>22, <1>23, <1>24
        DEF Next, RunStep, CleanerStep, PeriodicStep

\* Each step keeps the pinned reference its run's.
LEMMA NextPinned == IInv /\ [Next]_vars => Pinned'
<1> SUFFICES ASSUME IInv, [Next]_vars PROVE Pinned'
    OBVIOUS
<1> USE DEF IInv, Types, Cleaners
<1>a. \A u \in Runs : DirOf(u) \in Runs /\ (u \notin Inherits => DirOf(u) = u)
    BY DirType
<1>1. ASSUME NEW r \in Runs, Reserve(r) PROVE Pinned'
    BY <1>1 DEF Reserve, files, Go, Pinned
<1>2. ASSUME NEW r \in Runs, TakeUsage(r) PROVE Pinned'
    BY <1>2 DEF TakeUsage, files, Go, Pinned
<1>3. ASSUME NEW r \in Runs, Pin(r) PROVE Pinned'
    BY <1>3, WorkspaceAssumption DEF Pin, Go, Pinned, Leased
<1>4. ASSUME NEW r \in Runs, Create(r) PROVE Pinned'
    BY <1>4 DEF Create, Made, Go, Pinned
<1>5. ASSUME NEW r \in Runs, Mark(r) PROVE Pinned'
    BY <1>5 DEF Mark, Go, Pinned
<1>6. ASSUME NEW r \in Runs, RecordActive(r) PROVE Pinned'
    BY <1>6 DEF RecordActive, files, Go, Pinned
<1>7. ASSUME NEW r \in Runs, Inherit(r) PROVE Pinned'
    BY <1>7 DEF Inherit, files, Go, Pinned
<1>8. ASSUME NEW r \in Runs, WorkEnds(r) PROVE Pinned'
    BY <1>8 DEF WorkEnds, files, Go, Pinned, TasksType
<1>9. ASSUME NEW r \in Runs, PrepareFails(r) PROVE Pinned'
    BY <1>9 DEF PrepareFails, Fault, files, Pinned, TasksType
<1>10. ASSUME NEW r \in Runs, Abandon(r) PROVE Pinned'
    BY <1>10 DEF Abandon, Fault, Pinned, TasksType
<1>11. ASSUME NEW r \in Runs, Finish(r) PROVE Pinned'
    BY <1>11 DEF Finish, Pinned
<1>12. ASSUME NEW r \in Runs, Look(r) PROVE Pinned'
    BY <1>12 DEF Look, files, Pinned, TasksType
<1>13. ASSUME NEW r \in Runs, SweepEnds(r) PROVE Pinned'
    BY <1>13 DEF SweepEnds, files, Go, Pinned
<1>14. ASSUME NEW r \in Runs, LateCreate(r) PROVE Pinned'
    BY <1>14 DEF LateCreate, Made, Pinned
<1>15. ASSUME NEW r \in Runs, Age(r) PROVE Pinned'
    BY <1>15 DEF Age, tasks, Pinned
<1>16. ASSUME NEW r \in Runs, NEW d \in Runs, SweepOpen(r, d) PROVE Pinned'
    BY <1>16 DEF SweepOpen, files, Pinned
<1>17. ASSUME NEW k \in Cleaners, NEW d \in Runs, Recheck(k, d) PROVE Pinned'
    BY <1>17 DEF Recheck, files, Pinned
<1>18. ASSUME NEW k \in Cleaners, NEW d \in Runs, Remove(k, d) PROVE Pinned'
    BY <1>18 DEF Remove, Pinned
<1>19. ASSUME NEW k \in Cleaners, NEW d \in Runs, Keep(k, d) PROVE Pinned'
    BY <1>19 DEF Keep, Fault, Pinned, TasksType
<1>20. ASSUME NEW k \in Cleaners, NEW d \in Runs, RecordRemoval(k, d) PROVE Pinned'
    BY <1>20 DEF RecordRemoval, Fault, files, Pinned, TasksType
<1>21. ASSUME NEW d \in Runs, PeriodicOpen(d) PROVE Pinned'
    BY <1>21 DEF PeriodicOpen, files, Pinned
<1>22. CASE GatePins
    BY <1>22 DEF GatePins, Pinned
<1>23. CASE Crash
    BY <1>23 DEF Crash, Fault, Pinned, TasksType
<1>24. CASE UNCHANGED vars
    BY <1>24 DEF vars, files, rows, leases, tasks, Pinned, Leased, Held, FilesType,
        RowsType, LeasesType, TasksType
<1> QED
    BY <1>1, <1>2, <1>3, <1>4, <1>5, <1>6, <1>7, <1>8, <1>9, <1>10, <1>11, <1>12, <1>13,
        <1>14, <1>15, <1>16, <1>17, <1>18, <1>19, <1>20, <1>21, <1>22, <1>23, <1>24
        DEF Next, RunStep, CleanerStep, PeriodicStep

\* All parts of the invariant hold at first.
LEMMA InitIInv == Init => IInv
<1> SUFFICES ASSUME Init PROVE IInv
    OBVIOUS
<1>1. \A u \in Runs : DirOf(u) \in Runs /\ (u \notin Inherits => DirOf(u) = u)
    BY DirType
<1>2. Types
  <2>1. FilesType
    BY DEF Init, FilesType
  <2>2. left \in [Runs -> Nat]
    BY WorkspaceAssumption DEF Init
  <2>3. RowsType /\ LeasesType
    BY <2>2 DEF Init, RowsType, LeasesType, RowWords
  <2>4. TasksType
    <3>1. pc \in [Runs -> Places] /\ todo \in [Runs -> SUBSET Runs]
      BY DEF Init, Places
    <3>2. /\ hold \in [Cleaners -> {"idle", "held", "checked", "removed"}]
          /\ at \in [Cleaners -> Runs \cup {NoRun}]
      BY DEF Init
    <3>3. late \in [Runs -> {"no", "runs", "was"}] /\ gate \in BOOLEAN
      BY DEF Init
    <3>4. faults \in 0..MaxFaults
      BY WorkspaceAssumption DEF Init
    <3> QED
      BY <3>1, <3>2, <3>3, <3>4 DEF TasksType
  <2> QED
    BY <2>1, <2>3, <2>4 DEF Types
<1>3. Leased /\ Held
    BY <1>1, WorkspaceAssumption DEF Init, Leased, Held, Leasing, Cleaners
<1>4. Owned /\ Recorded /\ Checked /\ Pinned
    BY <1>1, WorkspaceAssumption DEF Init, Owned, Recorded, Checked, Pinned, Preparing,
        Cleaners
<1> QED
    BY <1>2, <1>3, <1>4 DEF IInv

\* The invariant is inductive.
LEMMA NextIInv == IInv /\ [Next]_vars => IInv'
BY NextFilesType, NextRowsType, NextLeasesType, NextTasksType, NextLeased, NextHeld,
    NextOwned, NextRecorded, NextChecked, NextPinned DEF IInv, Types

\* The invariant holds in every state of the specification.
LEMMA Invariant == Spec => []IInv
BY InitIInv, NextIInv, PTL DEF Spec

-----------------------------------------------------------------------------
(* The theorems.                                                            *)

\* Nobody takes a directory from under a run that has made or inherited it.
THEOREM DirectoryKept == Spec => []WorkspaceInv
<1>1. IInv => WorkspaceInv
    BY TypesTypeOK DEF IInv, Owned, WorkspaceInv
<1> QED
    BY <1>1, Invariant, PTL

\* Row, marker and directory agree whenever no step is between them.
THEOREM RecordsAgree == Spec => []RecordTruth
<1>1. IInv => RecordTruth
    BY DEF IInv, Recorded, RecordTruth, AtRest, Inspected
<1> QED
    BY <1>1, Invariant, PTL

\* Without a gate beside it and without faults, a run works on the commit of its event.
THEOREM CheckoutOfEvent == Spec => []LeasedCheckout
<1>1. IInv => LeasedCheckout
  <2> SUFFICES ASSUME IInv, ~gate, faults = 0, NEW r \in Runs \ Inherits, pc[r] = "work"
               PROVE  dir[r] = EventHead[r]
    BY DEF LeasedCheckout
  <2>1. dir[r] # NoCommit
    BY DirType DEF IInv, Owned
  <2> QED
    BY <2>1 DEF IInv, Pinned
<1> QED
    BY <1>1, Invariant, PTL
================================================================================
