----------------------------- MODULE ServiceProofs -----------------------------
(***************************************************************************)
(* Proofs about Service, for any number of migrations, edits and troubles. *)
(*                                                                         *)
(* ServiceInv is not inductive.  That no cycle works while a repository is *)
(* moved rests on the doors (Doors): with the repositories not ready no    *)
(* cycle is left and none begins.  That everything agrees afterwards rests *)
(* on what the journal knows at each step of the migration (Steady), and   *)
(* on every configuration in memory having the identity of the rows while  *)
(* the doors are open (Memory).                                            *)
(*                                                                         *)
(* And about Dedup, for any events, switches, pages and interruptions: the *)
(* forest of _deduplicated_matches finds the groups (GroupsFound), so that *)
(* a rule selects what nothing newer stands for (SelectedIs), and with     *)
(* that DedupIInv is kept by every step.                                   *)
(***************************************************************************)
EXTENDS Service, DedupState, FiniteSetTheorems, SequenceTheorems, WellFoundedInduction, TLAPS

Ids  == 0 .. MaxMigrations
Revs == 0 .. MaxEdits
Files == [id : Ids, rev : Revs, ok : BOOLEAN]
Orchestrators == [id : Ids, rev : Revs, shut : BOOLEAN]
Moving == {"move", "config", "commit", "finish", "thrown"}

Types ==
    /\ up \in {"down", "up", "stopping"} /\ shut \in BOOLEAN /\ paused \in BOOLEAN
    /\ wake \in BOOLEAN /\ ready \in BOOLEAN /\ changed \in BOOLEAN
    /\ at \in [Workers -> {"over", "top", "curl", "gate", "cycle", "backoff"}]
    /\ orch \in Orchestrators /\ works \in [Workers -> Orchestrators]
    /\ mig \in {"none", "asked", "over"} \cup Moving
    /\ file \in Files /\ journal \in [on : BOOLEAN, file : Files, id : Ids]
    /\ conf \in [id : Ids, rev : Revs]
    /\ db \in Ids /\ dirs \in Ids
    /\ edits \in Revs /\ begun \in Ids

\* With the repositories not ready no cycle works and no occurrence is on its way; a
\* migration closes them, and a journal keeps them closed.
Doors ==
    /\ ~ready => at["occurrence"] = "over" /\ \A w \in Workers : at[w] # "cycle"
    /\ up = "down" => \A w \in Workers : at[w] = "over"
    /\ mig # "none" => up = "up" /\ ~ready
    /\ journal.on => up = "down" \/ ~ready
    /\ mig \in Moving => journal.on
    /\ mig = "asked" => ~journal.on

\* What the journal knows of a migration, and how far it has come.
Steady ==
    /\ journal.on => journal.file.id = journal.id /\ journal.file.ok
    /\ journal.on /\ Committed => db = journal.id + 1 /\ dirs = db /\ file.id = db
    /\ ~journal.on => dirs = db /\ file.id = db
    /\ mig \in {"move", "config", "commit"} => ~Committed
    /\ mig \in {"config", "commit"} => dirs = journal.id + 1
    /\ mig = "commit" => file.id = journal.id + 1
    /\ mig = "finish" => Committed
    /\ mig \in Moving => file.ok

\* The identities are counted by the migrations begun.
Counted ==
    /\ db <= begun
    /\ mig = "asked" => db < begun
    /\ journal.on /\ ~Committed => journal.id < begun

\* What is in memory has the identity of the rows, while it may be used.
Memory ==
    /\ up # "down" /\ ready => orch.id = db /\ conf.id = db
    /\ mig = "asked" => conf.id = db
    /\ mig = "over" /\ ~journal.on => conf.id = db \/ (changed /\ file.ok)
    /\ \A w \in Workers : at[w] = "cycle" => works[w].id = db
    /\ at["occurrence"] # "over" => works["occurrence"].id = db

IInv == Types /\ Doors /\ Steady /\ Counted /\ Memory

\* The four loops of the service that the steps name are among its workers.
LEMMA WorkersFacts == "occurrence" \in Workers /\ "scanner" \in Workers
                      /\ "dispatcher" \in Workers /\ "scheduler" \in Workers
BY DEF Workers, Loops

\* The helpers of the records have the types of the records.
LEMMA NewType == ASSUME NEW c \in [id : Ids, rev : Revs] PROVE New(c) \in Orchestrators
BY DEF New, Orchestrators

\* The journal that a settled migration leaves has the type of a journal.
LEMMA NoJournalType == NoJournal \in [on : BOOLEAN, file : Files, id : Ids]
BY ServiceAssumption DEF NoJournal, Files, Ids, Revs

\* The invariant holds before the service is first started.
LEMMA InitIInv == Init => IInv
<1> SUFFICES ASSUME Init PROVE IInv
    OBVIOUS
<1> USE ServiceAssumption, WorkersFacts DEF Init, Ids, Revs
<1>1. Types
    BY NoJournalType DEF Types, NoJournal, New, Files, Orchestrators, Moving, Workers, Loops
<1>2. Doors /\ Counted
    BY DEF Doors, Counted, NoJournal, Moving
<1>3. Steady /\ Memory
    BY DEF Steady, Memory, NoJournal, Moving, New
<1> QED
    BY <1>1, <1>2, <1>3 DEF IInv

\* The invariant gives the property of the run `service`.
LEMMA IInvServiceInv == IInv => ServiceInv
BY ServiceAssumption DEF IInv, Types, Doors, Steady, Counted, Memory, Committed,
    Ids, Revs, Files, Orchestrators, Moving, ServiceInv, TypeOK, Consistent, Settled

\* Each step keeps the types.
LEMMA TypesNext == IInv /\ [Next]_vars => Types'
<1> SUFFICES ASSUME Types, Doors, Counted, Steady, [Next]_vars PROVE Types'
    BY DEF IInv
<1> USE ServiceAssumption DEF Types, Moving, proc, loops, store, mem, count
<1>a. conf \in [id : Ids, rev : Revs] /\ [id |-> file.id, rev |-> file.rev] \in [id : Ids, rev : Revs]
    BY DEF Files
<1>b. journal.id \in Ids /\ journal.file \in Files /\ journal.on \in BOOLEAN
    OBVIOUS
<1>c. Reload => conf' \in [id : Ids, rev : Revs] /\ changed' \in BOOLEAN /\ orch' \in Orchestrators
  <2> SUFFICES ASSUME Reload PROVE conf' \in [id : Ids, rev : Revs] /\ changed' \in BOOLEAN /\ orch' \in Orchestrators
      OBVIOUS
  <2>1. conf' \in [id : Ids, rev : Revs]
      BY <1>a DEF Reload
  <2>2. New(conf') \in Orchestrators
      BY <2>1, NewType
  <2> QED
      BY <2>1, <2>2 DEF Reload
<1>d. Finish => /\ journal' \in [on : BOOLEAN, file : Files, id : Ids]
                /\ file' \in Files /\ dirs' \in Ids /\ db' \in Ids
    BY <1>b, NoJournalType DEF Finish
<1>e. BreakOff => /\ journal' \in [on : BOOLEAN, file : Files, id : Ids]
                  /\ file' \in Files /\ dirs' \in Ids /\ db' \in Ids
    BY <1>b DEF BreakOff
<1>f. journal.on /\ ~Committed => journal.id + 1 \in Ids
    BY DEF Counted, Ids
<1>g. edits < MaxEdits => edits + 1 \in Revs
    BY DEF Revs
<1>h. begun < MaxMigrations => begun + 1 \in Ids
    BY DEF Ids
<1>1. CASE Scan
    BY <1>1, <1>c DEF Scan, Go
<1>2. CASE Woken
    BY <1>2 DEF Woken, Go, Stopping
<1>3. CASE Curl
    BY <1>3 DEF Curl, Dispatch, Go, Stopping
<1>4. CASE Gate
    BY <1>4 DEF Gate, Dispatch, Go
<1>5. CASE Schedule
    BY <1>5, <1>c, NewType DEF Schedule, Go
<1>6. CASE Occur
    BY ZenonT(30), <1>6 DEF Occur, Go, Stopping
<1>7. CASE Shutdown
    BY <1>7 DEF Shutdown, Orchestrators
<1>8. CASE Stopped \/ Kill \/ Crash
    BY <1>8, WorkersFacts DEF Stopped, Kill, Crash, Down, Trouble
<1>9. CASE Refuse
    BY <1>9 DEF Refuse, Mig
<1>10. CASE Write
    BY <1>10 DEF Write, Mig
<1>11. CASE Move
  <2>1. journal.id + 1 \in Ids
    BY <1>11, <1>f DEF Move, Mig, Doors, Steady
  <2> QED
    BY <1>11, <2>1 DEF Move, Mig
<1>12. CASE WriteConfig
    BY <1>12, <1>b, <1>f DEF WriteConfig, Mig, Steady, Files
<1>13. CASE Commit
    BY <1>13, <1>b, <1>f DEF Commit, Mig, Steady, Files
<1>14. CASE Settle
  <2>1. CASE mig = "finish"
    <3>1. Committed
      BY <2>1 DEF Steady
    <3>2. journal.id + 1 = db
      BY <2>1, <3>1 DEF Doors, Steady
    <3>3. conf' \in [id : Ids, rev : Revs]
      BY <1>14, <2>1, <3>2, <1>b DEF Settle, Mig, Files
    <3> QED
      BY <1>14, <1>d, <2>1, <3>3 DEF Settle, Mig
  <2> QED
    BY <1>14, <1>d, <2>1 DEF Settle, Mig
<1>15. CASE Open
    BY <1>15, <1>c DEF Open
<1>16. CASE Start
    BY ZenonT(30), <1>16, <1>d, NewType DEF Start, Loops, Files
<1>17. CASE StartFails
    BY <1>17, <1>d, <1>e DEF StartFails, Trouble
<1>18. CASE AskToStop \/ Pause
    BY <1>18 DEF AskToStop, Pause, Trouble
<1>19. CASE Save
    BY <1>19, <1>g DEF Save, Persist, Edit, Files
<1>20. CASE EditByHand
  <2>1. PICK ok \in {TRUE, mig # "none"} : file' = [file EXCEPT !.rev = edits + 1, !.ok = ok]
    BY <1>20 DEF EditByHand
  <2>2. file' \in Files
    BY <1>20, <1>g, <2>1 DEF EditByHand, Edit, Files
  <2> QED
    BY <1>20, <1>g, <2>2 DEF EditByHand, Edit
<1>21. CASE Begin
    BY <1>21, <1>h DEF Begin
<1>22. CASE Throw
  <2>1. mig = "move" \/ mig = "commit" => journal.id + 1 \in Ids
    BY <1>f DEF Doors, Steady
  <2> QED
    BY <1>22, <2>1 DEF Throw, Mig, Trouble
<1>23. CASE SettleFails
    BY <1>23, <1>e DEF SettleFails, Mig, Trouble
<1>24. CASE UNCHANGED vars
    BY <1>24 DEF vars
<1>25. ASSUME NEW w \in Workers, BackOff(w) \/ CycleEnds(w) \/ CycleFails(w) PROVE Types'
  <2>1. CASE BackOff(w)
    BY <2>1 DEF BackOff, Go
  <2>2. CASE CycleEnds(w)
    BY <2>2 DEF CycleEnds, Go
  <2>3. CASE CycleFails(w)
    BY <2>3 DEF CycleFails, Go, Trouble
  <2> QED
    BY <1>25, <2>1, <2>2, <2>3
<1> QED
    BY <1>1, <1>2, <1>3, <1>4, <1>5, <1>6, <1>7, <1>8, <1>9, <1>10, <1>11, <1>12, <1>13,
        <1>14, <1>15, <1>16, <1>17, <1>18, <1>19, <1>20, <1>21, <1>22, <1>23, <1>24,
        <1>25 DEF Next, Steps

\* Each step of a loop, an edit, a migration, a crash or a stop keeps the invariant.
LEMMA ServiceNext == IInv /\ [Next]_vars => IInv'
<1> SUFFICES ASSUME IInv, [Next]_vars PROVE IInv'
    OBVIOUS
<1>26. Types'
    BY TypesNext
<1> USE ServiceAssumption, WorkersFacts DEF IInv, Types, Doors, Steady, Counted, Memory,
    Committed, Ids, Revs, Files, Orchestrators, Moving, New, proc, loops, store, mem, count
<1>1. CASE Scan
  <2>1. Doors'
    BY <1>1 DEF Scan, Reload, Go, Stopping
  <2>2. Steady'
    BY <1>1 DEF Scan, Reload, Go, Stopping
  <2>3. Counted'
    BY <1>1 DEF Scan, Reload, Go, Stopping
  <2>4. Memory'
    BY <1>1 DEF Scan, Reload, Go, Stopping
  <2> QED
    BY <1>26, <2>1, <2>2, <2>3, <2>4
<1>2. CASE Woken
  <2>1. Doors'
    BY <1>2 DEF Woken, Go, Stopping
  <2>2. Steady'
    BY <1>2 DEF Woken, Go, Stopping
  <2>3. Counted'
    BY <1>2 DEF Woken, Go, Stopping
  <2>4. Memory'
    BY <1>2 DEF Woken, Go, Stopping
  <2> QED
    BY <1>26, <2>1, <2>2, <2>3, <2>4
<1>3. CASE Curl
  <2>1. Doors'
    BY <1>3 DEF Curl, Dispatch, Go, Stopping
  <2>2. Steady'
    BY <1>3 DEF Curl, Dispatch, Go, Stopping
  <2>3. Counted'
    BY <1>3 DEF Curl, Dispatch, Go, Stopping
  <2>4. Memory'
    BY <1>3 DEF Curl, Dispatch, Go, Stopping
  <2> QED
    BY <1>26, <2>1, <2>2, <2>3, <2>4
<1>4. CASE Gate
  <2>1. Doors'
    BY <1>4 DEF Gate, Dispatch, Go
  <2>2. Steady'
    BY <1>4 DEF Gate, Dispatch, Go
  <2>3. Counted'
    BY <1>4 DEF Gate, Dispatch, Go
  <2>4. Memory'
    BY <1>4 DEF Gate, Dispatch, Go
  <2> QED
    BY <1>26, <2>1, <2>2, <2>3, <2>4
<1>5. CASE Schedule
  <2>1. Doors'
    BY <1>5 DEF Schedule, Reload, Go, Stopping
  <2>2. Steady'
    BY <1>5 DEF Schedule, Reload, Go, Stopping
  <2>3. Counted'
    BY <1>5 DEF Schedule, Reload, Go, Stopping
  <2>4. Memory'
    BY <1>5 DEF Schedule, Reload, Go, Stopping
  <2> QED
    BY <1>26, <2>1, <2>2, <2>3, <2>4
<1>6. CASE Occur
  <2>1. Doors'
    BY <1>6 DEF Occur, Go, Stopping
  <2>2. Steady'
    BY <1>6 DEF Occur, Go, Stopping
  <2>3. Counted'
    BY <1>6 DEF Occur, Go, Stopping
  <2>4. Memory'
    BY <1>6 DEF Occur, Go, Stopping
  <2> QED
    BY <1>26, <2>1, <2>2, <2>3, <2>4
<1>7. CASE Shutdown
  <2>1. Doors'
    BY <1>7 DEF Shutdown
  <2>2. Steady'
    BY <1>7 DEF Shutdown
  <2>3. Counted'
    BY <1>7 DEF Shutdown
  <2>4. Memory'
    BY <1>7 DEF Shutdown
  <2> QED
    BY <1>26, <2>1, <2>2, <2>3, <2>4
<1>8. CASE Stopped \/ Kill \/ Crash
  <2>1. Doors'
    BY <1>8 DEF Stopped, Kill, Crash, Down, Trouble
  <2>2. Steady'
    BY <1>8 DEF Stopped, Kill, Crash, Down, Trouble
  <2>3. Counted'
    BY <1>8 DEF Stopped, Kill, Crash, Down, Trouble
  <2>4. Memory'
    BY <1>8 DEF Stopped, Kill, Crash, Down, Trouble
  <2> QED
    BY <1>26, <2>1, <2>2, <2>3, <2>4
<1>9. CASE Refuse
  <2>1. Doors'
    BY <1>9 DEF Refuse, Mig
  <2>2. Steady'
    BY <1>9 DEF Refuse, Mig
  <2>3. Counted'
    BY <1>9 DEF Refuse, Mig
  <2>4. Memory'
    BY <1>9 DEF Refuse, Mig
  <2> QED
    BY <1>26, <2>1, <2>2, <2>3, <2>4
<1>10. CASE Write
  <2>1. Doors'
    BY <1>10 DEF Write, Mig
  <2>2. Steady'
    BY <1>10 DEF Write, Mig
  <2>3. Counted'
    BY <1>10 DEF Write, Mig
  <2>4. Memory'
    BY <1>10 DEF Write, Mig
  <2> QED
    BY <1>26, <2>1, <2>2, <2>3, <2>4
<1>11. CASE Move
  <2>1. Doors'
    BY <1>11 DEF Move, Mig
  <2>2. Steady'
    BY <1>11 DEF Move, Mig
  <2>3. Counted'
    BY <1>11 DEF Move, Mig
  <2>4. Memory'
    BY <1>11 DEF Move, Mig
  <2> QED
    BY <1>26, <2>1, <2>2, <2>3, <2>4
<1>12. CASE WriteConfig
  <2>1. Doors'
    BY <1>12 DEF WriteConfig, Mig
  <2>2. Steady'
    BY <1>12 DEF WriteConfig, Mig
  <2>3. Counted'
    BY <1>12 DEF WriteConfig, Mig
  <2>4. Memory'
    BY <1>12 DEF WriteConfig, Mig
  <2> QED
    BY <1>26, <2>1, <2>2, <2>3, <2>4
<1>13. CASE Commit
  <2>1. Doors'
    BY <1>13 DEF Commit, Mig
  <2>2. Steady'
    BY <1>13 DEF Commit, Mig
  <2>3. Counted'
    BY <1>13 DEF Commit, Mig
  <2>4. Memory'
    BY <1>13 DEF Commit, Mig
  <2> QED
    BY <1>26, <2>1, <2>2, <2>3, <2>4
<1>14. CASE Settle
  <2>1. Doors'
    BY <1>14 DEF Settle, Finish, Mig, NoJournal
  <2>2. Steady'
    BY <1>14 DEF Settle, Finish, Mig, NoJournal
  <2>3. Counted'
    BY <1>14 DEF Settle, Finish, Mig, NoJournal
  <2>4. Memory'
    BY <1>14 DEF Settle, Finish, Mig, NoJournal
  <2> QED
    BY <1>26, <2>1, <2>2, <2>3, <2>4
<1>15. CASE Open
  <2>1. Doors'
    BY <1>15 DEF Open, Reload
  <2>2. Steady'
    BY <1>15 DEF Open, Reload
  <2>3. Counted'
    BY <1>15 DEF Open, Reload
  <2>4. Memory'
    BY <1>15 DEF Open, Reload
  <2> QED
    BY <1>26, <2>1, <2>2, <2>3, <2>4
<1>16. CASE Start
  <2>1. Doors'
    BY <1>16 DEF Start, Finish, NoJournal
  <2>2. Steady'
    BY <1>16 DEF Start, Finish, NoJournal
  <2>3. Counted'
    BY <1>16 DEF Start, Finish, NoJournal
  <2>4. Memory'
    <3>1. /\ up' = "up" /\ mig' = mig /\ at' = [w \in Workers |-> IF w \in Loops THEN "top" ELSE "over"]
          /\ conf' = [id |-> file'.id, rev |-> file'.rev] /\ orch' = New(conf')
      BY <1>16 DEF Start
    <3>2. mig' = "none" /\ (\A w \in Workers : at'[w] # "cycle") /\ at'["occurrence"] = "over"
      BY <1>16, <3>1 DEF Start, Loops
    <3>3. ~journal'.on
      BY <1>16 DEF Start, Finish, NoJournal
    <3>4. conf'.id = db' /\ orch'.id = db'
      BY <2>2, <3>1, <3>3
    <3> QED
      BY <3>2, <3>4
  <2> QED
    BY <1>26, <2>1, <2>2, <2>3, <2>4
<1>17. CASE StartFails
  <2>1. Doors'
    BY <1>17 DEF StartFails, Finish, BreakOff, NoJournal, Trouble
  <2>2. Steady'
    BY <1>17 DEF StartFails, Finish, BreakOff, NoJournal, Trouble
  <2>3. Counted'
    BY <1>17 DEF StartFails, Finish, BreakOff, NoJournal, Trouble
  <2>4. Memory'
    BY <1>17 DEF StartFails, Finish, BreakOff, NoJournal, Trouble
  <2> QED
    BY <1>26, <2>1, <2>2, <2>3, <2>4
<1>18. CASE AskToStop \/ Pause
  <2>1. Doors'
    BY <1>18 DEF AskToStop, Pause, Trouble
  <2>2. Steady'
    BY <1>18 DEF AskToStop, Pause, Trouble
  <2>3. Counted'
    BY <1>18 DEF AskToStop, Pause, Trouble
  <2>4. Memory'
    BY <1>18 DEF AskToStop, Pause, Trouble
  <2> QED
    BY <1>26, <2>1, <2>2, <2>3, <2>4
<1>19. CASE Save
  <2>1. Doors'
    BY <1>19 DEF Save, Persist, Edit
  <2>2. Steady'
    BY <1>19 DEF Save, Persist, Edit
  <2>3. Counted'
    BY <1>19 DEF Save, Persist, Edit
  <2>4. Memory'
    BY <1>19 DEF Save, Persist, Edit
  <2> QED
    BY <1>26, <2>1, <2>2, <2>3, <2>4
<1>20. CASE EditByHand
  <2>1. Doors'
    BY <1>20 DEF EditByHand, Edit
  <2>2. Steady'
    BY <1>20 DEF EditByHand, Edit
  <2>3. Counted'
    BY <1>20 DEF EditByHand, Edit
  <2>4. Memory'
    BY <1>20 DEF EditByHand, Edit
  <2> QED
    BY <1>26, <2>1, <2>2, <2>3, <2>4
<1>21. CASE Begin
  <2>1. Doors'
    BY <1>21 DEF Begin, Idle, Quiet
  <2>2. Steady'
    BY <1>21 DEF Begin, Idle, Quiet
  <2>3. Counted'
    BY <1>21 DEF Begin, Idle, Quiet
  <2>4. Memory'
    BY <1>21 DEF Begin, Idle, Quiet
  <2> QED
    BY <1>26, <2>1, <2>2, <2>3, <2>4
<1>22. CASE Throw
  <2>1. Doors'
    BY <1>22 DEF Throw, Mig, Trouble
  <2>2. Steady'
    BY <1>22 DEF Throw, Mig, Trouble
  <2>3. Counted'
    BY <1>22 DEF Throw, Mig, Trouble
  <2>4. Memory'
    BY <1>22 DEF Throw, Mig, Trouble
  <2> QED
    BY <1>26, <2>1, <2>2, <2>3, <2>4
<1>23. CASE SettleFails
  <2>1. Doors'
    BY <1>23 DEF SettleFails, BreakOff, Mig, Trouble
  <2>2. Steady'
    BY <1>23 DEF SettleFails, BreakOff, Mig, Trouble
  <2>3. Counted'
    BY <1>23 DEF SettleFails, BreakOff, Mig, Trouble
  <2>4. Memory'
    BY <1>23 DEF SettleFails, BreakOff, Mig, Trouble
  <2> QED
    BY <1>26, <2>1, <2>2, <2>3, <2>4
<1>24. CASE UNCHANGED vars
  <2>1. Doors'
    BY <1>24 DEF vars
  <2>2. Steady'
    BY <1>24 DEF vars
  <2>3. Counted'
    BY <1>24 DEF vars
  <2>4. Memory'
    BY <1>24 DEF vars
  <2> QED
    BY <1>26, <2>1, <2>2, <2>3, <2>4
<1>25. ASSUME NEW w \in Workers, BackOff(w) \/ CycleEnds(w) \/ CycleFails(w) PROVE IInv'
    BY <1>26, <1>25 DEF BackOff, CycleEnds, CycleFails, Go, Stopping, Trouble
<1> QED
    BY <1>1, <1>2, <1>3, <1>4, <1>5, <1>6, <1>7, <1>8, <1>9, <1>10, <1>11, <1>12, <1>13,
        <1>14, <1>15, <1>16, <1>17, <1>18, <1>19, <1>20, <1>21, <1>22, <1>23, <1>24,
        <1>25 DEF Next, Steps

\* No cycle of the service works on a repository that is being moved, with directories
\* or rows of another identity; and what was moved agrees again, whatever crashed,
\* failed or was edited (runtime.py, config_manager.py, repository_migration.py).
THEOREM ServiceAgrees == Spec => []ServiceInv
<1>1. IInv /\ [Next]_vars => IInv'
    BY ServiceNext
<1> QED
    BY InitIInv, <1>1, IInvServiceInv, PTL DEF Spec

-----------------------------------------------------------------------------
(* Dedup, which the dispatch loop of the service runs.  It is a system of  *)
(* its own: the steps and the helpers of Dedup are written U!name, what is *)
(* said of its state (DedupState) has its own name.                        *)

U == INSTANCE Dedup

-----------------------------------------------------------------------------
(* The groups that _deduplicated_matches finds.                            *)

\* A set of numbers has a smallest one.
LEMMA Smallest ==
    ASSUME NEW T, T \subseteq Nat, T # {}
    PROVE  \E x \in T : \A y \in T : x <= y
<1>1. PICK x \in T : \A y \in T : <<y, x>> \notin OpToRel(<, Nat)
    BY WFMin, NatLessThanWellFounded, Zenon
<1>2. \A y \in T : ~(y < x)
    BY <1>1 DEF OpToRel
<1> QED
    BY <1>2, SMT

\* A property of 0 that goes on from each number up to n holds up to n.
LEMMA UpTo ==
    ASSUME NEW n \in Nat, NEW C, 0 \in C, \A k \in 1 .. n : k - 1 \in C => k \in C
    PROVE  \A k \in 0 .. n : k \in C
<1> DEFINE T == {k \in 0 .. n : k \notin C}
<1>1. ASSUME T # {} PROVE FALSE
    <2>1. T \subseteq Nat
        OBVIOUS
    <2>2. PICK k \in T : \A y \in T : k <= y
        BY <1>1, <2>1, Smallest, Zenon
    <2>3. k \in 1 .. n /\ k - 1 \in 0 .. n /\ ~(k <= k - 1)
        OBVIOUS
    <2>4. k - 1 \notin T
        BY <2>2, <2>3
    <2> QED
        BY <2>3, <2>4
<1> QED
    BY <1>1

\* SetToSeq lists what is in a finite set.
LEMMA ListIs ==
    ASSUME NEW K, IsFiniteSet(K)
    PROVE  LET s == U!SetToSeq(K)
           IN  /\ Len(s) \in Nat
               /\ \A i \in 1 .. Len(s) : s[i] \in K
               /\ \A x \in K : \E i \in 1 .. Len(s) : s[i] = x
<1> DEFINE n == Cardinality(K)
           s == U!SetToSeq(K)
<1>1. n \in Nat /\ ExistsBijection(1 .. n, K)
    BY FS_CardinalityType
<1>2. PICK b \in [1 .. n -> K] : IsInjective(b)
    BY <1>1 DEF ExistsBijection, Bijection, Injection
<1>3. s \in [1 .. n -> K] /\ IsInjective(s)
    <2>1. U!Cardinality(K) = n
        BY DEF U!Cardinality, Cardinality
    <2> QED
        BY <1>2, <2>1 DEF U!SetToSeq, U!IsInjective, IsInjective
<1> HIDE DEF s
<1>4. s \in Injection(1 .. n, K)
    BY <1>3 DEF Injection
<1>5. IsFiniteSet(1 .. n) /\ Cardinality(1 .. n) = n
    BY <1>1, FS_Interval
<1>6. s \in Surjection(1 .. n, K)
    BY <1>4, <1>5, FS_Injection
<1>7. \A x \in K : \E i \in 1 .. n : s[i] = x
    BY <1>6 DEF Surjection
<1>8. Len(s) = n
    BY <1>1, <1>3
<1> QED
    BY <1>1, <1>3, <1>7, <1>8 DEF s

\* A forest over S: who is the root of each, and how far a way leads to it.
Rooted(S, parent, root, depth) ==
    /\ parent \in [S -> S] /\ root \in [S -> S] /\ depth \in [S -> Nat]
    /\ \A j \in S :
        /\ parent[root[j]] = root[j]
        /\ parent[j] = j => root[j] = j
        /\ parent[j] # j => root[j] = root[parent[j]] /\ depth[parent[j]] < depth[j]

\* The recursion finds it.
LEMMA RootIs ==
    ASSUME NEW S, NEW parent, NEW root, NEW depth, Rooted(S, parent, root, depth), NEW i \in S
    PROVE  U!Root(parent, i) = root[i]
<1> DEFINE Finds(f) == f = [j \in S |-> IF parent[j] = j THEN j ELSE f[parent[j]]]
           find == CHOOSE f : Finds(f)
           Wrong == {j \in S : find[j] # root[j]}
           T == {depth[j] : j \in Wrong}
<1>1. DOMAIN parent = S
    BY DEF Rooted
<1>2. Finds(root)
    BY DEF Rooted
<1>3. Finds(find)
    BY <1>2
<1>4. U!Root(parent, i) = find[i]
    BY <1>1 DEF U!Root
<1> HIDE DEF find
<1>5. ASSUME Wrong # {} PROVE FALSE
    <2>1. T \subseteq Nat /\ T # {}
        BY <1>5 DEF Rooted
    <2>2. PICK d \in T : \A y \in T : d <= y
        BY <2>1, Smallest, Zenon
    <2>3. PICK j \in Wrong : d = depth[j]
        BY <2>2
    <2>4. find[j] = IF parent[j] = j THEN j ELSE find[parent[j]]
        BY <1>3, <2>3
    <2>5. parent[j] # j /\ parent[j] \in S
        BY <2>3, <2>4 DEF Rooted
    <2>6. find[parent[j]] # root[parent[j]]
        BY <2>3, <2>4, <2>5 DEF Rooted
    <2>7. depth[parent[j]] \in T
        BY <2>5, <2>6
    <2>8. d <= depth[parent[j]] /\ depth[parent[j]] < d /\ d \in Nat /\ depth[parent[j]] \in Nat
        BY <2>2, <2>3, <2>5, <2>7 DEF Rooted
    <2> QED
        BY <2>8
<1> QED
    BY <1>4, <1>5

\* A union gives the root of the left tree to all of the right one.
LEMMA UnionIs ==
    ASSUME NEW S, NEW parent, NEW root, NEW depth, Rooted(S, parent, root, depth),
           NEW l \in S, NEW r \in S, NEW joined,
           joined = [j \in S |-> IF root[j] = root[r] THEN root[l] ELSE root[j]]
    PROVE  \E deep : Rooted(S, U!Union(parent, l, r), joined, deep)
<1> DEFINE a == root[l]
           b == root[r]
           deep == [j \in S |-> IF root[j] = b /\ a # b THEN depth[j] + depth[a] + 1 ELSE depth[j]]
           p == [parent EXCEPT ![b] = a]
<1>1. U!Union(parent, l, r) = p
    BY RootIs DEF U!Union
<1>2. /\ a \in S /\ b \in S /\ parent[a] = a /\ parent[b] = b /\ root[a] = a /\ root[b] = b
      /\ parent \in [S -> S] /\ root \in [S -> S] /\ depth \in [S -> Nat]
    BY DEF Rooted
<1>3. p \in [S -> S] /\ \A j \in S : p[j] = IF j = b THEN a ELSE parent[j]
    BY <1>2
<1>4. joined \in [S -> S] /\ deep \in [S -> Nat]
    BY <1>2
<1>5. ASSUME NEW j \in S
      PROVE  /\ p[joined[j]] = joined[j]
             /\ p[j] = j => joined[j] = j
             /\ p[j] # j => joined[j] = joined[p[j]] /\ deep[p[j]] < deep[j]
    <2>1. /\ parent[root[j]] = root[j] /\ root[j] \in S /\ parent[j] \in S
          /\ parent[j] = j => root[j] = j
          /\ parent[j] # j => root[j] = root[parent[j]] /\ depth[parent[j]] < depth[j]
          /\ {depth[j], depth[parent[j]], depth[a], depth[b]} \subseteq Nat
        BY <1>2 DEF Rooted
    <2>2. joined[j] = (IF root[j] = b THEN a ELSE root[j]) /\ joined[a] = a
          /\ joined[parent[j]] = (IF root[parent[j]] = b THEN a ELSE root[parent[j]])
        BY <1>2, <2>1
    <2>3. deep[j] = (IF root[j] = b /\ a # b THEN depth[j] + depth[a] + 1 ELSE depth[j])
          /\ deep[parent[j]] = (IF root[parent[j]] = b /\ a # b THEN depth[parent[j]] + depth[a] + 1
                                ELSE depth[parent[j]])
          /\ deep[a] = depth[a]
        BY <1>2, <2>1
    <2>4. p[j] = (IF j = b THEN a ELSE parent[j]) /\ p[a] = a
        BY <1>2, <1>3
    <2> HIDE DEF a, b, deep, p
    <2>5. p[joined[j]] = joined[j]
        BY <1>2, <1>3, <2>1, <2>2, <2>4
    <2>6. p[j] = j => joined[j] = j
        BY <1>2, <2>1, <2>2, <2>4
    <2>7. p[j] # j => joined[j] = joined[p[j]]
        BY <1>2, <2>1, <2>2, <2>4
    <2>8. p[j] # j => deep[p[j]] < deep[j]
        BY <1>2, <2>1, <2>3, <2>4
    <2> QED
        BY <2>5, <2>6, <2>7, <2>8
<1> HIDE DEF p, deep
<1>6. Rooted(S, p, joined, deep)
    BY <1>3, <1>4, <1>5 DEF Rooted
<1> QED
    BY <1>1, <1>6

\* The keys that the steps see are those of the groups.
LEMMA SameKeys ==
    ASSUME NEW r, NEW e
    PROVE  U!Keys(r, e) = Keys(r, e)
BY DEF U!Keys, Keys, U!SwitchesOf, SwitchesOf

\* A mark is an event with a key.
LEMMA MarkIs ==
    ASSUME NEW r, NEW S
    PROVE  /\ \A x \in U!Marks(r, S) : x[1] \in S /\ x[2] \in Keys(r, x[1])
           /\ \A e \in S : \A k \in Keys(r, e) : <<e, k>> \in U!Marks(r, S)
<1>1. U!Marks(r, S) = UNION {{e} \X Keys(r, e) : e \in S}
    BY SameKeys DEF U!Marks
<1>2. ASSUME NEW e \in S, NEW k \in Keys(r, e)
      PROVE  <<e, k>> \in UNION {{d} \X Keys(r, d) : d \in S}
    <2>1. <<e, k>> \in {e} \X Keys(r, e)
        BY <1>2
    <2> QED
        BY <2>1
<1>3. ASSUME NEW x \in UNION {{d} \X Keys(r, d) : d \in S}
      PROVE  x[1] \in S /\ x[2] \in Keys(r, x[1])
    <2>1. PICK d \in S : x \in {d} \X Keys(r, d)
        BY <1>3
    <2> QED
        BY <2>1
<1> QED
    BY <1>1, <1>2, <1>3

\* The sets of events that are closed under sharing a key.
Closed(r, S) == {X \in SUBSET S : \A g \in X, h \in S : Share(r, g, h) => h \in X}

\* After n marks: a key belongs to one that has it, the roots of all that were marked
\* with it are one, and no closed set holds an event without its root.
Grown(r, S, s, n, u) ==
    \E root, depth :
        /\ Rooted(S, u.parent, root, depth)
        /\ \A k \in DOMAIN u.owner : u.owner[k] \in S /\ k \in Keys(r, u.owner[k])
        /\ \A i \in 1 .. n : /\ s[i][2] \in DOMAIN u.owner
                             /\ root[u.owner[s[i][2]]] = root[s[i][1]]
        /\ \A X \in Closed(r, S) : \A j \in S : j \in X <=> root[j] \in X

\* The next mark adds its event to the group of its key.
LEMMA JoinOk ==
    ASSUME NEW r, NEW S, NEW s, NEW n \in Nat \ {0}, NEW u,
           \A e, f \in S : of[e].batch = of[f].batch,
           \A i \in 1 .. n : s[i][1] \in S /\ s[i][2] \in Keys(r, s[i][1]),
           Grown(r, S, s, n - 1, u)
    PROVE  Grown(r, S, s, n, U!Join(u, s[n][1], s[n][2]))
<1> DEFINE e == s[n][1]
           k == s[n][2]
           v == U!Join(u, e, k)
<1>1. n \in 1 .. n /\ e \in S /\ k \in Keys(r, e) /\ 1 .. n = (1 .. (n - 1)) \cup {n}
    <2>1. n \in 1 .. n /\ 1 .. n = (1 .. (n - 1)) \cup {n}
        OBVIOUS
    <2> QED
        BY <2>1
<1>2. PICK root, depth :
        /\ Rooted(S, u.parent, root, depth)
        /\ \A x \in DOMAIN u.owner : u.owner[x] \in S /\ x \in Keys(r, u.owner[x])
        /\ \A i \in 1 .. (n - 1) : /\ s[i][2] \in DOMAIN u.owner
                                   /\ root[u.owner[s[i][2]]] = root[s[i][1]]
        /\ \A X \in Closed(r, S) : \A j \in S : j \in X <=> root[j] \in X
    BY DEF Grown
<1>3. CASE k \in DOMAIN u.owner
    <2> DEFINE o == u.owner[k]
               joined == [j \in S |-> IF root[j] = root[o] THEN root[e] ELSE root[j]]
    <2>1. v.parent = U!Union(u.parent, e, o) /\ v.owner = u.owner
        BY <1>3 DEF U!Join
    <2>2. o \in S /\ k \in Keys(r, o)
        BY <1>2, <1>3
    <2>3. PICK deep : Rooted(S, v.parent, joined, deep)
        <3>1. e \in S /\ o \in S /\ Rooted(S, u.parent, root, depth)
              /\ joined = [j \in S |-> IF root[j] = root[o] THEN root[e] ELSE root[j]]
            BY <1>1, <1>2, <2>2
        <3> HIDE DEF e, o, v, joined
        <3>2. \E deep : Rooted(S, U!Union(u.parent, e, o), joined, deep)
            BY <3>1, UnionIs
        <3> QED
            BY <2>1, <3>2
    <2>4. \A j \in S : joined[j] = IF root[j] = root[o] THEN root[e] ELSE root[j]
        OBVIOUS
    <2>5. ASSUME NEW i \in 1 .. n
          PROVE  s[i][2] \in DOMAIN v.owner /\ joined[v.owner[s[i][2]]] = joined[s[i][1]]
        <3>1. CASE i = n
            BY <1>1, <1>3, <2>1, <2>2, <2>4, <3>1
        <3>2. CASE i \in 1 .. (n - 1)
            BY <1>2, <2>1, <2>4, <3>2
        <3> QED
            BY <1>1, <3>1, <3>2
    <2>6. ASSUME NEW X \in Closed(r, S), NEW j \in S
          PROVE  j \in X <=> joined[j] \in X
        <3>1. Share(r, e, o) /\ Share(r, o, e)
            BY <1>1, <2>2 DEF Share
        <3>2. e \in X <=> o \in X
            BY <1>1, <2>2, <3>1 DEF Closed
        <3> QED
            BY <1>1, <1>2, <2>2, <2>4, <3>2
    <2>7. \A x \in DOMAIN v.owner : v.owner[x] \in S /\ x \in Keys(r, v.owner[x])
        BY <1>2, <2>1
    <2> HIDE DEF joined, v
    <2> QED
        BY <2>3, <2>5, <2>6, <2>7 DEF Grown, v
<1>4. CASE k \notin DOMAIN u.owner
    <2>1. v.parent = u.parent
          /\ v.owner = [x \in DOMAIN u.owner \cup {k} |-> IF x = k THEN e ELSE u.owner[x]]
        BY <1>4 DEF U!Join
    <2> HIDE DEF v
    <2>2. DOMAIN v.owner = DOMAIN u.owner \cup {k} /\ v.owner[k] = e
          /\ \A x \in DOMAIN u.owner : v.owner[x] = u.owner[x]
        BY <1>4, <2>1
    <2>3. \A x \in DOMAIN v.owner : v.owner[x] \in S /\ x \in Keys(r, v.owner[x])
        BY <1>1, <1>2, <2>2
    <2>4. ASSUME NEW i \in 1 .. n
          PROVE  s[i][2] \in DOMAIN v.owner /\ root[v.owner[s[i][2]]] = root[s[i][1]]
        <3>1. CASE i = n
            BY <2>2, <3>1
        <3>2. CASE i \in 1 .. (n - 1)
            BY <1>2, <2>2, <3>2
        <3> QED
            BY <1>1, <3>1, <3>2
    <2>5. Rooted(S, v.parent, root, depth)
        BY <1>2, <2>1
    <2> QED
        BY <1>2, <2>3, <2>4, <2>5 DEF Grown, v
<1> QED
    BY <1>3, <1>4

\* The marks of finitely many events are finitely many.
LEMMA MarksFinite ==
    ASSUME NEW r, NEW S, IsFiniteSet(S)
    PROVE  IsFiniteSet(U!Marks(r, S))
<1> DEFINE one == {<<e, <<"change_request", of[e].mr>>>> : e \in S}
           two == {<<e, <<"branch", of[e].branch>>>> : e \in S}
<1>1. IsFiniteSet(one)
    <2> DEFINE f == [e \in S |-> <<e, <<"change_request", of[e].mr>>>>]
    <2>1. f \in Surjection(S, one)
        BY DEF Surjection
    <2> HIDE DEF f, one
    <2> QED
        BY <2>1, FS_Surjection
<1>2. IsFiniteSet(two)
    <2> DEFINE f == [e \in S |-> <<e, <<"branch", of[e].branch>>>>]
    <2>1. f \in Surjection(S, two)
        BY DEF Surjection
    <2> HIDE DEF f, two
    <2> QED
        BY <2>1, FS_Surjection
<1>3. U!Marks(r, S) \subseteq one \cup two
    <2>1. U!Marks(r, S) = UNION {{e} \X Keys(r, e) : e \in S}
        BY SameKeys DEF U!Marks
    <2>2. ASSUME NEW e \in S, NEW x \in {e} \X Keys(r, e)
          PROVE  x \in one \cup two
        <3>1. x = <<e, x[2]>> /\ x[2] \in Keys(r, e)
            BY <2>2
        <3>2. x[2] = <<"change_request", of[e].mr>> \/ x[2] = <<"branch", of[e].branch>>
            BY <3>1 DEF Keys
        <3> QED
            BY <3>1, <3>2
    <2> HIDE DEF one, two
    <2> QED
        BY <2>1, <2>2
<1> HIDE DEF one, two
<1>4. IsFiniteSet(one \cup two)
    BY <1>1, <1>2, FS_Union
<1> QED
    BY <1>3, <1>4, FS_Subset

\* The forest after each of N marks.
Joins(s, N, first, f) ==
    f = [n \in 0 .. N |-> IF n = 0 THEN first ELSE U!Join(f[n - 1], s[n][1], s[n][2])]

\* There is one.
LEMMA JoinsExist ==
    ASSUME NEW s, NEW N \in Nat, NEW first
    PROVE  \E f : Joins(s, N, first, f)
<1> DEFINE Goes(f, m) == \A n \in 1 .. m : f[n] = U!Join(f[n - 1], s[n][1], s[n][2])
           C == {m \in 0 .. N : \E f : f[0] = first /\ Goes(f, m)}
<1>1. 0 \in C
    <2>1. [n \in {0} |-> first][0] = first /\ 1 .. 0 = {} /\ 0 \in 0 .. N
        OBVIOUS
    <2> QED
        BY <2>1
<1>2. ASSUME NEW m \in 1 .. N, m - 1 \in C
      PROVE  m \in C
    <2>1. PICK f : f[0] = first /\ Goes(f, m - 1)
        BY <1>2
    <2> DEFINE g == [n \in 0 .. m |-> IF n = m THEN U!Join(f[m - 1], s[m][1], s[m][2]) ELSE f[n]]
    <2>2. m \in Nat \ {0} /\ m \in 0 .. N
        BY <1>2
    <2>3. g[0] = first
        BY <2>1, <2>2
    <2>4. ASSUME NEW n \in 1 .. m
          PROVE  g[n] = U!Join(g[n - 1], s[n][1], s[n][2])
        <3>1. n \in Nat /\ n - 1 \in 0 .. m /\ n - 1 # m /\ n \in 0 .. m
            BY <2>2
        <3>2. g[n - 1] = f[n - 1]
            BY <3>1
        <3>3. CASE n = m
            BY <3>1, <3>2, <3>3
        <3>4. CASE n # m
            <4>1. n \in 1 .. (m - 1)
                BY <2>2, <3>1, <3>4
            <4>2. f[n] = U!Join(f[n - 1], s[n][1], s[n][2])
                BY <2>1, <4>1
            <4>3. g[n] = f[n]
                BY <3>1, <3>4
            <4> QED
                BY <3>2, <4>2, <4>3
        <3> QED
            BY <3>3, <3>4
    <2> HIDE DEF g
    <2>5. Goes(g, m)
        BY <2>4
    <2> HIDE DEF Goes
    <2> QED
        BY <2>2, <2>3, <2>5
<1>3. \A m \in 0 .. N : m \in C
    <2> HIDE DEF C
    <2> QED
        BY <1>1, <1>2, UpTo
<1>4. PICK f : f[0] = first /\ Goes(f, N)
    BY <1>3
<1> DEFINE g == [n \in 0 .. N |-> f[n]]
<1>5. ASSUME NEW n \in 0 .. N
      PROVE  g[n] = IF n = 0 THEN first ELSE U!Join(g[n - 1], s[n][1], s[n][2])
    <2>1. CASE n = 0
        BY <1>4, <2>1
    <2>2. CASE n # 0
        <3>1. n \in 1 .. N /\ n - 1 \in 0 .. N
            BY <2>2
        <3>2. f[n] = U!Join(f[n - 1], s[n][1], s[n][2])
            BY <1>4, <3>1
        <3>3. g[n] = f[n] /\ g[n - 1] = f[n - 1]
            BY <3>1
        <3> QED
            BY <2>2, <3>2, <3>3
    <2> QED
        BY <2>1, <2>2
<1>6. g = [n \in 0 .. N |-> g[n]]
    OBVIOUS
<1> HIDE DEF g
<1>7. g = [n \in 0 .. N |-> IF n = 0 THEN first ELSE U!Join(g[n - 1], s[n][1], s[n][2])]
    BY <1>5, <1>6
<1> QED
    BY <1>7 DEF Joins

\* When all are marked, everybody finds the root of the group.
LEMMA ForestIs ==
    ASSUME NEW r, NEW S, IsFiniteSet(S), \A e, f \in S : of[e].batch = of[f].batch
    PROVE  \E root, depth :
              /\ Rooted(S, U!Forest(r, S), root, depth)
              /\ \A g, h \in S : Share(r, g, h) => root[g] = root[h]
              /\ \A X \in Closed(r, S) : \A j \in S : j \in X <=> root[j] \in X
<1> DEFINE s == U!SetToSeq(U!Marks(r, S))
           N == Len(s)
           first == [parent |-> [e \in S |-> e], owner |-> <<>>]
           joined == CHOOSE f : Joins(s, N, first, f)
<1>1. /\ N \in Nat
      /\ \A i \in 1 .. N : s[i] \in U!Marks(r, S)
      /\ \A x \in U!Marks(r, S) : \E i \in 1 .. N : s[i] = x
    BY MarksFinite, ListIs
<1>2. \A i \in 1 .. N : s[i][1] \in S /\ s[i][2] \in Keys(r, s[i][1])
    BY <1>1, MarkIs
<1>3. U!Forest(r, S) = joined[N].parent
    BY DEF U!Forest, Joins
<1> HIDE DEF s
<1>4. Joins(s, N, first, joined)
    BY <1>1, JoinsExist
<1>5. joined = [n \in 0 .. N |-> IF n = 0 THEN first
                                ELSE U!Join(joined[n - 1], s[n][1], s[n][2])]
    BY <1>4 DEF Joins
<1> HIDE DEF joined
<1>6. Grown(r, S, s, 0, first)
    <2> DEFINE root == [e \in S |-> e]
               depth == [e \in S |-> 0]
    <2>1. first.parent = root /\ DOMAIN first.owner = {}
        OBVIOUS
    <2>2. Rooted(S, root, root, depth)
        BY DEF Rooted
    <2>3. \A X \in Closed(r, S) : \A j \in S : j \in X <=> root[j] \in X
        OBVIOUS
    <2> HIDE DEF root, depth, first
    <2>4. 1 .. 0 = {}
        OBVIOUS
    <2> QED
        BY <2>1, <2>2, <2>3, <2>4 DEF Grown
<1> HIDE DEF first
<1>7. Grown(r, S, s, N, joined[N])
    <2> DEFINE C == {n \in 0 .. N : Grown(r, S, s, n, joined[n])}
    <2>1. 0 \in C
        BY <1>1, <1>5, <1>6
    <2>2. ASSUME NEW n \in 1 .. N, n - 1 \in C
          PROVE  n \in C
        <3>1. joined[n] = U!Join(joined[n - 1], s[n][1], s[n][2])
            <4>1. n \in 0 .. N /\ n # 0
                BY <1>1
            <4> QED
                BY <4>1, <1>5
        <3>2. Grown(r, S, s, n - 1, joined[n - 1]) /\ n \in Nat \ {0} /\ n \in 0 .. N
            BY <1>1, <2>2
        <3>3. \A i \in 1 .. n : i \in 1 .. N
            BY <1>1
        <3>4. Grown(r, S, s, n, joined[n])
            BY <1>2, <3>1, <3>2, <3>3, JoinOk
        <3> QED
            BY <3>2, <3>4
    <2> HIDE DEF C
    <2>3. \A n \in 0 .. N : n \in C
        <3> HIDE DEF N
        <3> QED
            BY <1>1, <2>1, <2>2, UpTo
    <2> QED
        BY <1>1, <2>3 DEF C
<1>8. PICK root, depth :
        /\ Rooted(S, joined[N].parent, root, depth)
        /\ \A i \in 1 .. N : /\ s[i][2] \in DOMAIN joined[N].owner
                             /\ root[joined[N].owner[s[i][2]]] = root[s[i][1]]
        /\ \A X \in Closed(r, S) : \A j \in S : j \in X <=> root[j] \in X
    BY <1>7 DEF Grown
<1>9. ASSUME NEW g \in S, NEW h \in S, Share(r, g, h)
      PROVE  root[g] = root[h]
    <2>1. PICK k : k \in Keys(r, g) /\ k \in Keys(r, h)
        BY <1>9 DEF Share
    <2>2. <<g, k>> \in U!Marks(r, S) /\ <<h, k>> \in U!Marks(r, S)
        BY <2>1, MarkIs
    <2>3. PICK i \in 1 .. N, j \in 1 .. N : s[i] = <<g, k>> /\ s[j] = <<h, k>>
        BY <1>1, <2>2
    <2> QED
        BY <1>8, <2>3
<1> QED
    BY <1>3, <1>8, <1>9

\* _deduplicated_matches finds the groups: of the events of a batch, two have the same
\* root in the forest exactly when a chain of shared keys links them, whatever the order
\* in which the keys are taken.
THEOREM GroupsFound ==
    ASSUME NEW r, NEW S, IsFiniteSet(S), \A e, f \in S : of[e].batch = of[f].batch,
           NEW e \in S, NEW f \in S
    PROVE  U!Root(U!Forest(r, S), e) = U!Root(U!Forest(r, S), f) <=> Together(r, S, e, f)
<1>1. PICK root, depth :
        /\ Rooted(S, U!Forest(r, S), root, depth)
        /\ \A g, h \in S : Share(r, g, h) => root[g] = root[h]
        /\ \A X \in Closed(r, S) : \A j \in S : j \in X <=> root[j] \in X
    BY ForestIs
<1>2. U!Root(U!Forest(r, S), e) = root[e] /\ U!Root(U!Forest(r, S), f) = root[f]
    BY <1>1, RootIs
<1>3. ASSUME root[e] = root[f], NEW X \in SUBSET S, e \in X,
             \A g \in X, h \in S : Share(r, g, h) => h \in X
      PROVE  f \in X
    BY <1>1, <1>3 DEF Closed
<1>4. ASSUME Together(r, S, e, f)
      PROVE  root[e] = root[f]
    <2> DEFINE X == {j \in S : root[j] = root[e]}
    <2>1. X \in SUBSET S /\ e \in X /\ \A g \in X, h \in S : Share(r, g, h) => h \in X
        BY <1>1
    <2> HIDE DEF X
    <2>2. f \in X
        BY <1>4, <2>1 DEF Together
    <2> QED
        BY <2>2 DEF X
<1> QED
    BY <1>2, <1>3, <1>4 DEF Together

-----------------------------------------------------------------------------
(* What a rule selects.                                                    *)

\* What is together in some events is together in more.
LEMMA TogetherMore ==
    ASSUME NEW r, NEW S, NEW T, S \subseteq T, NEW e \in S, NEW f, Together(r, S, e, f)
    PROVE  Together(r, T, e, f)
<1> SUFFICES ASSUME NEW X \in SUBSET T, e \in X,
                    \A g \in X, h \in T : Share(r, g, h) => h \in X
             PROVE  f \in X
    BY DEF Together
<1>1. X \cap S \in SUBSET S /\ e \in X \cap S
      /\ \A g \in X \cap S, h \in S : Share(r, g, h) => h \in X \cap S
    OBVIOUS
<1>2. f \in X \cap S
    BY <1>1 DEF Together
<1> QED
    BY <1>2

\* It is of one batch, and together in that batch.
LEMMA TogetherInBatch ==
    ASSUME NEW r, NEW S, NEW e \in S, NEW f, Together(r, S, e, f)
    PROVE  /\ f \in S /\ of[f].batch = of[e].batch
           /\ Together(r, {g \in S : of[g].batch = of[e].batch}, e, f)
<1> DEFINE B == {g \in S : of[g].batch = of[e].batch}
<1>1. B \in SUBSET S /\ e \in B /\ \A g \in B, h \in S : Share(r, g, h) => h \in B
    BY DEF Share
<1>2. f \in B
    <2> HIDE DEF B
    <2> QED
        BY <1>1 DEF Together
<1>3. ASSUME NEW X \in SUBSET B, e \in X,
             \A g \in X, h \in B : Share(r, g, h) => h \in X
      PROVE  f \in X
    <2>1. X \in SUBSET S /\ \A g \in X, h \in S : Share(r, g, h) => h \in X
        BY <1>1, <1>3
    <2> QED
        BY <1>3, <2>1 DEF Together
<1> HIDE DEF B
<1>4. Together(r, B, e, f)
    BY <1>3 DEF Together
<1> QED
    BY <1>2, <1>4 DEF B

\* Without a key everybody is alone.
LEMMA AloneWithoutKeys ==
    ASSUME NEW r, SwitchesOf(r) = {}, NEW S, NEW e \in S, NEW f, Together(r, S, e, f)
    PROVE  f = e
<1>1. \A g, h : ~Share(r, g, h)
    BY DEF Share, Keys
<1>2. {e} \in SUBSET S /\ e \in {e} /\ \A g \in {e}, h \in S : Share(r, g, h) => h \in {e}
    BY <1>1
<1>3. f \in {e}
    BY <1>2 DEF Together
<1> QED
    BY <1>3

\* The events are finitely many numbers.
LEMMA EventsOk == Events \subseteq Nat /\ IsFiniteSet(Events)
<1>1. 1 \in Int /\ Size \in Int
    BY DedupAssumption DEF Sorts
<1>2. IsFiniteSet(1 .. Size)
    BY <1>1, FS_Interval
<1> QED
    BY <1>2 DEF Events

\* What a rule selects is what nothing newer among the same events stands for.
THEOREM SelectedIs ==
    ASSUME NEW r, NEW S, S \subseteq Events
    PROVE  U!Selected(r, S) = {e \in S : ~Superseded(r, S, e)}
<1>1. ASSUME NEW e \in S
      PROVE  e \in U!Selected(r, S) <=> ~Superseded(r, S, e)
    <2> DEFINE B == {f \in S : of[f].batch = of[e].batch}
               forest == U!Forest(r, B)
    <2>1. U!SwitchesOf(r) = SwitchesOf(r)
        BY DEF U!SwitchesOf, SwitchesOf
    <2>2. CASE SwitchesOf(r) = {}
        <3>1. e \in U!Selected(r, S)
            BY <2>1, <2>2 DEF U!Selected
        <3>2. ASSUME NEW f \in S, f > e, Together(r, S, e, f)
              PROVE  FALSE
            <4>1. f = e /\ e \in Nat
                BY <2>2, <3>2, AloneWithoutKeys, EventsOk
            <4> QED
                BY <3>2, <4>1
        <3> QED
            BY <3>1, <3>2 DEF Superseded
    <2>3. CASE SwitchesOf(r) # {}
        <3>1. e \in U!Selected(r, S) <=>
              \A f \in B : U!Root(forest, f) = U!Root(forest, e) => f <= e
            BY <2>1, <2>3 DEF U!Selected
        <3>2. IsFiniteSet(B) /\ e \in B /\ \A g, h \in B : of[g].batch = of[h].batch
            <4>1. B \subseteq Events
                OBVIOUS
            <4>2. IsFiniteSet(B)
                BY <4>1, EventsOk, FS_Subset
            <4> QED
                BY <4>2
        <3>3. B \subseteq S
            OBVIOUS
        <3>4. \A f : Together(r, S, e, f) => f \in B /\ Together(r, B, e, f)
            BY TogetherInBatch
        <3> HIDE DEF B, forest
        <3>5. ASSUME NEW f \in B
              PROVE  U!Root(forest, f) = U!Root(forest, e) <=> Together(r, S, e, f)
            <4>1. U!Root(forest, e) = U!Root(forest, f) <=> Together(r, B, e, f)
                BY <3>2, GroupsFound DEF forest
            <4>2. Together(r, B, e, f) => Together(r, S, e, f)
                BY <3>2, <3>3, TogetherMore
            <4> QED
                BY <3>4, <4>1, <4>2
        <3>6. \A f \in S : (f <= e) <=> ~(f > e)
            BY EventsOk
        <3> QED
            BY <3>1, <3>3, <3>4, <3>5, <3>6 DEF Superseded
    <2> QED
        BY <2>2, <2>3
<1>2. U!Selected(r, S) \subseteq S
    BY DEF U!Selected
<1> QED
    BY <1>1, <1>2

\* An invocation is one of an event of a rule that nothing newer stands for.
LEMMA InvocationIs ==
    ASSUME NEW S, S \subseteq Events
    PROVE  /\ \A i \in U!Invocations(S) :
                /\ i[1] \in Rules /\ i[2] \in Matches(i[1]) \cap S /\ i = <<i[1], i[2]>>
                /\ ~Superseded(i[1], Matches(i[1]) \cap S, i[2])
           /\ \A r \in Rules : \A e \in Matches(r) \cap S :
                <<r, e>> \in U!Invocations(S) \/ Superseded(r, Matches(r) \cap S, e)
<1>1. U!Rules = Rules /\ \A r : U!Matches(r) = Matches(r)
    BY DEF U!Rules, Rules, U!Matches, Matches, U!Events, Events
<1>2. \A r : U!Selected(r, Matches(r) \cap S)
              = {e \in Matches(r) \cap S : ~Superseded(r, Matches(r) \cap S, e)}
    BY SelectedIs
<1>3. U!Invocations(S)
      = UNION {{<<r, e>> : e \in U!Selected(r, Matches(r) \cap S)} : r \in Rules}
    BY <1>1 DEF U!Invocations
<1>4. ASSUME NEW i \in U!Invocations(S)
      PROVE  /\ i[1] \in Rules /\ i[2] \in Matches(i[1]) \cap S /\ i = <<i[1], i[2]>>
             /\ ~Superseded(i[1], Matches(i[1]) \cap S, i[2])
    <2>1. PICK r \in Rules : i \in {<<r, e>> : e \in U!Selected(r, Matches(r) \cap S)}
        BY <1>3
    <2>2. PICK e \in U!Selected(r, Matches(r) \cap S) : i = <<r, e>>
        BY <2>1
    <2>3. e \in Matches(r) \cap S /\ ~Superseded(r, Matches(r) \cap S, e)
        BY <1>2, <2>2
    <2> QED
        BY <2>2, <2>3
<1>5. ASSUME NEW r \in Rules, NEW e \in Matches(r) \cap S,
             ~Superseded(r, Matches(r) \cap S, e)
      PROVE  <<r, e>> \in U!Invocations(S)
    <2>1. e \in U!Selected(r, Matches(r) \cap S)
        BY <1>2, <1>5
    <2>2. <<r, e>> \in {<<r, d>> : d \in U!Selected(r, Matches(r) \cap S)}
        BY <2>1
    <2> DEFINE Taken(q) == {<<q, d>> : d \in U!Selected(q, Matches(q) \cap S)}
    <2>3. <<r, e>> \in Taken(r)
        BY <2>2
    <2>4. U!Invocations(S) = UNION {Taken(q) : q \in Rules}
        BY <1>3
    <2> HIDE DEF Taken
    <2> QED
        BY <2>3, <2>4
<1> QED
    BY <1>4, <1>5

-----------------------------------------------------------------------------
(* The invariant of the queue.                                             *)

\* What a task has read or claimed is of its change request; what is read waits still,
\* and what is claimed is processing until it is planned.
Tasked ==
    \A m \in ChangeRequests :
        /\ page[m] \cup claimed[m] # {} => cycle = "active"
        /\ \A e \in page[m] \cup claimed[m] : of[e].mr = m
        /\ \A e \in page[m] : inbox[e] \in Waiting
        /\ ~planned[m] => \A e \in claimed[m] : inbox[e] = "processing"

\* A manual batch comes as a whole, and nothing of it is deleted while one is active.
WholeBatch ==
    origin = "manual" => \A e, f \in Events : of[e].batch = of[f].batch =>
        /\ inbox[e] = "absent" => inbox[f] = "absent"
        /\ inbox[e] = "deleted" => inbox[f] \notin Active

\* What runs has come; of a manual batch it is the newest of all that match, come or not.
Newest ==
    \A d \in dispatches :
        /\ d[2] \in InGroup(d[1])
        /\ origin = "manual" => ~Superseded(d[1], Matches(d[1]), d[2])

\* The inductive invariant.
DedupIInv ==
    DedupTypes /\ Tasked /\ WholeBatch /\ listed \subseteq Arrived /\ Newest /\ NewestNotDropped

\* The steps see the same sets.
LEMMA DedupNames ==
    /\ U!Events = Events /\ U!Batches = Batches /\ U!About = About /\ U!Rules = Rules
    /\ U!Switches = Switches /\ U!Waiting = Waiting /\ U!Active = Active
    /\ U!Terminal = Terminal /\ \A r : U!Matches(r) = Matches(r)
BY DEF U!Events, Events, U!Batches, Batches, U!About, About, U!Rules, Rules, U!Switches,
       Switches, U!Waiting, Waiting, U!Active, Active, U!Terminal, Terminal, U!Matches, Matches

\* What is matched is an event.
LEMMA MatchesOk == \A r \in Rules : Matches(r) \subseteq Events
BY DedupAssumption DEF Matches, Sorts, Rules

\* What is superseded stays so when more has come.
LEMMA StillSuperseded ==
    ASSUME of' = of, switches' = switches, Arrived \subseteq Arrived',
           NEW r, NEW e \in InGroup(r), Superseded(r, InGroup(r), e)
    PROVE  Superseded(r, InGroup(r), e)'
<1>1. PICK f \in InGroup(r) : f > e /\ Together(r, InGroup(r), e, f)
    BY DEF Superseded
<1> DEFINE A == InGroup(r)'
<1>2. InGroup(r) \subseteq A
    BY DEF InGroup
<1>3. Together(r, A, e, f)
    <2> HIDE DEF A
    <2> QED
        BY <1>1, <1>2, TogetherMore
<1>4. Superseded(r, A, e)
    BY <1>1, <1>2, <1>3 DEF Superseded
<1> QED
    BY <1>4 DEF Superseded, Together, Share, Keys, SwitchesOf

\* A group of all that match depends on the events and the switches only.
LEMMA SameGroups ==
    ASSUME of' = of, switches' = switches, NEW r, NEW e, Superseded(r, Matches(r), e)'
    PROVE  Superseded(r, Matches(r), e)
BY DEF Superseded, Together, Share, Keys, SwitchesOf

\* While nothing is run, what has run is the newest still.
LEMMA NewestStays ==
    ASSUME Newest, of' = of, switches' = switches, origin' = origin, dispatches' = dispatches,
           Arrived \subseteq Arrived'
    PROVE  Newest'
<1>1. ASSUME NEW d \in dispatches'
      PROVE  d[2] \in InGroup(d[1])'
    BY DEF Newest, InGroup
<1>2. ASSUME origin' = "manual", NEW d \in dispatches',
             Superseded(d[1], Matches(d[1]), d[2])'
      PROVE  FALSE
    <2>1. Superseded(d[1], Matches(d[1]), d[2])
        BY <1>2, SameGroups
    <2> QED
        BY <1>2, <2>1 DEF Newest
<1> QED
    BY <1>1, <1>2 DEF Newest

\* While nothing is settled, what was settled has a newer event still.
LEMMA DroppedStays ==
    ASSUME NewestNotDropped, of' = of, switches' = switches, Arrived \subseteq Arrived',
           \A e \in Events : inbox'[e] = "unmatched" => inbox[e] = "unmatched"
    PROVE  NewestNotDropped'
<1> SUFFICES ASSUME NEW e \in Events, NEW r \in Rules,
                    inbox'[e] = "unmatched", e \in Matches(r)
             PROVE  Superseded(r, InGroup(r), e)'
    BY DEF NewestNotDropped
<1>1. Superseded(r, InGroup(r), e) /\ e \in InGroup(r)
    BY DEF NewestNotDropped, InGroup, Arrived
<1> QED
    BY <1>1, StillSuperseded

\* While nothing comes, is deleted or waits again, a batch stays whole.
LEMMA BatchStays ==
    ASSUME WholeBatch, of' = of, origin' = origin,
           \A e \in Events : /\ inbox'[e] = "absent" <=> inbox[e] = "absent"
                             /\ inbox'[e] = "deleted" <=> inbox[e] = "deleted"
                             /\ inbox'[e] \in Active => inbox[e] \in Active
    PROVE  WholeBatch'
BY DEF WholeBatch

\* Of a rule that has not taken it, an event is superseded by what was looked at.
LEMMA LeftIsSuperseded ==
    ASSUME NEW S, S \subseteq Arrived, NEW e \in S, NEW r \in Rules, e \in Matches(r),
           <<r, e>> \notin U!Invocations(S)
    PROVE  Superseded(r, InGroup(r), e)
<1>1. S \subseteq Events
    BY DEF Arrived
<1>2. Superseded(r, Matches(r) \cap S, e)
    BY <1>1, InvocationIs
<1>3. Matches(r) \cap S \subseteq InGroup(r) /\ e \in Matches(r) \cap S
    BY DEF InGroup
<1>4. PICK f \in Matches(r) \cap S : f > e /\ Together(r, Matches(r) \cap S, e, f)
    BY <1>2 DEF Superseded
<1>5. Together(r, InGroup(r), e, f)
    BY <1>3, <1>4, TogetherMore
<1> QED
    BY <1>3, <1>4, <1>5 DEF Superseded

\* What a rule takes of a batch it sees as a whole is the newest of all.
LEMMA TakenIsNewest ==
    ASSUME NEW S, S \subseteq Events, NEW r, NEW e, <<r, e>> \in U!Invocations(S),
           \A f \in Events : of[f].batch = of[e].batch => f \in S
    PROVE  ~Superseded(r, Matches(r), e)
<1> DEFINE C == Matches(r) \cap S
<1>1. r \in Rules /\ e \in C /\ ~Superseded(r, C, e)
    <2>1. <<r, e>>[1] = r /\ <<r, e>>[2] = e
        OBVIOUS
    <2> QED
        BY <2>1, InvocationIs
<1>2. ASSUME NEW f \in Matches(r), f > e, Together(r, Matches(r), e, f)
      PROVE  FALSE
    <2> DEFINE B == {g \in Matches(r) : of[g].batch = of[e].batch}
    <2>1. Together(r, B, e, f) /\ f \in B
        BY <1>1, <1>2, TogetherInBatch
    <2>2. B \subseteq C /\ e \in B
        BY <1>1, MatchesOk
    <2> HIDE DEF B, C
    <2>3. Together(r, C, e, f)
        BY <2>1, <2>2, TogetherMore
    <2> QED
        BY <1>1, <1>2, <2>1, <2>2, <2>3 DEF Superseded
<1> QED
    BY <1>2 DEF Superseded

\* At first no event has come.
LEMMA DedupInit == U!Init => DedupIInv
<1> SUFFICES ASSUME U!Init
             PROVE  DedupIInv
    OBVIOUS
<1> USE DEF U!Init
<1>1. DedupTypes
    BY DedupNames, DedupAssumption DEF DedupTypes, Sorts
<1>2. Tasked
    BY DEF Tasked
<1>3. WholeBatch
    BY DedupNames DEF WholeBatch, Active
<1>4. listed \subseteq Arrived /\ Newest
    BY DEF Newest
<1>5. NewestNotDropped
    BY DedupNames DEF NewestNotDropped
<1> QED
    BY <1>1, <1>2, <1>3, <1>4, <1>5 DEF DedupIInv

\* The dispatch lists what waits.
LEMMA BeginOk == DedupIInv /\ U!Begin => DedupIInv'
<1> SUFFICES ASSUME DedupIInv, U!Begin
             PROVE  DedupIInv'
    OBVIOUS
<1> USE DEF U!Begin, U!data, U!task, DedupIInv
<1>1. DedupTypes'
    BY DedupNames DEF DedupTypes
<1>2. Tasked'
    BY DEF Tasked
<1>3. WholeBatch'
    BY BatchStays
<1>4. listed' \subseteq Arrived' /\ Arrived' = Arrived
    BY DedupNames DEF Arrived, Waiting
<1>5. Newest' /\ NewestNotDropped'
    BY <1>4, NewestStays, DroppedStays
<1> QED
    BY <1>1, <1>2, <1>3, <1>4, <1>5

\* It finds nothing more.
LEMMA EndOk == DedupIInv /\ U!End => DedupIInv'
<1> SUFFICES ASSUME DedupIInv, U!End
             PROVE  DedupIInv'
    OBVIOUS
<1> USE DEF U!End, U!data, U!task, DedupIInv
<1>1. DedupTypes'
    BY DedupNames DEF DedupTypes
<1>2. Tasked'
    BY DEF Tasked
<1>3. WholeBatch'
    BY BatchStays
<1>4. listed' \subseteq Arrived' /\ Arrived' = Arrived
    BY DEF Arrived
<1>5. Newest' /\ NewestNotDropped'
    BY <1>4, NewestStays, DroppedStays
<1> QED
    BY <1>1, <1>2, <1>3, <1>4, <1>5

\* What a page holds waits, and is of the change request.
LEMMA ReadOk ==
    ASSUME DedupIInv, NEW m \in ChangeRequests, U!Read(m)
    PROVE  DedupIInv'
<1> USE DEF U!data, U!task, DedupIInv
<1>1. PICK S \in SUBSET U!WaitingOf(m) : page' = [page EXCEPT ![m] = S]
    BY DEF U!Read
<1>2. cycle = "active" /\ UNCHANGED <<of, switches, origin, inbox, scanning, cycle,
                                      listed, claimed>>
      /\ UNCHANGED <<planned, dispatches, faults>>
    BY DEF U!Read
<1>3. S \subseteq Events /\ \A e \in S : of[e].mr = m /\ inbox[e] \in Waiting
    BY DedupNames DEF U!WaitingOf
<1>4. DedupTypes'
    BY <1>1, <1>2, <1>3 DEF DedupTypes
<1>5. Tasked'
    BY <1>1, <1>2, <1>3 DEF Tasked, DedupTypes
<1>6. WholeBatch'
    BY <1>2, BatchStays
<1>7. listed' \subseteq Arrived' /\ Arrived' = Arrived
    BY <1>2 DEF Arrived
<1>8. Newest' /\ NewestNotDropped'
    BY <1>2, <1>7, NewestStays, DroppedStays
<1> QED
    BY <1>4, <1>5, <1>6, <1>7, <1>8

\* What is claimed waited.
LEMMA ClaimOk ==
    ASSUME DedupIInv, NEW m \in ChangeRequests, U!Claim(m)
    PROVE  DedupIInv'
<1> USE DEF U!data, U!task, DedupIInv
<1> DEFINE S == {e \in page[m] : \A f \in page[m] : of[e].batch <= of[f].batch}
<1>1. /\ cycle = "active" /\ claimed' = [claimed EXCEPT ![m] = S]
      /\ page' = [page EXCEPT ![m] = @ \ S] /\ planned' = [planned EXCEPT ![m] = FALSE]
      /\ inbox' = [e \in Events |-> IF e \in S THEN "processing" ELSE inbox[e]]
      /\ UNCHANGED <<of, switches, origin, scanning, cycle, listed, dispatches, faults>>
    BY DedupNames DEF U!Claim
<1>2. /\ page[m] \subseteq Events /\ S \subseteq page[m]
      /\ \A e \in S : of[e].mr = m /\ inbox[e] \in Waiting
    BY DEF Tasked, DedupTypes
<1> HIDE DEF S
<1>3. DedupTypes'
    BY <1>1, <1>2 DEF DedupTypes, Active
<1>4. Tasked'
    <2> SUFFICES ASSUME NEW l \in ChangeRequests
                 PROVE  /\ cycle' = "active"
                        /\ \A e \in page'[l] \cup claimed'[l] : of'[e].mr = l
                        /\ \A e \in page'[l] : inbox'[e] \in Waiting
                        /\ ~planned'[l] => \A e \in claimed'[l] : inbox'[e] = "processing"
        BY <1>1 DEF Tasked
    <2>1. CASE l = m
        BY <1>1, <1>2, <2>1 DEF Tasked, DedupTypes
    <2>2. CASE l # m
        BY <1>1, <1>2, <2>2 DEF Tasked, DedupTypes
    <2> QED
        BY <2>1, <2>2
<1>5. WholeBatch'
    <2>1. \A e \in Events : /\ inbox'[e] = "absent" <=> inbox[e] = "absent"
                            /\ inbox'[e] = "deleted" <=> inbox[e] = "deleted"
                            /\ inbox'[e] \in Active => inbox[e] \in Active
        BY <1>1, <1>2 DEF Waiting, Active
    <2> QED
        BY <1>1, <2>1, BatchStays
<1>6. Arrived' = Arrived
    BY <1>1, <1>2 DEF Arrived, Waiting
<1>7. Newest' /\ NewestNotDropped'
    <2>1. \A e \in Events : inbox'[e] = "unmatched" => inbox[e] = "unmatched"
        BY <1>1
    <2> QED
        BY <1>1, <1>6, <2>1, NewestStays, DroppedStays
<1> QED
    BY <1>1, <1>3, <1>4, <1>5, <1>6, <1>7

\* What is finished was processing.
LEMMA FinishOk ==
    ASSUME DedupIInv, NEW m \in ChangeRequests, U!Finish(m)
    PROVE  DedupIInv'
<1> USE DEF U!data, U!task, DedupIInv
<1>1. PICK again \in SUBSET {e \in claimed[m] : inbox[e] = "processing"} :
        /\ inbox' = [e \in Events |-> IF e \in again THEN "failed"
                        ELSE IF e \in claimed[m] /\ inbox[e] = "processing" THEN "completed"
                        ELSE inbox[e]]
        /\ page' = page \/ page' = [page EXCEPT ![m] = {}]
    BY DedupNames DEF U!Finish
<1>2. /\ claimed[m] # {} /\ claimed' = [claimed EXCEPT ![m] = {}]
      /\ planned' = [planned EXCEPT ![m] = FALSE]
      /\ UNCHANGED <<of, switches, origin, scanning, cycle, listed, dispatches>>
    BY DEF U!Finish
<1>3. \A e \in Events : \/ inbox'[e] = inbox[e]
                        \/ /\ e \in claimed[m] /\ inbox[e] = "processing"
                           /\ inbox'[e] \in {"failed", "completed"}
    BY <1>1
<1>4. DedupTypes'
    <2>1. inbox' \in [Events -> {"absent", "deleted"} \cup Active \cup Terminal]
        BY <1>1 DEF DedupTypes, Active, Terminal
    <2> QED
        BY <1>1, <1>2, <2>1 DEF DedupTypes
<1>5. Tasked'
    <2>1. cycle' = "active"
        BY <1>2 DEF Tasked
    <2>2. ASSUME NEW l \in ChangeRequests
          PROVE  /\ \A e \in page'[l] \cup claimed'[l] : of'[e].mr = l
                 /\ \A e \in page'[l] : inbox'[e] \in Waiting
                 /\ ~planned'[l] => \A e \in claimed'[l] : inbox'[e] = "processing"
        <3>1. /\ page'[l] \subseteq page[l] /\ claimed'[l] \subseteq claimed[l]
              /\ page[l] \subseteq Events /\ claimed[l] \subseteq Events
            BY <1>1, <1>2 DEF DedupTypes
        <3>2. CASE l = m
            <4>1. claimed'[l] = {}
                BY <1>2, <3>2 DEF DedupTypes
            <4> QED
                BY <1>2, <1>3, <3>1, <4>1 DEF Tasked, Waiting
        <3>3. CASE l # m
            <4>1. planned'[l] = planned[l] /\ \A e \in claimed[l] : e \notin claimed[m]
                BY <1>2, <3>3 DEF Tasked, DedupTypes
            <4> QED
                BY <1>2, <1>3, <3>1, <4>1 DEF Tasked, Waiting
        <3> QED
            BY <3>2, <3>3
    <2> QED
        BY <2>1, <2>2 DEF Tasked
<1>6. WholeBatch'
    <2>1. \A e \in Events : /\ inbox'[e] = "absent" <=> inbox[e] = "absent"
                            /\ inbox'[e] = "deleted" <=> inbox[e] = "deleted"
                            /\ inbox'[e] \in Active => inbox[e] \in Active
        BY <1>3 DEF Active
    <2> QED
        BY <1>2, <2>1, BatchStays
<1>7. Arrived' = Arrived
    BY <1>3 DEF Arrived
<1>8. Newest' /\ NewestNotDropped'
    <2>1. \A e \in Events : inbox'[e] = "unmatched" => inbox[e] = "unmatched"
        BY <1>3
    <2> QED
        BY <1>2, <1>7, <2>1, NewestStays, DroppedStays
<1> QED
    BY <1>2, <1>4, <1>5, <1>6, <1>7, <1>8

\* A stop or a restart: what was processing waits again, and no task goes on.
LEMMA InterruptedOk ==
    ASSUME DedupIInv, inbox' = U!Interrupted, U!Idle, listed' \subseteq listed,
           cycle' \in {"stopping", "idle"}, scanning' = FALSE,
           UNCHANGED <<of, switches, origin, dispatches>>
    PROVE  DedupIInv'
<1> USE DEF DedupIInv
<1>1. inbox' = [e \in Events |-> IF inbox[e] = "processing" THEN "pending" ELSE inbox[e]]
    BY DedupNames DEF U!Interrupted
<1>2. /\ page' = [m \in ChangeRequests |-> {}] /\ claimed' = page'
      /\ planned' = [m \in ChangeRequests |-> FALSE]
    BY DEF U!Idle
<1>3. DedupTypes'
    <2>1. inbox' \in [Events -> {"absent", "deleted"} \cup Active \cup Terminal]
        BY <1>1 DEF DedupTypes, Active
    <2> QED
        BY <1>2, <2>1 DEF DedupTypes
<1>4. Tasked'
    BY <1>2 DEF Tasked
<1>5. WholeBatch'
    <2>1. \A e \in Events : /\ inbox'[e] = "absent" <=> inbox[e] = "absent"
                            /\ inbox'[e] = "deleted" <=> inbox[e] = "deleted"
                            /\ inbox'[e] \in Active => inbox[e] \in Active
        BY <1>1 DEF Active
    <2> QED
        BY <2>1, BatchStays
<1>6. Arrived' = Arrived
    BY <1>1 DEF Arrived
<1>7. Newest' /\ NewestNotDropped'
    <2>1. \A e \in Events : inbox'[e] = "unmatched" => inbox[e] = "unmatched"
        BY <1>1
    <2> QED
        BY <1>6, <2>1, NewestStays, DroppedStays
<1> QED
    BY <1>3, <1>4, <1>5, <1>6, <1>7

\* The service stops.
LEMMA StopOk == DedupIInv /\ U!Stop => DedupIInv'
BY InterruptedOk DEF U!Stop, U!data

\* It is started again.
LEMMA RestartOk == DedupIInv /\ U!Restart => DedupIInv'
BY InterruptedOk DEF U!Restart, U!data

\* What is deleted is settled, and no active event is of its manual batch.
LEMMA PruneOk == DedupIInv /\ U!Prune => DedupIInv'
<1> SUFFICES ASSUME DedupIInv, U!Prune
             PROVE  DedupIInv'
    OBVIOUS
<1> USE DEF U!data, U!task, DedupIInv
<1>1. PICK S \in SUBSET {e \in Events : U!Prunable(e)} :
        inbox' = [e \in Events |-> IF e \in S THEN "deleted" ELSE inbox[e]]
    BY DedupNames DEF U!Prune
<1>2. /\ cycle # "active" /\ cycle' \in {"idle", "stopped"} /\ listed' = {}
      /\ UNCHANGED <<of, switches, origin, scanning, page, claimed, planned, dispatches>>
    BY DEF U!Prune
<1>3. \A e \in S : /\ inbox[e] \in Terminal
                   /\ origin = "manual" =>
                        \A f \in Events : of[f].batch = of[e].batch => inbox[f] \notin Active
    BY DedupNames DEF U!Prunable
<1>4. DedupTypes'
    <2>1. inbox' \in [Events -> {"absent", "deleted"} \cup Active \cup Terminal]
        BY <1>1 DEF DedupTypes
    <2> QED
        BY <1>2, <2>1 DEF DedupTypes
<1>5. Tasked'
    BY <1>2 DEF Tasked
<1>6. WholeBatch'
    <2> SUFFICES ASSUME origin = "manual", NEW e \in Events, NEW f \in Events,
                        of[e].batch = of[f].batch
                 PROVE  /\ inbox'[e] = "absent" => inbox'[f] = "absent"
                        /\ inbox'[e] = "deleted" => inbox'[f] \notin Active
        BY <1>2 DEF WholeBatch
    <2>1. /\ inbox[e] = "absent" => inbox[f] = "absent"
          /\ inbox[e] = "deleted" => inbox[f] \notin Active
        BY DEF WholeBatch
    <2>2. /\ e \in S => inbox[f] \notin Active
          /\ f \in S => inbox[f] \in Terminal
        BY <1>3
    <2> QED
        BY <1>1, <2>1, <2>2 DEF Active, Terminal
<1>7. Arrived' = Arrived
    BY <1>1, <1>3 DEF Arrived, Terminal
<1>8. Newest' /\ NewestNotDropped'
    <2>1. \A e \in Events : inbox'[e] = "unmatched" => inbox[e] = "unmatched"
        BY <1>1
    <2> QED
        BY <1>2, <1>7, <2>1, NewestStays, DroppedStays
<1> QED
    BY <1>2, <1>4, <1>5, <1>6, <1>7, <1>8

\* What comes was absent; a manual batch comes as a whole.
LEMMA StoreOk ==
    ASSUME DedupIInv, NEW S \in SUBSET Events, U!Store(S),
           \A e \in S : inbox[e] = "absent",
           origin = "manual" => \E b : S = {e \in Events : of[e].batch = b},
           UNCHANGED <<of, switches, origin, scanning, cycle, listed>>,
           UNCHANGED <<page, claimed, planned, dispatches, faults>>
    PROVE  DedupIInv'
<1> USE DEF DedupIInv
<1>1. inbox' = [e \in Events |-> IF e \in S THEN "pending" ELSE inbox[e]]
    BY DedupNames DEF U!Store
<1>2. DedupTypes'
    <2>1. inbox' \in [Events -> {"absent", "deleted"} \cup Active \cup Terminal]
        BY <1>1 DEF DedupTypes, Active
    <2> QED
        BY <2>1 DEF DedupTypes
<1>3. Tasked'
    <2>1. ASSUME NEW m \in ChangeRequests
          PROVE  /\ \A e \in page[m] : inbox'[e] \in Waiting
                 /\ ~planned[m] => \A e \in claimed[m] : inbox'[e] = "processing"
        <3>1. page[m] \subseteq Events /\ claimed[m] \subseteq Events
            BY DEF DedupTypes
        <3> QED
            BY <1>1, <3>1 DEF Tasked, Waiting
    <2> QED
        BY <2>1 DEF Tasked
<1>4. WholeBatch'
    <2> SUFFICES ASSUME origin = "manual", NEW e \in Events, NEW f \in Events,
                        of[e].batch = of[f].batch
                 PROVE  /\ inbox'[e] = "absent" => inbox'[f] = "absent"
                        /\ inbox'[e] = "deleted" => inbox'[f] \notin Active
        BY DEF WholeBatch
    <2>1. /\ inbox[e] = "absent" => inbox[f] = "absent"
          /\ inbox[f] = "absent" => inbox[e] = "absent"
          /\ inbox[e] = "deleted" => inbox[f] \notin Active
        BY DEF WholeBatch
    <2>2. e \in S <=> f \in S
        OBVIOUS
    <2> QED
        BY <1>1, <2>1, <2>2
<1>5. Arrived \subseteq Arrived'
    BY <1>1 DEF Arrived
<1>6. Newest' /\ NewestNotDropped'
    <2>1. \A e \in Events : inbox'[e] = "unmatched" => inbox[e] = "unmatched"
        BY <1>1
    <2> QED
        BY <1>5, <2>1, NewestStays, DroppedStays
<1> QED
    BY <1>2, <1>3, <1>4, <1>5, <1>6

\* A page of a manual request is its whole batch.
LEMMA RequestOk ==
    ASSUME DedupIInv, NEW b \in Batches, U!Request(b)
    PROVE  DedupIInv'
<1>1. U!Chosen(b) = {e \in Events : of[e].batch = b}
    BY DedupNames DEF U!Chosen
<1> QED
    BY <1>1, StoreOk DEF U!Request, U!data, U!task

\* A scan saves no manual event.
LEMMA DetectOk ==
    ASSUME DedupIInv, NEW m \in ChangeRequests, U!Detect(m)
    PROVE  DedupIInv'
<1>1. PICK b \in Batches :
        U!Store({e \in Events : of[e].mr = m /\ of[e].batch = b /\ inbox[e] = "absent"})
    BY DedupNames DEF U!Detect
<1> DEFINE S == {e \in Events : of[e].mr = m /\ of[e].batch = b /\ inbox[e] = "absent"}
<1>2. S \in SUBSET Events /\ (\A e \in S : inbox[e] = "absent") /\ origin # "manual"
    BY DEF U!Detect
<1> HIDE DEF S
<1>3. U!Store(S)
    BY <1>1 DEF S
<1> QED
    BY <1>2, <1>3, StoreOk DEF U!Detect, U!data, U!task

\* What is settled when the dispatch begins is superseded by what it has listed.
LEMMA SettleOk == DedupIInv /\ U!Settle => DedupIInv'
<1> SUFFICES ASSUME DedupIInv, U!Settle
             PROVE  DedupIInv'
    OBVIOUS
<1> USE DEF U!data, U!task, DedupIInv
<1> DEFINE S == {e \in U!Suppressed(listed) : inbox[e] \in Waiting}
<1>1. /\ cycle = "listed" /\ cycle' = "active"
      /\ inbox' = [e \in Events |-> IF e \in S THEN "unmatched" ELSE inbox[e]]
      /\ UNCHANGED <<of, switches, origin, scanning, listed, page, claimed, planned>>
      /\ UNCHANGED <<dispatches, faults>>
    BY DedupNames DEF U!Settle
<1>2. \A e \in S : inbox[e] \in Waiting
    OBVIOUS
<1>3. ASSUME NEW e \in S, NEW r \in Rules, e \in Matches(r)
      PROVE  Superseded(r, InGroup(r), e)
    <2>1. e \in listed /\ \A i \in U!Invocations(listed) : i[2] # e
        BY DEF U!Suppressed, U!Matched
    <2>2. <<r, e>>[2] = e
        OBVIOUS
    <2>3. <<r, e>> \notin U!Invocations(listed)
        BY <2>1, <2>2
    <2> QED
        BY <1>3, <2>1, <2>3, LeftIsSuperseded
<1> HIDE DEF S
<1>4. DedupTypes'
    <2>1. inbox' \in [Events -> {"absent", "deleted"} \cup Active \cup Terminal]
        BY <1>1 DEF DedupTypes, Terminal
    <2> QED
        BY <1>1, <2>1 DEF DedupTypes
<1>5. Tasked'
    BY <1>1 DEF Tasked
<1>6. WholeBatch'
    <2>1. \A e \in Events : /\ inbox'[e] = "absent" <=> inbox[e] = "absent"
                            /\ inbox'[e] = "deleted" <=> inbox[e] = "deleted"
                            /\ inbox'[e] \in Active => inbox[e] \in Active
        BY <1>1, <1>2 DEF Active, Waiting
    <2> QED
        BY <1>1, <2>1, BatchStays
<1>7. Arrived' = Arrived
    BY <1>1, <1>2 DEF Arrived, Waiting
<1>8. Newest'
    BY <1>1, <1>7, NewestStays
<1>9. NewestNotDropped'
    <2> SUFFICES ASSUME NEW e \in Events, NEW r \in Rules,
                        inbox'[e] = "unmatched", e \in Matches(r)
                 PROVE  Superseded(r, InGroup(r), e)'
        BY DEF NewestNotDropped
    <2>1. e \in InGroup(r)
        BY <1>1, <1>7 DEF InGroup, Arrived
    <2>2. Superseded(r, InGroup(r), e)
        BY <1>1, <1>3 DEF NewestNotDropped
    <2> QED
        BY <1>1, <1>7, <2>1, <2>2, StillSuperseded
<1> QED
    BY <1>1, <1>4, <1>5, <1>6, <1>7, <1>8, <1>9

\* What a task plans of a manual batch is the newest, and what it leaves is superseded.
LEMMA PlanOk ==
    ASSUME DedupIInv, NEW m \in ChangeRequests, U!Plan(m)
    PROVE  DedupIInv'
<1> USE DEF U!data, U!task, DedupIInv
<1> DEFINE C == U!Candidates(m)
           plan == {i \in U!Invocations(C) : i[2] \in claimed[m]}
           left == claimed[m] \ {i[2] : i \in plan}
<1>1. /\ claimed[m] # {} /\ ~planned[m] /\ planned' = [planned EXCEPT ![m] = TRUE]
      /\ dispatches' = dispatches \cup plan
      /\ inbox' = [e \in Events |-> IF e \in left THEN "unmatched" ELSE inbox[e]]
      /\ UNCHANGED <<of, switches, origin, scanning, cycle, listed, page, claimed, faults>>
    BY DedupNames DEF U!Plan
<1>2. claimed[m] \subseteq Events /\ \A e \in claimed[m] : inbox[e] = "processing"
    BY <1>1 DEF Tasked, DedupTypes
<1>3. /\ claimed[m] \subseteq C /\ C \subseteq Arrived
      /\ origin = "manual" => C = {e \in Events : inbox[e] # "deleted"
                                     /\ \E f \in claimed[m] : of[f].batch = of[e].batch}
    <2>1. CASE origin = "manual"
        <3>1. C = {e \in Events : inbox[e] # "deleted"
                                     /\ \E f \in claimed[m] : of[f].batch = of[e].batch}
            BY <2>1, DedupNames DEF U!Candidates
        <3>2. claimed[m] \subseteq C
            BY <1>2, <3>1
        <3>3. ASSUME NEW e \in C
              PROVE  e \in Arrived
            <4>1. PICK f \in claimed[m] : of[f].batch = of[e].batch
                BY <3>1
            <4>2. e \in Events /\ f \in Events /\ inbox[f] = "processing"
                BY <1>2, <3>1
            <4> QED
                BY <2>1, <4>1, <4>2 DEF WholeBatch, Arrived
        <3> QED
            BY <3>1, <3>2, <3>3
    <2>2. CASE origin # "manual"
        BY <1>2, <2>2 DEF U!Candidates, Arrived
    <2> QED
        BY <2>1, <2>2
<1> HIDE DEF C
<1>4. ASSUME NEW i \in plan
      PROVE  /\ i \in Rules \X Events /\ i[2] \in InGroup(i[1])
             /\ origin = "manual" => ~Superseded(i[1], Matches(i[1]), i[2])
    <2>1. i \in U!Invocations(C) /\ i[2] \in claimed[m] /\ C \subseteq Events
        BY <1>3 DEF Arrived
    <2>2. i[1] \in Rules /\ i[2] \in Matches(i[1]) \cap C /\ i = <<i[1], i[2]>>
        BY <2>1, InvocationIs
    <2>3. ASSUME origin = "manual", NEW f \in Events, of[f].batch = of[i[2]].batch
          PROVE  f \in C
        <3>1. i[2] \in Events /\ inbox[i[2]] = "processing" /\ origin = "manual"
            BY <1>2, <2>1, <2>3
        <3>2. inbox[f] # "deleted"
            BY <2>3, <3>1 DEF WholeBatch, Active
        <3> QED
            BY <1>3, <2>1, <2>3, <3>2
    <2>4. origin = "manual" => ~Superseded(i[1], Matches(i[1]), i[2])
        BY <2>1, <2>2, <2>3, TakenIsNewest
    <2> QED
        BY <1>3, <2>1, <2>2, <2>4 DEF InGroup
<1>5. ASSUME NEW e \in left, NEW r \in Rules, e \in Matches(r)
      PROVE  Superseded(r, InGroup(r), e)
    <2>1. e \in claimed[m] /\ <<r, e>>[2] = e
        OBVIOUS
    <2>2. <<r, e>> \notin plan
        BY <2>1
    <2>3. <<r, e>> \notin U!Invocations(C)
        BY <2>1, <2>2
    <2> QED
        BY <1>3, <1>5, <2>1, <2>3, LeftIsSuperseded
<1>6. left \subseteq claimed[m]
    OBVIOUS
<1> HIDE DEF plan, left
<1>7. DedupTypes'
    <2>1. inbox' \in [Events -> {"absent", "deleted"} \cup Active \cup Terminal]
        BY <1>1 DEF DedupTypes, Terminal
    <2>2. dispatches' \subseteq Rules \X Events
        BY <1>1, <1>4 DEF DedupTypes
    <2> QED
        BY <1>1, <2>1, <2>2 DEF DedupTypes
<1>8. Tasked'
    <2>1. ASSUME NEW l \in ChangeRequests
          PROVE  /\ \A e \in page[l] : inbox'[e] \in Waiting
                 /\ ~planned'[l] => \A e \in claimed[l] : inbox'[e] = "processing"
        <3>1. page[l] \subseteq Events /\ claimed[l] \subseteq Events
            BY DEF DedupTypes
        <3>2. \A e \in page[l] : e \notin left
            BY <1>2, <1>6 DEF Tasked, Waiting
        <3>3. ~planned'[l] => ~planned[l] /\ \A e \in claimed[l] : e \notin left
            BY <1>1, <1>6 DEF Tasked, DedupTypes
        <3> QED
            BY <1>1, <3>1, <3>2, <3>3 DEF Tasked
    <2> QED
        BY <1>1, <2>1 DEF Tasked
<1>9. WholeBatch'
    <2>1. \A e \in Events : /\ inbox'[e] = "absent" <=> inbox[e] = "absent"
                            /\ inbox'[e] = "deleted" <=> inbox[e] = "deleted"
                            /\ inbox'[e] \in Active => inbox[e] \in Active
        BY <1>1, <1>2, <1>6 DEF Active
    <2> QED
        BY <1>1, <2>1, BatchStays
<1>10. Arrived' = Arrived
    BY <1>1, <1>2, <1>6 DEF Arrived
<1>11. Newest'
    <2>1. ASSUME NEW d \in dispatches'
          PROVE  d[2] \in InGroup(d[1])'
        <3>1. d[2] \in InGroup(d[1])
            BY <1>1, <1>4 DEF Newest
        <3> QED
            BY <1>10, <3>1 DEF InGroup
    <2>2. ASSUME origin' = "manual", NEW d \in dispatches',
                 Superseded(d[1], Matches(d[1]), d[2])'
          PROVE  FALSE
        <3>1. Superseded(d[1], Matches(d[1]), d[2])
            BY <1>1, <2>2, SameGroups
        <3> QED
            BY <1>1, <1>4, <2>2, <3>1 DEF Newest
    <2> QED
        BY <2>1, <2>2 DEF Newest
<1>12. NewestNotDropped'
    <2> SUFFICES ASSUME NEW e \in Events, NEW r \in Rules,
                        inbox'[e] = "unmatched", e \in Matches(r)
                 PROVE  Superseded(r, InGroup(r), e)'
        BY DEF NewestNotDropped
    <2>1. e \in InGroup(r)
        BY <1>1, <1>10 DEF InGroup, Arrived
    <2>2. Superseded(r, InGroup(r), e)
        BY <1>1, <1>5 DEF NewestNotDropped
    <2> QED
        BY <1>1, <1>10, <2>1, <2>2, StillSuperseded
<1> QED
    BY <1>1, <1>3, <1>7, <1>8, <1>9, <1>10, <1>11, <1>12

\* Every step keeps the invariant.
LEMMA DedupStep == DedupIInv /\ [U!Next]_U!vars => DedupIInv'
<1> SUFFICES ASSUME DedupIInv, [U!Next]_U!vars
             PROVE  DedupIInv'
    OBVIOUS
<1>1. CASE UNCHANGED U!vars
    <2>1. UNCHANGED <<of, switches, origin, inbox, scanning, cycle, listed>>
          /\ UNCHANGED <<page, claimed, planned, dispatches, faults>>
        BY <1>1 DEF U!vars, U!data, U!task
    <2>2. DedupTypes' /\ Tasked' /\ WholeBatch'
        BY <2>1 DEF DedupIInv, DedupTypes, Tasked, WholeBatch
    <2>3. listed' \subseteq Arrived' /\ Arrived' = Arrived
        BY <2>1 DEF DedupIInv, Arrived
    <2>4. Newest' /\ NewestNotDropped'
        BY <2>1, <2>3, NewestStays, DroppedStays DEF DedupIInv
    <2> QED
        BY <2>2, <2>3, <2>4 DEF DedupIInv
<1>2. CASE U!Begin
    BY <1>2, BeginOk
<1>3. CASE U!Settle
    BY <1>3, SettleOk
<1>4. CASE U!End
    BY <1>4, EndOk
<1>5. CASE U!Stop
    BY <1>5, StopOk
<1>6. CASE U!Prune
    BY <1>6, PruneOk
<1>7. CASE U!Restart
    BY <1>7, RestartOk
<1>8. ASSUME NEW b \in Batches, U!Request(b)
      PROVE  DedupIInv'
    BY <1>8, RequestOk
<1>9. ASSUME NEW m \in ChangeRequests,
             \/ U!Detect(m) \/ U!Read(m) \/ U!Claim(m) \/ U!Plan(m) \/ U!Finish(m)
      PROVE  DedupIInv'
    BY <1>9, DetectOk, ReadOk, ClaimOk, PlanOk, FinishOk
<1> QED
    BY <1>1, <1>2, <1>3, <1>4, <1>5, <1>6, <1>7, <1>8, <1>9, DedupNames DEF U!Next

\* What the invariant says of all that match holds of those that have come.
LEMMA DedupIInvIs == DedupIInv => DedupInv /\ NewestNotDropped
<1> SUFFICES ASSUME DedupIInv
             PROVE  ManualNewestOnly
    BY DEF DedupIInv, DedupInv
<1> SUFFICES ASSUME origin = "manual", NEW d \in dispatches,
                    Superseded(d[1], InGroup(d[1]), d[2])
             PROVE  FALSE
    BY DEF ManualNewestOnly
<1>1. InGroup(d[1]) \subseteq Matches(d[1])
    BY DEF InGroup
<1>2. PICK f \in InGroup(d[1]) : f > d[2] /\ Together(d[1], InGroup(d[1]), d[2], f)
    BY DEF Superseded
<1>3. d[2] \in InGroup(d[1])
    BY DEF DedupIInv, Newest
<1>4. Together(d[1], Matches(d[1]), d[2], f)
    BY <1>1, <1>2, <1>3, TogetherMore
<1> QED
    BY <1>1, <1>2, <1>4 DEF DedupIInv, Newest, Superseded

\* Of a manual batch a rule runs the newest of a group only.
THEOREM DedupSafe == U!Spec => []DedupInv
BY DedupInit, DedupStep, DedupIInvIs, PTL DEF U!Spec

\* The newest of a group is not settled without a run.
THEOREM NewestKept == U!Spec => []NewestNotDropped
BY DedupInit, DedupStep, DedupIInvIs, PTL DEF U!Spec
================================================================================
