---------------------------- MODULE PreflightProofs ----------------------------
(***************************************************************************)
(* Proofs about Preflight, for any heads, any number of steps and          *)
(* attempts, and any number of pushes, replays, faults and crashes.        *)
(*                                                                         *)
(* PreflightInv is not inductive: what the rows, the steps and the         *)
(* platform say agrees because of where the coroutine is and of what it    *)
(* holds in its hands (RowInv, ToldInv, PublishedInv, StepsInv).  The      *)
(* comment follows the gate because generations only grow and, without     *)
(* faults, are closed in their order (OrderInv, CommentInv).               *)
(***************************************************************************)
EXTENDS Preflight, SequenceTheorems, FiniteSetTheorems, TLAPS

Events  == [head : Heads, gen : Gens, manual : BOOLEAN, left : 0..MaxAttempts]
PreflightRuns   == [status : Statuses, attempts : 0..MaxAttempts, published : BOOLEAN]
Results == {"success", "failure", "error"}
Working == {"prepare", "checkout", "announce", "start", "steps", "finish"}
Telling == {"publish", "mark", "comment", "sync", "save"}
Places  == {"idle", "return"} \cup Working \cup Telling

\* A scan starts a generation once for each push.
CountInv ==
    /\ pushes \in 0..MaxPushes /\ replays \in Nat /\ faults \in Nat /\ crashes \in Nat
    /\ gen <= pushes + 1
    /\ head # seen => gen <= pushes

PlatformType ==
    /\ head \in Heads /\ seen \in Heads /\ gen \in Gens
    /\ remote \in [Heads -> RemoteStates] /\ lost \in Nat /\ local \subseteq Heads
    /\ observed \subseteq Heads \X Gens
    /\ mapped \in [Gens -> Heads \cup {NoHead}] /\ gone \subseteq Gens

RowsType ==
    /\ row \in [Heads -> PreflightRuns]
    /\ steps \in [Heads -> [Step -> StepStatuses]]

CoroutineType ==
    /\ queue \in Seq(Events) /\ pc \in Places /\ result \in Statuses
    /\ target \in BOOLEAN /\ fresh \in BOOLEAN /\ failed \in BOOLEAN
    /\ pc # "idle" => queue # <<>> /\ cur.left < MaxAttempts

Types == PlatformType /\ RowsType /\ CoroutineType /\ CountInv

\* The row that runs is the coroutine's.
RowInv ==
    /\ \A h \in Heads : row[h].status = "running" => pc \in Working /\ mine = h
    /\ pc \in Working => row[mine].status = "running"

\* What the coroutine holds as its result is what its row says, once it is written.
ToldInv ==
    /\ pc = "finish" => result \in Results \cup {"superseded"}
    /\ pc \in Telling \cup {"return"} =>
           row[mine].status = result /\ result \in Results \cup {"superseded"}
    /\ pc \in Telling => result \in Results
    /\ pc = "sync" => result \in {"success", "failure"}
    /\ pc = "save" => result = "failure"
    /\ pc = "idle" => result = "none" /\ ~failed

\* A row is marked after the platform has its status, and unmarked before the
\* platform is told anything else.
PublishedInv ==
    /\ \A h \in Heads : row[h].published =>
           remote[h] = row[h].status /\ row[h].status # "running"
    /\ pc \in {"publish", "mark"} => ~row[mine].published
    /\ pc = "mark" => remote[mine] = result

\* The commands run in their order: those that passed come first.
Passed(k) == \A i \in Step : steps[mine][i] = "success" <=> i <= k
StepsInv ==
    /\ \A h \in Heads :
        /\ row[h].status = "success" => \A i \in Step : steps[h][i] = "success"
        /\ row[h].status = "failure" => \E i \in Step : steps[h][i] = "failure"
        /\ row[h].status # "running" =>
              \A i \in Step : steps[h][i] \notin {"pending", "running"}
    /\ pc \in {"checkout", "announce", "start", "steps"} => \E k \in 0..NSteps : Passed(k)
    /\ pc = "finish" /\ result = "success" => \A i \in Step : steps[mine][i] = "success"
    /\ pc = "finish" /\ result = "failure" => \E i \in Step : steps[mine][i] = "failure"

\* At most one comment has a row, and none when one is about to be saved.
OneComment ==
    /\ \A g, k \in Rows : g = k
    /\ pc = "save" => Rows = {}

Quiet == faults + crashes + replays = 0

\* Without faults, crashes and replays the queue holds the generations in their
\* order, and those that are closed were before it.
OrderInv ==
    Quiet =>
        /\ \A i, j \in DOMAIN queue : i < j => queue[i].gen < queue[j].gen
        /\ \A i \in DOMAIN queue : queue[i].gen <= gen
        /\ \A e \in closed : e.gen <= gen
        /\ \A e \in closed, i \in DOMAIN queue : e.gen < queue[i].gen
        /\ \A h \in Heads : row[h].status # "error"
        /\ ~failed /\ result # "error"

\* What the coroutine has done about the comment when it returns, and what is left
\* of that while the generation is the newest.
CommentInv ==
    Quiet =>
        /\ pc = "return" /\ result = "failure" => Rows # {}
        /\ pc = "return" /\ result = "success" => cur.gen < gen \/ Rows = {}
        /\ \A e \in closed : e.gen = gen =>
              /\ e.outcome = "failure" => Rows # {}
              /\ e.outcome = "success" => Rows = {}

\* An event that was let through had a row that passed.
Outcomes == [head : Heads, gen : Gens, outcome : Statuses]
GateInv ==
    /\ closed \subseteq Outcomes
    /\ \A e \in closed : e.outcome = "success" => row[e.head].status = "success"

IInv ==
    /\ Types /\ RowInv /\ ToldInv /\ PublishedInv /\ StepsInv
    /\ OneComment /\ OrderInv /\ CommentInv /\ GateInv

-----------------------------------------------------------------------------
(* The queue.                                                               *)

\* The first event of a queue is an event, with an index.
LEMMA FirstEvent ==
    ASSUME NEW q \in Seq(Events), q # <<>>
    PROVE  /\ Head(q) \in Events /\ Head(q) = q[1] /\ Len(q) \in Nat \ {0}
           /\ DOMAIN q = 1..Len(q)
BY HeadTailProperties, EmptySeq

\* What a scan or a replay appends leaves the events before it where they are.
LEMMA Appended ==
    ASSUME NEW q \in Seq(Events), NEW e \in Events
    PROVE  /\ Append(q, e) \in Seq(Events) /\ Append(q, e) # <<>>
           /\ DOMAIN q = 1..Len(q) /\ Len(q) \in Nat
           /\ DOMAIN Append(q, e) = 1..Len(q) + 1
           /\ \A i \in 1..Len(q) : Append(q, e)[i] = q[i]
           /\ Append(q, e)[Len(q) + 1] = e
           /\ q # <<>> => Head(Append(q, e)) = Head(q)
BY AppendProperties, HeadTailAppend

\* An event that is charged for its attempt stays what it is.
LEMMA ChargedFirst ==
    ASSUME queue \in Seq(Events), queue # <<>>, cur.left > 0, PreflightAssumption
    PROVE  /\ Charged \in Seq(Events) /\ Charged # <<>>
           /\ DOMAIN Charged = DOMAIN queue
           /\ \A i \in DOMAIN queue : Charged[i].gen = queue[i].gen
           /\ Head(Charged).head = mine /\ Head(Charged).gen = cur.gen
           /\ Head(Charged).left < MaxAttempts
<1>1. cur \in Events /\ cur = queue[1] /\ Len(queue) \in Nat \ {0} /\ DOMAIN queue = 1..Len(queue)
    BY FirstEvent DEF cur
<1>2. [queue[1] EXCEPT !.left = @ - 1] \in Events
    BY <1>1, PreflightAssumption DEF Events
<1>3. Charged = [queue EXCEPT ![1] = [queue[1] EXCEPT !.left = @ - 1]]
    BY DEF Charged
<1>4. Charged \in Seq(Events) /\ Len(Charged) = Len(queue) /\ DOMAIN Charged = DOMAIN queue
    BY <1>1, <1>2, <1>3, ElementOfSeq, IsASeq, ExceptSeq
<1>5. Charged # <<>> /\ Head(Charged) = Charged[1]
    BY <1>1, <1>4, EmptySeq, FirstEvent
<1>6. /\ Charged[1] = [queue[1] EXCEPT !.left = @ - 1]
      /\ \A i \in DOMAIN queue : i # 1 => Charged[i] = queue[i]
    BY <1>1, <1>3
<1>7. /\ Charged[1].gen = queue[1].gen /\ Charged[1].head = queue[1].head
      /\ Charged[1].left = queue[1].left - 1
    BY <1>1, <1>6 DEF Events
<1>8. queue[1].left - 1 < MaxAttempts
    BY <1>1, PreflightAssumption DEF Events
<1>9. \A i \in DOMAIN queue : Charged[i].gen = queue[i].gen
    BY <1>6, <1>7
<1>10. /\ Head(Charged).head = mine /\ Head(Charged).gen = cur.gen
       /\ Head(Charged).left < MaxAttempts
    BY <1>1, <1>5, <1>7, <1>8 DEF mine
<1> QED
    BY <1>4, <1>5, <1>9, <1>10

\* The event that is through leaves the others where they are.
LEMMA Rest ==
    ASSUME NEW q \in Seq(Events), q # <<>>
    PROVE  /\ Tail(q) \in Seq(Events) /\ DOMAIN q = 1..Len(q) /\ Len(q) \in Nat \ {0}
           /\ DOMAIN Tail(q) = 1..Len(q) - 1
           /\ \A i \in 1..Len(q) - 1 : Tail(q)[i] = q[i + 1]
BY HeadTailProperties, FirstEvent

-----------------------------------------------------------------------------
(* Types.                                                                   *)

\* The named parts of the types give the type invariant of Preflight.
LEMMA TypesTypeOK == Types => TypeOK
<1> SUFFICES ASSUME Types PROVE TypeOK
    OBVIOUS
<1>1. queue \in Seq(Events)
    BY DEF Types, CoroutineType
<1>2. \A i \in DOMAIN queue : queue[i] \in Events
    BY <1>1
<1> QED
    BY <1>2, Zenon DEF Events, Types, TypeOK, PlatformType, RowsType, CoroutineType,
        PreflightRuns

\* While the coroutine works, or may begin, its event is one of the queue.
LEMMA MineType ==
    ASSUME CoroutineType, queue # <<>>
    PROVE  cur \in Events /\ mine \in Heads /\ cur.gen \in Gens /\ cur.left \in 0..MaxAttempts
<1>1. cur \in Events
    BY FirstEvent DEF CoroutineType, cur
<1> QED
    BY <1>1 DEF mine, Events

\* What begin_preflight_run makes of a row is a row with one attempt more, or the first.
LEMMA ReservationType ==
    ASSUME NEW r \in PreflightRuns
    PROVE  /\ Reservation(r) \in PreflightRuns
           /\ Reservation(r) # r =>
                 /\ r.status \in {"none", "error"} /\ Reservation(r).status = "running"
                 /\ ~Reservation(r).published
<1>1. CASE r.status = "none"
  <2>1. Reservation(r) = [status |-> "running", attempts |-> 1, published |-> FALSE]
    BY <1>1 DEF Reservation
  <2>2. 1 \in 0..MaxAttempts
    BY PreflightAssumption
  <2> QED
    BY <1>1, <2>1, <2>2 DEF PreflightRuns, Statuses
<1>2. CASE r.status = "error" /\ r.attempts < MaxAttempts
  <2>1. r.attempts + 1 \in 0..MaxAttempts
    BY <1>2, PreflightAssumption DEF PreflightRuns
  <2>2. ~(r.attempts >= MaxAttempts)
    BY <1>2, PreflightAssumption DEF PreflightRuns
  <2>3. Reservation(r) = [status |-> "running", attempts |-> r.attempts + 1, published |-> FALSE]
    BY <1>2, <2>2 DEF Reservation
  <2> QED
    BY <1>2, <2>1, <2>3 DEF PreflightRuns, Statuses
<1>3. CASE r.status = "error" /\ r.attempts >= MaxAttempts
  <2>1. ~(r.attempts < MaxAttempts)
    BY <1>3, PreflightAssumption DEF PreflightRuns
  <2>2. Reservation(r) \in
            {r, [status |-> "running", attempts |-> 1, published |-> FALSE]}
    BY <1>3, <2>1 DEF Reservation
  <2>3. 1 \in 0..MaxAttempts
    BY PreflightAssumption
  <2>4. [status |-> "running", attempts |-> 1, published |-> FALSE] \in PreflightRuns
    BY <2>3 DEF PreflightRuns, Statuses
  <2>5. CASE Reservation(r) = r
    BY <2>5
  <2>6. CASE Reservation(r) = [status |-> "running", attempts |-> 1, published |-> FALSE]
    BY <1>3, <2>4, <2>6
  <2> QED
    BY <2>2, <2>5, <2>6
<1>4. CASE r.status \notin {"none", "error"}
    BY <1>4 DEF Reservation
<1>5. r.status = "error" => r.attempts < MaxAttempts \/ r.attempts >= MaxAttempts
    BY PreflightAssumption DEF PreflightRuns
<1> QED
    BY <1>1, <1>2, <1>3, <1>4, <1>5

\* The first of the commands that are not through follows those that passed.
LEMMA NextCommand ==
    ASSUME PreflightAssumption, NEW k \in 0..NSteps, Passed(k)
    PROVE  IF k = NSteps THEN Next1 = 0 ELSE Next1 = k + 1 /\ k + 1 \in Step
<1>1. CASE k = NSteps
  <2>1. \A i \in Step : steps[mine][i] = "success"
    BY <1>1 DEF Passed, Step
  <2> QED
    BY <1>1, <2>1 DEF Next1
<1>2. CASE k # NSteps
  <2>1. k + 1 \in Step /\ steps[mine][k + 1] # "success"
    BY <1>2, PreflightAssumption DEF Passed, Step
  <2>2. \A j \in 1..(k + 1) - 1 : steps[mine][j] = "success"
    BY <1>2, PreflightAssumption DEF Passed, Step
  <2>3. \A i \in Step : steps[mine][i] # "success"
                        /\ (\A j \in 1..i - 1 : steps[mine][j] = "success") => i = k + 1
    BY <2>1, PreflightAssumption DEF Passed, Step
  <2>4. Next1 = CHOOSE i \in Step : /\ steps[mine][i] # "success"
                                    /\ \A j \in 1..i - 1 : steps[mine][j] = "success"
    BY <2>1 DEF Next1
  <2> QED
    BY <1>2, <2>1, <2>2, <2>3, <2>4
<1> QED
    BY <1>1, <1>2

\* While there is at most one comment with a row, the oldest one is it.
LEMMA OldestRow ==
    ASSUME OneComment, Rows # {}
    PROVE  Oldest \in Rows
<1>1. PICK g \in Rows : TRUE
    OBVIOUS
<1>2. \A k \in Rows : g <= k
    BY <1>1, PreflightAssumption DEF OneComment, Rows, Gens
<1> QED
    BY <1>1, <1>2 DEF Oldest

\* A command that begins or ends leaves statuses of commands.
LEMMA StepSet ==
    ASSUME RowsType, CoroutineType, pc # "idle", NEW s \in StepStatuses
    PROVE  [steps EXCEPT ![mine][Next1] = s] \in [Heads -> [Step -> StepStatuses]]
<1>1. mine \in Heads
    BY MineType DEF CoroutineType
<1>2. [steps[mine] EXCEPT ![Next1] = s] \in [Step -> StepStatuses]
    BY <1>1 DEF RowsType
<1> QED
    BY <1>1, <1>2 DEF RowsType

\* A scan and a replay append an event.
LEMMA QueueAppended ==
    ASSUME Types, Scan \/ Replay
    PROVE  \E e \in Events : queue' = Append(queue, e)
<1> USE DEF Types
<1>1. CASE Scan
  <2>1. gen + 1 \in Gens
    BY <1>1, PreflightAssumption DEF Scan, CountInv, PlatformType, Gens
  <2>2. Event(head, gen + 1, FALSE) \in Events
    BY <2>1, PreflightAssumption DEF Event, Events, PlatformType
  <2> QED
    BY <1>1, <2>2 DEF Scan
<1>2. CASE Replay
  <2>1. PICK o \in observed : queue' = Append(queue, Event(o[1], o[2], TRUE))
    BY <1>2 DEF Replay
  <2>2. o[1] \in Heads /\ o[2] \in Gens
    BY <2>1 DEF PlatformType
  <2>3. Event(o[1], o[2], TRUE) \in Events
    BY <2>2, PreflightAssumption DEF Event, Events
  <2> QED
    BY <2>1, <2>3
<1> QED
    BY <1>1, <1>2

\* Each step keeps the types.
LEMMA TypesNext == Types /\ ToldInv /\ OneComment /\ [Next]_vars => Types'
<1> SUFFICES ASSUME Types, ToldInv, OneComment, [Next]_vars PROVE Types'
    OBVIOUS
<1> USE PreflightAssumption DEF Types
<1>50. queue # <<>> => cur \in Events /\ mine \in Heads /\ cur.gen \in Gens /\ cur.left \in 0..MaxAttempts
    BY MineType
<1>1. ASSUME NEW h \in Heads, Push(h) PROVE Types'
  <2>1. PlatformType'
    BY <1>1, <1>50 DEF Push, scans, coroutine, PlatformType, CoroutineType, CountInv, Gens,
        RemoteStates, Statuses, Verdicts
  <2>2. RowsType'
    BY <1>1, <1>50 DEF Push, scans, coroutine, RowsType, CoroutineType, StepStatuses,
        PreflightRuns, Statuses, Verdicts
  <2>3. CoroutineType'
    BY <1>1, <1>50 DEF Push, scans, coroutine, CoroutineType, RowsType, PreflightRuns,
        Places, Working, Telling, Statuses, Verdicts, cur
  <2>4. CountInv'
    BY <1>1, <1>50 DEF Push, scans, coroutine, CountInv, PlatformType, Gens
  <2> QED
    BY <2>1, <2>2, <2>3, <2>4 DEF Types
<1>2. CASE Scan
  <2>1. PlatformType'
    BY <1>2, <1>50 DEF Scan, platform, coroutine, bounds, PlatformType, CoroutineType,
        CountInv, Gens, RemoteStates, Statuses, Verdicts
  <2>2. RowsType'
    BY <1>2, <1>50 DEF Scan, platform, coroutine, bounds, RowsType, CoroutineType,
        StepStatuses, PreflightRuns, Statuses, Verdicts
  <2>3. CoroutineType'
    <3>1. queue \in Seq(Events)
      BY DEF CoroutineType
    <3>2. PICK e \in Events : queue' = Append(queue, e)
      BY <1>2, QueueAppended
    <3>3. queue' \in Seq(Events) /\ queue' # <<>> /\ (queue # <<>> => cur' = cur)
      BY <3>1, <3>2, Appended DEF cur
    <3> QED
      BY <1>2, <3>3 DEF Scan, coroutine, CoroutineType
  <2>4. CountInv'
    BY <1>2, <1>50 DEF Scan, platform, coroutine, bounds, CountInv, PlatformType, Gens
  <2> QED
    BY <2>1, <2>2, <2>3, <2>4 DEF Types
<1>3. CASE Replay
  <2>1. PlatformType'
    BY <1>3, <1>50 DEF Replay, platform, scans, coroutine, PlatformType, CoroutineType,
        CountInv, Gens, RemoteStates, Statuses, Verdicts
  <2>2. RowsType'
    BY <1>3, <1>50 DEF Replay, platform, scans, coroutine, RowsType, CoroutineType,
        StepStatuses, PreflightRuns, Statuses, Verdicts
  <2>3. CoroutineType'
    <3>1. queue \in Seq(Events)
      BY DEF CoroutineType
    <3>2. PICK e \in Events : queue' = Append(queue, e)
      BY <1>3, QueueAppended
    <3>3. queue' \in Seq(Events) /\ queue' # <<>> /\ (queue # <<>> => cur' = cur)
      BY <3>1, <3>2, Appended DEF cur
    <3> QED
      BY <1>3, <3>3 DEF Replay, coroutine, CoroutineType
  <2>4. CountInv'
    BY <1>3, <1>50 DEF Replay, platform, scans, coroutine, CountInv, PlatformType, Gens
  <2> QED
    BY <2>1, <2>2, <2>3, <2>4 DEF Types
<1>4. CASE Reuse
  <2>1. PlatformType'
    BY <1>4, <1>50 DEF Reuse, Begins, platform, scans, bounds, PlatformType, CoroutineType,
        CountInv, Gens, RemoteStates, Statuses, Verdicts
  <2>2. RowsType'
    BY <1>4, <1>50 DEF Reuse, Begins, platform, scans, bounds, RowsType, CoroutineType,
        StepStatuses, PreflightRuns, Statuses, Verdicts
  <2>3. CoroutineType'
    <3>1. queue # <<>> /\ cur.left > 0 /\ queue \in Seq(Events) /\ queue' = Charged
      BY <1>4 DEF Reuse, Begins, CoroutineType
    <3>2. queue' \in Seq(Events) /\ queue' # <<>> /\ cur'.left < MaxAttempts
      BY <3>1, ChargedFirst DEF cur
    <3>3. row[mine].status \in Statuses
      BY <3>1, <1>50 DEF RowsType, PreflightRuns
    <3> QED
      BY <1>4, <3>2, <3>3 DEF Reuse, CoroutineType, Places, Working, Telling, Statuses,
          Verdicts
  <2>4. CountInv'
    BY <1>4, <1>50 DEF Reuse, Begins, platform, scans, bounds, CountInv, PlatformType, Gens
  <2> QED
    BY <2>1, <2>2, <2>3, <2>4 DEF Types
<1>5. CASE Reserve
  <2>1. PlatformType'
    BY <1>5, <1>50 DEF Reserve, Begins, platform, scans, bounds, PlatformType,
        CoroutineType, CountInv, Gens, RemoteStates, Statuses, Verdicts
  <2>2. RowsType'
    <3>1. mine \in Heads /\ row[mine] \in PreflightRuns
      BY <1>5, <1>50 DEF Reserve, Begins, RowsType
    <3>2. Reservation(row[mine]) \in PreflightRuns
      BY <3>1, ReservationType
    <3> QED
      BY <1>5, <3>1, <3>2 DEF Reserve, RowsType
  <2>3. CoroutineType'
    <3>1. queue # <<>> /\ cur.left > 0 /\ queue \in Seq(Events) /\ queue' = Charged
      BY <1>5 DEF Reserve, Begins, CoroutineType
    <3>2. queue' \in Seq(Events) /\ queue' # <<>> /\ cur'.left < MaxAttempts
      BY <3>1, ChargedFirst DEF cur
    <3>3. row[mine].status \in Statuses
      BY <3>1, <1>50 DEF RowsType, PreflightRuns
    <3> QED
      BY <1>5, <3>2, <3>3 DEF Reserve, CoroutineType, Places, Working, Telling, Statuses,
          Verdicts
  <2>4. CountInv'
    BY <1>5, <1>50 DEF Reserve, Begins, platform, scans, bounds, CountInv, PlatformType,
        Gens
  <2> QED
    BY <2>1, <2>2, <2>3, <2>4 DEF Types
<1>6. CASE Exhausted
  <2>1. PlatformType'
    BY <1>6, <1>50 DEF Exhausted, Begins, platform, scans, bounds, PlatformType,
        CoroutineType, CountInv, Gens, RemoteStates, Statuses, Verdicts
  <2>2. RowsType'
    BY <1>6, <1>50 DEF Exhausted, Begins, platform, scans, bounds, RowsType, CoroutineType,
        StepStatuses, PreflightRuns, Statuses, Verdicts
  <2>3. CoroutineType'
    <3>1. queue # <<>> /\ cur.left > 0 /\ queue \in Seq(Events) /\ queue' = Charged
      BY <1>6 DEF Exhausted, Begins, CoroutineType
    <3>2. queue' \in Seq(Events) /\ queue' # <<>> /\ cur'.left < MaxAttempts
      BY <3>1, ChargedFirst DEF cur
    <3>3. row[mine].status \in Statuses
      BY <3>1, <1>50 DEF RowsType, PreflightRuns
    <3> QED
      BY <1>6, <3>2, <3>3 DEF Exhausted, CoroutineType, Places, Working, Telling, Statuses,
          Verdicts
  <2>4. CountInv'
    BY <1>6, <1>50 DEF Exhausted, Begins, platform, scans, bounds, CountInv, PlatformType,
        Gens
  <2> QED
    BY <2>1, <2>2, <2>3, <2>4 DEF Types
<1>7. CASE InitializeSteps
  <2>1. PlatformType'
    BY <1>7, <1>50 DEF InitializeSteps, platform, scans, bounds, PlatformType,
        CoroutineType, CountInv, Gens, RemoteStates, Statuses, Verdicts
  <2>2. RowsType'
    BY <1>7, <1>50 DEF InitializeSteps, platform, scans, bounds, RowsType, CoroutineType,
        StepStatuses, PreflightRuns, Statuses, Verdicts
  <2>3. CoroutineType'
    BY <1>7, <1>50 DEF InitializeSteps, platform, scans, bounds, CoroutineType, RowsType,
        PreflightRuns, Places, Working, Telling, Statuses, Verdicts, cur
  <2>4. CountInv'
    BY <1>7, <1>50 DEF InitializeSteps, platform, scans, bounds, CountInv, PlatformType,
        Gens
  <2> QED
    BY <2>1, <2>2, <2>3, <2>4 DEF Types
<1>8. CASE Checkout
  <2>1. PlatformType'
    BY <1>8, <1>50 DEF Checkout, Ends, Fault, scans, PlatformType, CoroutineType, CountInv,
        Gens, RemoteStates, Statuses, Verdicts
  <2>2. RowsType'
    BY <1>8, <1>50 DEF Checkout, Ends, Fault, scans, RowsType, CoroutineType, StepStatuses,
        PreflightRuns, Statuses, Verdicts
  <2>3. CoroutineType'
    BY <1>8, <1>50 DEF Checkout, Ends, Fault, scans, CoroutineType, RowsType,
        PreflightRuns, Places, Working, Telling, Statuses, Verdicts, cur
  <2>4. CountInv'
    BY <1>8, <1>50 DEF Checkout, Ends, Fault, scans, CountInv, PlatformType, Gens
  <2> QED
    BY <2>1, <2>2, <2>3, <2>4 DEF Types
<1>9. CASE AnnouncePending
  <2>1. PlatformType'
    BY <1>9, <1>50 DEF AnnouncePending, Post, PostFails, Ends, Fault, scans, PlatformType,
        CoroutineType, CountInv, Gens, RemoteStates, Statuses, Verdicts
  <2>2. RowsType'
    BY <1>9, <1>50 DEF AnnouncePending, Post, PostFails, Ends, Fault, scans, RowsType,
        CoroutineType, StepStatuses, PreflightRuns, Statuses, Verdicts
  <2>3. CoroutineType'
    BY <1>9, <1>50 DEF AnnouncePending, Post, PostFails, Ends, Fault, scans, CoroutineType,
        RowsType, PreflightRuns, Places, Working, Telling, Statuses, Verdicts, cur
  <2>4. CountInv'
    BY <1>9, <1>50 DEF AnnouncePending, Post, PostFails, Ends, Fault, scans, CountInv,
        PlatformType, Gens
  <2> QED
    BY <2>1, <2>2, <2>3, <2>4 DEF Types
<1>10. CASE AnnounceRunning
  <2>1. PlatformType'
    BY <1>10, <1>50 DEF AnnounceRunning, Post, PostFails, Ends, Fault, scans, PlatformType,
        CoroutineType, CountInv, Gens, RemoteStates, Statuses, Verdicts
  <2>2. RowsType'
    BY <1>10, <1>50 DEF AnnounceRunning, Post, PostFails, Ends, Fault, scans, RowsType,
        CoroutineType, StepStatuses, PreflightRuns, Statuses, Verdicts
  <2>3. CoroutineType'
    BY <1>10, <1>50 DEF AnnounceRunning, Post, PostFails, Ends, Fault, scans,
        CoroutineType, RowsType, PreflightRuns, Places, Working, Telling, Statuses,
        Verdicts, cur
  <2>4. CountInv'
    BY <1>10, <1>50 DEF AnnounceRunning, Post, PostFails, Ends, Fault, scans, CountInv,
        PlatformType, Gens
  <2> QED
    BY <2>1, <2>2, <2>3, <2>4 DEF Types
<1>11. CASE StepStarts
  <2>1. PlatformType'
    BY <1>11, <1>50 DEF StepStarts, SetStep, Ends, platform, scans, bounds, PlatformType,
        CoroutineType, CountInv, Gens, RemoteStates, Statuses, Verdicts
  <2>2. RowsType'
    <3>1. pc # "idle" /\ {"running", "failure"} \subseteq StepStatuses
      BY <1>11 DEF StepStarts, StepStatuses
    <3>2. \E s \in {"running", "failure"} : steps' = [steps EXCEPT ![mine][Next1] = s]
      BY <1>11 DEF StepStarts, SetStep
    <3>3. steps' \in [Heads -> [Step -> StepStatuses]]
      BY <3>1, <3>2, StepSet
    <3> QED
      BY <1>11, <3>3 DEF StepStarts, RowsType
  <2>3. CoroutineType'
    BY <1>11, <1>50 DEF StepStarts, SetStep, Ends, platform, scans, bounds, CoroutineType,
        RowsType, PreflightRuns, Places, Working, Telling, Statuses, Verdicts, cur
  <2>4. CountInv'
    BY <1>11, <1>50 DEF StepStarts, SetStep, Ends, platform, scans, bounds, CountInv,
        PlatformType, Gens
  <2> QED
    BY <2>1, <2>2, <2>3, <2>4 DEF Types
<1>12. CASE StepEnds
  <2>1. PlatformType'
    BY <1>12, <1>50 DEF StepEnds, SetStep, Ends, Fault, platform, scans, PlatformType,
        CoroutineType, CountInv, Gens, RemoteStates, Statuses, Verdicts
  <2>2. RowsType'
    <3>1. pc # "idle" /\ {"success", "failure", "error"} \subseteq StepStatuses
      BY <1>12 DEF StepEnds, StepStatuses
    <3>2. \E s \in {"success", "failure", "error"} : steps' = [steps EXCEPT ![mine][Next1] = s]
      BY <1>12 DEF StepEnds, SetStep
    <3>3. steps' \in [Heads -> [Step -> StepStatuses]]
      BY <3>1, <3>2, StepSet
    <3> QED
      BY <1>12, <3>3 DEF StepEnds, RowsType
  <2>3. CoroutineType'
    BY <1>12, <1>50 DEF StepEnds, SetStep, Ends, Fault, platform, scans, CoroutineType,
        RowsType, PreflightRuns, Places, Working, Telling, Statuses, Verdicts, cur
  <2>4. CountInv'
    BY SMTT(30), <1>12, <1>50 DEF StepEnds, SetStep, Ends, Fault, platform, scans, CountInv,
        PlatformType, Gens
  <2> QED
    BY <2>1, <2>2, <2>3, <2>4 DEF Types
<1>13. CASE AllStepsPassed
  <2>1. PlatformType'
    BY <1>13, <1>50 DEF AllStepsPassed, Ends, platform, scans, bounds, PlatformType,
        CoroutineType, CountInv, Gens, RemoteStates, Statuses, Verdicts
  <2>2. RowsType'
    BY <1>13, <1>50 DEF AllStepsPassed, Ends, platform, scans, bounds, RowsType,
        CoroutineType, StepStatuses, PreflightRuns, Statuses, Verdicts
  <2>3. CoroutineType'
    BY <1>13, <1>50 DEF AllStepsPassed, Ends, platform, scans, bounds, CoroutineType,
        RowsType, PreflightRuns, Places, Working, Telling, Statuses, Verdicts, cur
  <2>4. CountInv'
    BY <1>13, <1>50 DEF AllStepsPassed, Ends, platform, scans, bounds, CountInv,
        PlatformType, Gens
  <2> QED
    BY <2>1, <2>2, <2>3, <2>4 DEF Types
<1>14. CASE CleanupFails
  <2>1. PlatformType'
    BY <1>14, <1>50 DEF CleanupFails, Fault, platform, scans, PlatformType, CoroutineType,
        CountInv, Gens, RemoteStates, Statuses, Verdicts
  <2>2. RowsType'
    BY <1>14, <1>50 DEF CleanupFails, Fault, platform, scans, RowsType, CoroutineType,
        StepStatuses, PreflightRuns, Statuses, Verdicts
  <2>3. CoroutineType'
    BY <1>14, <1>50 DEF CleanupFails, Fault, platform, scans, CoroutineType, RowsType,
        PreflightRuns, Places, Working, Telling, Statuses, Verdicts, cur
  <2>4. CountInv'
    BY <1>14, <1>50 DEF CleanupFails, Fault, platform, scans, CountInv, PlatformType, Gens
  <2> QED
    BY <2>1, <2>2, <2>3, <2>4 DEF Types
<1>15. CASE Finish
  <2>1. PlatformType'
    BY <1>15, <1>50 DEF Finish, platform, scans, bounds, PlatformType, CoroutineType,
        CountInv, Gens, RemoteStates, Statuses, Verdicts
  <2>2. RowsType'
    BY ZenonT(30), <1>15, <1>50 DEF Finish, platform, scans, bounds, RowsType, CoroutineType,
        StepStatuses, PreflightRuns, Statuses, Verdicts, Settled
  <2>3. CoroutineType'
    BY <1>15, <1>50 DEF Finish, platform, scans, bounds, CoroutineType, RowsType,
        PreflightRuns, Places, Working, Telling, Statuses, Verdicts, cur
  <2>4. CountInv'
    BY <1>15, <1>50 DEF Finish, platform, scans, bounds, CountInv, PlatformType, Gens
  <2> QED
    BY <2>1, <2>2, <2>3, <2>4 DEF Types
<1>16. CASE PublishStatus
  <2>1. PlatformType'
    <3>1. result \in RemoteStates
      BY <1>16 DEF PublishStatus, ToldInv, Telling, Results, RemoteStates
    <3>2. remote' \in [Heads -> RemoteStates]
      BY <1>16, <3>1 DEF PublishStatus, Post, PostFails, PlatformType
    <3> QED
      BY <1>16, <3>2 DEF PublishStatus, scans, PlatformType
  <2>2. RowsType'
    BY <1>16, <1>50 DEF PublishStatus, Post, PostFails, Fault, scans, RowsType,
        CoroutineType, StepStatuses, PreflightRuns, Statuses, Verdicts
  <2>3. CoroutineType'
    BY <1>16, <1>50 DEF PublishStatus, Post, PostFails, Fault, scans, CoroutineType,
        RowsType, PreflightRuns, Places, Working, Telling, Statuses, Verdicts, cur
  <2>4. CountInv'
    BY <1>16, <1>50 DEF PublishStatus, Post, PostFails, Fault, scans, CountInv,
        PlatformType, Gens
  <2> QED
    BY <2>1, <2>2, <2>3, <2>4 DEF Types
<1>17. CASE MarkPublished
  <2>1. PlatformType'
    BY <1>17, <1>50 DEF MarkPublished, platform, scans, bounds, PlatformType,
        CoroutineType, CountInv, Gens, RemoteStates, Statuses, Verdicts
  <2>2. RowsType'
    BY <1>17, <1>50 DEF MarkPublished, platform, scans, bounds, RowsType, CoroutineType,
        StepStatuses, PreflightRuns, Statuses, Verdicts
  <2>3. CoroutineType'
    BY <1>17, <1>50 DEF MarkPublished, platform, scans, bounds, CoroutineType, RowsType,
        PreflightRuns, Places, Working, Telling, Statuses, Verdicts, cur
  <2>4. CountInv'
    BY <1>17, <1>50 DEF MarkPublished, platform, scans, bounds, CountInv, PlatformType, Gens
  <2> QED
    BY <2>1, <2>2, <2>3, <2>4 DEF Types
<1>18. CASE SkipComment
  <2>1. PlatformType'
    BY <1>18, <1>50 DEF SkipComment, platform, scans, bounds, PlatformType, CoroutineType,
        CountInv, Gens, RemoteStates, Statuses, Verdicts
  <2>2. RowsType'
    BY <1>18, <1>50 DEF SkipComment, platform, scans, bounds, RowsType, CoroutineType,
        StepStatuses, PreflightRuns, Statuses, Verdicts
  <2>3. CoroutineType'
    BY <1>18, <1>50 DEF SkipComment, platform, scans, bounds, CoroutineType, RowsType,
        PreflightRuns, Places, Working, Telling, Statuses, Verdicts, cur
  <2>4. CountInv'
    BY <1>18, <1>50 DEF SkipComment, platform, scans, bounds, CountInv, PlatformType, Gens
  <2> QED
    BY <2>1, <2>2, <2>3, <2>4 DEF Types
<1>19. CASE SyncComment
  <2>1. PlatformType'
    BY <1>19, <1>50 DEF SyncComment, platform, scans, bounds, PlatformType, CoroutineType,
        CountInv, Gens, RemoteStates, Statuses, Verdicts
  <2>2. RowsType'
    BY <1>19, <1>50 DEF SyncComment, platform, scans, bounds, RowsType, CoroutineType,
        StepStatuses, PreflightRuns, Statuses, Verdicts
  <2>3. CoroutineType'
    BY <1>19, <1>50 DEF SyncComment, platform, scans, bounds, CoroutineType, RowsType,
        PreflightRuns, Places, Working, Telling, Statuses, Verdicts, cur
  <2>4. CountInv'
    BY <1>19, <1>50 DEF SyncComment, platform, scans, bounds, CountInv, PlatformType, Gens
  <2> QED
    BY <2>1, <2>2, <2>3, <2>4 DEF Types
<1>20. CASE DeleteRemote
  <2>1. PlatformType'
    <3>1. Oldest \in Gens
      BY <1>20, OldestRow DEF DeleteRemote, Rows
    <3>2. gone' \subseteq Gens
      BY <1>20, <3>1 DEF DeleteRemote, PlatformType
    <3> QED
      BY <1>20, <3>2 DEF DeleteRemote, platform, scans, PlatformType
  <2>2. RowsType'
    BY <1>20, <1>50 DEF DeleteRemote, Fault, platform, scans, RowsType, CoroutineType,
        StepStatuses, PreflightRuns, Statuses, Verdicts
  <2>3. CoroutineType'
    BY <1>20, <1>50 DEF DeleteRemote, Fault, platform, scans, CoroutineType, RowsType,
        PreflightRuns, Places, Working, Telling, Statuses, Verdicts, cur
  <2>4. CountInv'
    BY <1>20, <1>50 DEF DeleteRemote, Fault, platform, scans, CountInv, PlatformType, Gens
  <2> QED
    BY <2>1, <2>2, <2>3, <2>4 DEF Types
<1>21. CASE DeleteRow
  <2>1. PlatformType'
    BY <1>21, <1>50 DEF DeleteRow, platform, scans, bounds, PlatformType, CoroutineType,
        CountInv, Gens, RemoteStates, Statuses, Verdicts
  <2>2. RowsType'
    BY <1>21, <1>50 DEF DeleteRow, platform, scans, bounds, RowsType, CoroutineType,
        StepStatuses, PreflightRuns, Statuses, Verdicts
  <2>3. CoroutineType'
    BY <1>21, <1>50 DEF DeleteRow, platform, scans, bounds, CoroutineType, RowsType,
        PreflightRuns, Places, Working, Telling, Statuses, Verdicts, cur
  <2>4. CountInv'
    BY <1>21, <1>50 DEF DeleteRow, platform, scans, bounds, CountInv, PlatformType, Gens
  <2> QED
    BY <2>1, <2>2, <2>3, <2>4 DEF Types
<1>22. CASE CommentsDeleted
  <2>1. PlatformType'
    BY <1>22, <1>50 DEF CommentsDeleted, platform, scans, bounds, PlatformType,
        CoroutineType, CountInv, Gens, RemoteStates, Statuses, Verdicts
  <2>2. RowsType'
    BY <1>22, <1>50 DEF CommentsDeleted, platform, scans, bounds, RowsType, CoroutineType,
        StepStatuses, PreflightRuns, Statuses, Verdicts
  <2>3. CoroutineType'
    BY <1>22, <1>50 DEF CommentsDeleted, platform, scans, bounds, CoroutineType, RowsType,
        PreflightRuns, Places, Working, Telling, Statuses, Verdicts, cur
  <2>4. CountInv'
    BY <1>22, <1>50 DEF CommentsDeleted, platform, scans, bounds, CountInv, PlatformType,
        Gens
  <2> QED
    BY <2>1, <2>2, <2>3, <2>4 DEF Types
<1>23. CASE CreateComment
  <2>1. PlatformType'
    BY <1>23, <1>50 DEF CreateComment, Fault, scans, PlatformType, CoroutineType, CountInv,
        Gens, RemoteStates, Statuses, Verdicts
  <2>2. RowsType'
    BY <1>23, <1>50 DEF CreateComment, Fault, scans, RowsType, CoroutineType, StepStatuses,
        PreflightRuns, Statuses, Verdicts
  <2>3. CoroutineType'
    BY <1>23, <1>50 DEF CreateComment, Fault, scans, CoroutineType, RowsType,
        PreflightRuns, Places, Working, Telling, Statuses, Verdicts, cur
  <2>4. CountInv'
    BY <1>23, <1>50 DEF CreateComment, Fault, scans, CountInv, PlatformType, Gens
  <2> QED
    BY <2>1, <2>2, <2>3, <2>4 DEF Types
<1>24. CASE SaveComment
  <2>1. PlatformType'
    BY <1>24, <1>50 DEF SaveComment, platform, scans, bounds, PlatformType, CoroutineType,
        CountInv, Gens, RemoteStates, Statuses, Verdicts
  <2>2. RowsType'
    BY <1>24, <1>50 DEF SaveComment, platform, scans, bounds, RowsType, CoroutineType,
        StepStatuses, PreflightRuns, Statuses, Verdicts
  <2>3. CoroutineType'
    BY <1>24, <1>50 DEF SaveComment, platform, scans, bounds, CoroutineType, RowsType,
        PreflightRuns, Places, Working, Telling, Statuses, Verdicts, cur
  <2>4. CountInv'
    BY <1>24, <1>50 DEF SaveComment, platform, scans, bounds, CountInv, PlatformType, Gens
  <2> QED
    BY <2>1, <2>2, <2>3, <2>4 DEF Types
<1>25. CASE Return
  <2>1. PlatformType'
    BY <1>25, <1>50 DEF Return, Close, platform, scans, bounds, PlatformType,
        CoroutineType, CountInv, Gens, RemoteStates, Statuses, Verdicts
  <2>2. RowsType'
    BY <1>25, <1>50 DEF Return, Close, platform, scans, bounds, RowsType, CoroutineType,
        StepStatuses, PreflightRuns, Statuses, Verdicts
  <2>3. CoroutineType'
    <3>1. queue # <<>> /\ queue \in Seq(Events)
      BY <1>25 DEF Return, CoroutineType
    <3>2. Tail(queue) \in Seq(Events)
      BY <3>1, HeadTailProperties
    <3>3. queue' \in Seq(Events)
      BY <1>25, <3>1, <3>2 DEF Return, Close
    <3>4. pc' = "idle" /\ result' = "none" /\ target' = FALSE /\ fresh' = FALSE /\ failed' = FALSE
      BY <1>25 DEF Return
    <3> QED
      BY <3>3, <3>4 DEF CoroutineType, Places, Statuses
  <2>4. CountInv'
    BY <1>25, <1>50 DEF Return, Close, platform, scans, bounds, CountInv, PlatformType, Gens
  <2> QED
    BY <2>1, <2>2, <2>3, <2>4 DEF Types
<1>26. CASE Crash
  <2>1. PlatformType'
    BY <1>26, <1>50 DEF Crash, Close, scans, PlatformType, CoroutineType, CountInv, Gens,
        RemoteStates, Statuses, Verdicts
  <2>2. RowsType'
    BY <1>26, <1>50 DEF Crash, Close, scans, RowsType, CoroutineType, StepStatuses,
        PreflightRuns, Statuses, Verdicts, Settled, Recovered
  <2>3. CoroutineType'
    <3>1. queue # <<>> /\ queue \in Seq(Events)
      BY <1>26 DEF Crash, CoroutineType
    <3>2. Tail(queue) \in Seq(Events)
      BY <3>1, HeadTailProperties
    <3>3. queue' \in Seq(Events)
      BY <1>26, <3>1, <3>2 DEF Crash, Close
    <3>4. pc' = "idle" /\ result' = "none" /\ target' = FALSE /\ fresh' = FALSE /\ failed' = FALSE
      BY <1>26 DEF Crash
    <3> QED
      BY <3>3, <3>4 DEF CoroutineType, Places, Statuses
  <2>4. CountInv'
    BY <1>26, <1>50 DEF Crash, Close, scans, CountInv, PlatformType, Gens
  <2> QED
    BY <2>1, <2>2, <2>3, <2>4 DEF Types
<1>27. CASE UNCHANGED vars
  <2>1. PlatformType'
    BY <1>27, <1>50 DEF vars, platform, scans, coroutine, bounds, PlatformType,
        CoroutineType, CountInv, Gens, RemoteStates, Statuses, Verdicts
  <2>2. RowsType'
    BY <1>27, <1>50 DEF vars, platform, scans, coroutine, bounds, RowsType, CoroutineType,
        StepStatuses, PreflightRuns, Statuses, Verdicts
  <2>3. CoroutineType'
    BY <1>27, <1>50 DEF vars, platform, scans, coroutine, bounds, CoroutineType, RowsType,
        PreflightRuns, Places, Working, Telling, Statuses, Verdicts, cur
  <2>4. CountInv'
    BY <1>27, <1>50 DEF vars, platform, scans, coroutine, bounds, CountInv, PlatformType,
        Gens
  <2> QED
    BY <2>1, <2>2, <2>3, <2>4 DEF Types
<1> QED
    BY <1>1, <1>2, <1>3, <1>4, <1>5, <1>6, <1>7, <1>8, <1>9, <1>10, <1>11, <1>12, <1>13,
        <1>14, <1>15, <1>16, <1>17, <1>18, <1>19, <1>20, <1>21, <1>22, <1>23, <1>24, <1>25,
        <1>26, <1>27 DEF Next, Ensure

\* Until the coroutine is through, its event is the first of the queue.
LEMMA MineStays ==
    ASSUME Types, [Next]_vars, pc' # "idle"
    PROVE  queue # <<>> /\ mine' = mine /\ cur'.gen = cur.gen
<1> USE DEF Types, CoroutineType
<1>1. CASE UNCHANGED <<queue, pc>>
    BY <1>1 DEF mine, cur
<1>2. ASSUME pc # "idle", queue' = queue PROVE mine' = mine /\ cur'.gen = cur.gen
    BY <1>2 DEF mine, cur
<1>3. CASE Scan \/ Replay
  <2>1. PICK e \in Events : queue' = Append(queue, e)
    BY <1>3, QueueAppended
  <2>2. pc' = pc /\ queue # <<>>
    BY <1>3 DEF Scan, Replay, coroutine
  <2>3. cur' = cur
    BY <2>1, <2>2, Appended DEF cur
  <2> QED
    BY <2>2, <2>3 DEF mine
<1>4. CASE Reuse \/ Reserve \/ Exhausted
  <2>1. queue # <<>> /\ cur.left > 0 /\ queue' = Charged
    BY <1>4 DEF Reuse, Reserve, Exhausted, Begins
  <2> QED
    BY <2>1, ChargedFirst, PreflightAssumption DEF mine, cur
<1>5. ASSUME NEW h \in Heads, Push(h) PROVE UNCHANGED <<queue, pc>>
    BY <1>5 DEF Push, coroutine
<1>6. CASE Ensure /\ ~Reuse /\ ~Reserve /\ ~Exhausted
    BY <1>2, <1>6 DEF Ensure, InitializeSteps, Checkout, AnnouncePending, AnnounceRunning,
        StepStarts, StepEnds, AllStepsPassed, CleanupFails, Finish, PublishStatus,
        MarkPublished, SkipComment, SyncComment, DeleteRemote, DeleteRow, CommentsDeleted,
        CreateComment, SaveComment, Return
<1>7. CASE Crash
    BY <1>7 DEF Crash
<1>8. CASE UNCHANGED vars
    BY <1>1, <1>8 DEF vars, coroutine
<1> QED
    BY <1>1, <1>3, <1>4, <1>5, <1>6, <1>7, <1>8 DEF Next, Ensure

\* Each step keeps what the rows, the platform and the coroutine's hands agree on.
LEMMA NextRecords == IInv /\ [Next]_vars => (RowInv /\ ToldInv /\ PublishedInv)'
<1> SUFFICES ASSUME IInv, [Next]_vars PROVE (RowInv /\ ToldInv /\ PublishedInv)'
    OBVIOUS
<1> USE PreflightAssumption DEF IInv, Types
<1>50. queue # <<>> => mine \in Heads /\ cur.gen \in Gens /\ cur.left \in 0..MaxAttempts
    BY MineType
<1>51. pc' # "idle" => queue # <<>> /\ mine' = mine
    BY MineStays
<1>52. pc # "idle" => queue # <<>>
    BY DEF CoroutineType
<1>1. ASSUME NEW h \in Heads, Push(h) PROVE (RowInv /\ ToldInv /\ PublishedInv)'
  <2>1. RowInv'
    BY <1>1, <1>50, <1>51, <1>52 DEF Push, scans, coroutine, RowInv, ToldInv, RowsType,
        PreflightRuns, CoroutineType, Working, Telling, Results
  <2>2. ToldInv'
    BY <1>1, <1>50, <1>51, <1>52 DEF Push, scans, coroutine, ToldInv, RowInv, RowsType,
        PreflightRuns, CoroutineType, Working, Telling, Results
  <2>3. PublishedInv'
    BY <1>1, <1>50, <1>51, <1>52 DEF Push, scans, coroutine, PublishedInv, RowInv, ToldInv,
        PlatformType, RowsType, PreflightRuns, CoroutineType, Working, Telling, Results
  <2> QED
    BY <2>1, <2>2, <2>3
<1>2. CASE Scan
  <2>1. RowInv'
    BY <1>2, <1>50, <1>51, <1>52 DEF Scan, platform, coroutine, bounds, RowInv, ToldInv,
        RowsType, PreflightRuns, CoroutineType, Working, Telling, Results
  <2>2. ToldInv'
    BY <1>2, <1>50, <1>51, <1>52 DEF Scan, platform, coroutine, bounds, ToldInv, RowInv,
        RowsType, PreflightRuns, CoroutineType, Working, Telling, Results
  <2>3. PublishedInv'
    BY <1>2, <1>50, <1>51, <1>52 DEF Scan, platform, coroutine, bounds, PublishedInv,
        RowInv, ToldInv, PlatformType, RowsType, PreflightRuns, CoroutineType, Working,
        Telling, Results
  <2> QED
    BY <2>1, <2>2, <2>3
<1>3. CASE Replay
  <2>1. RowInv'
    BY <1>3, <1>50, <1>51, <1>52 DEF Replay, platform, scans, coroutine, RowInv, ToldInv,
        RowsType, PreflightRuns, CoroutineType, Working, Telling, Results
  <2>2. ToldInv'
    BY <1>3, <1>50, <1>51, <1>52 DEF Replay, platform, scans, coroutine, ToldInv, RowInv,
        RowsType, PreflightRuns, CoroutineType, Working, Telling, Results
  <2>3. PublishedInv'
    BY <1>3, <1>50, <1>51, <1>52 DEF Replay, platform, scans, coroutine, PublishedInv,
        RowInv, ToldInv, PlatformType, RowsType, PreflightRuns, CoroutineType, Working,
        Telling, Results
  <2> QED
    BY <2>1, <2>2, <2>3
<1>4. CASE Reuse
  <2>1. RowInv'
    BY <1>4, <1>50, <1>51, <1>52 DEF Reuse, Begins, platform, scans, bounds, RowInv,
        ToldInv, RowsType, PreflightRuns, CoroutineType, Working, Telling, Results, Verdicts
  <2>2. ToldInv'
    BY <1>4, <1>50, <1>51, <1>52 DEF Reuse, Begins, platform, scans, bounds, ToldInv,
        RowInv, RowsType, PreflightRuns, CoroutineType, Working, Telling, Results, Verdicts
  <2>3. PublishedInv'
    BY <1>4, <1>50, <1>51, <1>52 DEF Reuse, Begins, platform, scans, bounds, PublishedInv,
        RowInv, ToldInv, PlatformType, RowsType, PreflightRuns, CoroutineType, Working,
        Telling, Results, Verdicts
  <2> QED
    BY <2>1, <2>2, <2>3
<1>5. CASE Reserve
  <2>1. RowInv'
    <3>1. mine \in Heads /\ row[mine] \in PreflightRuns /\ Reservation(row[mine]) # row[mine]
      BY <1>5, <1>50 DEF Reserve, Begins, RowsType
    <3>2. /\ Reservation(row[mine]).status = "running" /\ ~Reservation(row[mine]).published
          /\ row[mine].status \in {"none", "error"}
      BY <3>1, ReservationType
    <3>3. /\ row'[mine] = Reservation(row[mine]) /\ \A h \in Heads \ {mine} : row'[h] = row[h]
          /\ mine' = mine /\ pc = "idle" /\ pc' = "prepare"
      BY <1>5, <1>51, <3>1 DEF Reserve, Begins, RowsType
    <3> QED
      BY <1>5, <3>1, <3>2, <3>3 DEF Reserve, RowInv, Working
  <2>2. ToldInv'
    BY <1>5, <1>50, <1>51, <1>52 DEF Reserve, Begins, platform, scans, bounds, ToldInv,
        RowInv, RowsType, PreflightRuns, CoroutineType, Working, Telling, Results, Verdicts
  <2>3. PublishedInv'
    <3>1. mine \in Heads /\ row[mine] \in PreflightRuns /\ Reservation(row[mine]) # row[mine]
      BY <1>5, <1>50 DEF Reserve, Begins, RowsType
    <3>2. /\ Reservation(row[mine]).status = "running" /\ ~Reservation(row[mine]).published
          /\ row[mine].status \in {"none", "error"}
      BY <3>1, ReservationType
    <3>3. /\ row'[mine] = Reservation(row[mine]) /\ \A h \in Heads \ {mine} : row'[h] = row[h]
          /\ mine' = mine /\ pc = "idle" /\ pc' = "prepare"
      BY <1>5, <1>51, <3>1 DEF Reserve, Begins, RowsType
    <3> QED
      BY <1>5, <3>1, <3>2, <3>3 DEF Reserve, platform, PublishedInv
  <2> QED
    BY <2>1, <2>2, <2>3
<1>6. CASE Exhausted
  <2>1. RowInv'
    BY <1>6, <1>50, <1>51, <1>52 DEF Exhausted, Begins, platform, scans, bounds, RowInv,
        ToldInv, RowsType, PreflightRuns, CoroutineType, Working, Telling, Results
  <2>2. ToldInv'
    BY <1>6, <1>50, <1>51, <1>52 DEF Exhausted, Begins, platform, scans, bounds, ToldInv,
        RowInv, RowsType, PreflightRuns, CoroutineType, Working, Telling, Results
  <2>3. PublishedInv'
    BY <1>6, <1>50, <1>51, <1>52 DEF Exhausted, Begins, platform, scans, bounds,
        PublishedInv, RowInv, ToldInv, PlatformType, RowsType, PreflightRuns,
        CoroutineType, Working, Telling, Results
  <2> QED
    BY <2>1, <2>2, <2>3
<1>7. CASE InitializeSteps
  <2>1. RowInv'
    BY <1>7, <1>50, <1>51, <1>52 DEF InitializeSteps, platform, scans, bounds, RowInv,
        ToldInv, RowsType, PreflightRuns, CoroutineType, Working, Telling, Results
  <2>2. ToldInv'
    BY <1>7, <1>50, <1>51, <1>52 DEF InitializeSteps, platform, scans, bounds, ToldInv,
        RowInv, RowsType, PreflightRuns, CoroutineType, Working, Telling, Results
  <2>3. PublishedInv'
    BY <1>7, <1>50, <1>51, <1>52 DEF InitializeSteps, platform, scans, bounds,
        PublishedInv, RowInv, ToldInv, PlatformType, RowsType, PreflightRuns,
        CoroutineType, Working, Telling, Results
  <2> QED
    BY <2>1, <2>2, <2>3
<1>8. CASE Checkout
  <2>1. RowInv'
    BY <1>8, <1>50, <1>51, <1>52 DEF Checkout, Ends, Fault, scans, RowInv, ToldInv,
        RowsType, PreflightRuns, CoroutineType, Working, Telling, Results
  <2>2. ToldInv'
    BY <1>8, <1>50, <1>51, <1>52 DEF Checkout, Ends, Fault, scans, ToldInv, RowInv,
        RowsType, PreflightRuns, CoroutineType, Working, Telling, Results
  <2>3. PublishedInv'
    BY <1>8, <1>50, <1>51, <1>52 DEF Checkout, Ends, Fault, scans, PublishedInv, RowInv,
        ToldInv, PlatformType, RowsType, PreflightRuns, CoroutineType, Working, Telling,
        Results
  <2> QED
    BY <2>1, <2>2, <2>3
<1>9. CASE AnnouncePending
  <2>1. RowInv'
    BY <1>9, <1>50, <1>51, <1>52 DEF AnnouncePending, Post, PostFails, Ends, Fault, scans,
        RowInv, ToldInv, RowsType, PreflightRuns, CoroutineType, Working, Telling, Results
  <2>2. ToldInv'
    BY <1>9, <1>50, <1>51, <1>52 DEF AnnouncePending, Post, PostFails, Ends, Fault, scans,
        ToldInv, RowInv, RowsType, PreflightRuns, CoroutineType, Working, Telling, Results
  <2>3. PublishedInv'
    BY <1>9, <1>50, <1>51, <1>52 DEF AnnouncePending, Post, PostFails, Ends, Fault, scans,
        PublishedInv, RowInv, ToldInv, PlatformType, RowsType, PreflightRuns,
        CoroutineType, Working, Telling, Results
  <2> QED
    BY <2>1, <2>2, <2>3
<1>10. CASE AnnounceRunning
  <2>1. RowInv'
    BY <1>10, <1>50, <1>51, <1>52 DEF AnnounceRunning, Post, PostFails, Ends, Fault, scans,
        RowInv, ToldInv, RowsType, PreflightRuns, CoroutineType, Working, Telling, Results
  <2>2. ToldInv'
    BY <1>10, <1>50, <1>51, <1>52 DEF AnnounceRunning, Post, PostFails, Ends, Fault, scans,
        ToldInv, RowInv, RowsType, PreflightRuns, CoroutineType, Working, Telling, Results
  <2>3. PublishedInv'
    BY <1>10, <1>50, <1>51, <1>52 DEF AnnounceRunning, Post, PostFails, Ends, Fault, scans,
        PublishedInv, RowInv, ToldInv, PlatformType, RowsType, PreflightRuns,
        CoroutineType, Working, Telling, Results
  <2> QED
    BY <2>1, <2>2, <2>3
<1>11. CASE StepStarts
  <2>1. RowInv'
    BY <1>11, <1>50, <1>51, <1>52 DEF StepStarts, SetStep, Ends, platform, scans, bounds,
        RowInv, ToldInv, RowsType, PreflightRuns, CoroutineType, Working, Telling, Results
  <2>2. ToldInv'
    BY <1>11, <1>50, <1>51, <1>52 DEF StepStarts, SetStep, Ends, platform, scans, bounds,
        ToldInv, RowInv, RowsType, PreflightRuns, CoroutineType, Working, Telling, Results
  <2>3. PublishedInv'
    BY <1>11, <1>50, <1>51, <1>52 DEF StepStarts, SetStep, Ends, platform, scans, bounds,
        PublishedInv, RowInv, ToldInv, PlatformType, RowsType, PreflightRuns,
        CoroutineType, Working, Telling, Results
  <2> QED
    BY <2>1, <2>2, <2>3
<1>12. CASE StepEnds
  <2>1. RowInv'
    BY <1>12, <1>50, <1>51, <1>52 DEF StepEnds, SetStep, Ends, Fault, platform, scans,
        RowInv, ToldInv, RowsType, PreflightRuns, CoroutineType, Working, Telling, Results
  <2>2. ToldInv'
    BY <1>12, <1>50, <1>51, <1>52 DEF StepEnds, SetStep, Ends, Fault, platform, scans,
        ToldInv, RowInv, RowsType, PreflightRuns, CoroutineType, Working, Telling, Results
  <2>3. PublishedInv'
    BY <1>12, <1>50, <1>51, <1>52 DEF StepEnds, SetStep, Ends, Fault, platform, scans,
        PublishedInv, RowInv, ToldInv, PlatformType, RowsType, PreflightRuns,
        CoroutineType, Working, Telling, Results
  <2> QED
    BY <2>1, <2>2, <2>3
<1>13. CASE AllStepsPassed
  <2>1. RowInv'
    BY <1>13, <1>50, <1>51, <1>52 DEF AllStepsPassed, Ends, platform, scans, bounds,
        RowInv, ToldInv, RowsType, PreflightRuns, CoroutineType, Working, Telling, Results
  <2>2. ToldInv'
    BY <1>13, <1>50, <1>51, <1>52 DEF AllStepsPassed, Ends, platform, scans, bounds,
        ToldInv, RowInv, RowsType, PreflightRuns, CoroutineType, Working, Telling, Results
  <2>3. PublishedInv'
    BY <1>13, <1>50, <1>51, <1>52 DEF AllStepsPassed, Ends, platform, scans, bounds,
        PublishedInv, RowInv, ToldInv, PlatformType, RowsType, PreflightRuns,
        CoroutineType, Working, Telling, Results
  <2> QED
    BY <2>1, <2>2, <2>3
<1>14. CASE CleanupFails
  <2>1. RowInv'
    BY <1>14, <1>50, <1>51, <1>52 DEF CleanupFails, Fault, platform, scans, RowInv,
        ToldInv, RowsType, PreflightRuns, CoroutineType, Working, Telling, Results
  <2>2. ToldInv'
    BY <1>14, <1>50, <1>51, <1>52 DEF CleanupFails, Fault, platform, scans, ToldInv,
        RowInv, RowsType, PreflightRuns, CoroutineType, Working, Telling, Results
  <2>3. PublishedInv'
    BY <1>14, <1>50, <1>51, <1>52 DEF CleanupFails, Fault, platform, scans, PublishedInv,
        RowInv, ToldInv, PlatformType, RowsType, PreflightRuns, CoroutineType, Working,
        Telling, Results
  <2> QED
    BY <2>1, <2>2, <2>3
<1>15. CASE Finish
  <2>1. RowInv'
    BY <1>15, <1>50, <1>51, <1>52 DEF Finish, platform, scans, bounds, RowInv, ToldInv,
        RowsType, PreflightRuns, CoroutineType, Working, Telling, Results
  <2>2. ToldInv'
    BY <1>15, <1>50, <1>51, <1>52 DEF Finish, platform, scans, bounds, ToldInv, RowInv,
        RowsType, PreflightRuns, CoroutineType, Working, Telling, Results
  <2>3. PublishedInv'
    BY <1>15, <1>50, <1>51, <1>52 DEF Finish, platform, scans, bounds, PublishedInv,
        RowInv, ToldInv, PlatformType, RowsType, PreflightRuns, CoroutineType, Working,
        Telling, Results
  <2> QED
    BY <2>1, <2>2, <2>3
<1>16. CASE PublishStatus
  <2>1. RowInv'
    BY <1>16, <1>50, <1>51, <1>52 DEF PublishStatus, Post, PostFails, Fault, scans, RowInv,
        ToldInv, RowsType, PreflightRuns, CoroutineType, Working, Telling, Results
  <2>2. ToldInv'
    BY <1>16, <1>50, <1>51, <1>52 DEF PublishStatus, Post, PostFails, Fault, scans,
        ToldInv, RowInv, RowsType, PreflightRuns, CoroutineType, Working, Telling, Results
  <2>3. PublishedInv'
    BY <1>16, <1>50, <1>51, <1>52 DEF PublishStatus, Post, PostFails, Fault, scans,
        PublishedInv, RowInv, ToldInv, PlatformType, RowsType, PreflightRuns,
        CoroutineType, Working, Telling, Results
  <2> QED
    BY <2>1, <2>2, <2>3
<1>17. CASE MarkPublished
  <2>1. RowInv'
    BY <1>17, <1>50, <1>51, <1>52 DEF MarkPublished, platform, scans, bounds, RowInv,
        ToldInv, RowsType, PreflightRuns, CoroutineType, Working, Telling, Results
  <2>2. ToldInv'
    BY <1>17, <1>50, <1>51, <1>52 DEF MarkPublished, platform, scans, bounds, ToldInv,
        RowInv, RowsType, PreflightRuns, CoroutineType, Working, Telling, Results
  <2>3. PublishedInv'
    BY <1>17, <1>50, <1>51, <1>52 DEF MarkPublished, platform, scans, bounds, PublishedInv,
        RowInv, ToldInv, PlatformType, RowsType, PreflightRuns, CoroutineType, Working,
        Telling, Results
  <2> QED
    BY <2>1, <2>2, <2>3
<1>18. CASE SkipComment
  <2>1. RowInv'
    BY <1>18, <1>50, <1>51, <1>52 DEF SkipComment, platform, scans, bounds, RowInv,
        ToldInv, RowsType, PreflightRuns, CoroutineType, Working, Telling, Results
  <2>2. ToldInv'
    BY <1>18, <1>50, <1>51, <1>52 DEF SkipComment, platform, scans, bounds, ToldInv,
        RowInv, CommentStays, RowsType, PreflightRuns, CoroutineType, Working, Telling,
        Results
  <2>3. PublishedInv'
    BY <1>18, <1>50, <1>51, <1>52 DEF SkipComment, platform, scans, bounds, PublishedInv,
        RowInv, ToldInv, PlatformType, RowsType, PreflightRuns, CoroutineType, Working,
        Telling, Results
  <2> QED
    BY <2>1, <2>2, <2>3
<1>19. CASE SyncComment
  <2>1. RowInv'
    BY <1>19, <1>50, <1>51, <1>52 DEF SyncComment, platform, scans, bounds, RowInv,
        ToldInv, RowsType, PreflightRuns, CoroutineType, Working, Telling, Results
  <2>2. ToldInv'
    BY <1>19, <1>50, <1>51, <1>52 DEF SyncComment, platform, scans, bounds, ToldInv,
        RowInv, CommentStays, RowsType, PreflightRuns, CoroutineType, Working, Telling,
        Results
  <2>3. PublishedInv'
    BY <1>19, <1>50, <1>51, <1>52 DEF SyncComment, platform, scans, bounds, PublishedInv,
        RowInv, ToldInv, PlatformType, RowsType, PreflightRuns, CoroutineType, Working,
        Telling, Results
  <2> QED
    BY <2>1, <2>2, <2>3
<1>20. CASE DeleteRemote
  <2>1. RowInv'
    BY <1>20, <1>50, <1>51, <1>52 DEF DeleteRemote, Fault, platform, scans, RowInv,
        ToldInv, RowsType, PreflightRuns, CoroutineType, Working, Telling, Results
  <2>2. ToldInv'
    BY <1>20, <1>50, <1>51, <1>52 DEF DeleteRemote, Fault, platform, scans, ToldInv,
        RowInv, RowsType, PreflightRuns, CoroutineType, Working, Telling, Results
  <2>3. PublishedInv'
    BY <1>20, <1>50, <1>51, <1>52 DEF DeleteRemote, Fault, platform, scans, PublishedInv,
        RowInv, ToldInv, PlatformType, RowsType, PreflightRuns, CoroutineType, Working,
        Telling, Results
  <2> QED
    BY <2>1, <2>2, <2>3
<1>21. CASE DeleteRow
  <2>1. RowInv'
    BY <1>21, <1>50, <1>51, <1>52 DEF DeleteRow, platform, scans, bounds, RowInv, ToldInv,
        RowsType, PreflightRuns, CoroutineType, Working, Telling, Results
  <2>2. ToldInv'
    BY <1>21, <1>50, <1>51, <1>52 DEF DeleteRow, platform, scans, bounds, ToldInv, RowInv,
        RowsType, PreflightRuns, CoroutineType, Working, Telling, Results
  <2>3. PublishedInv'
    BY <1>21, <1>50, <1>51, <1>52 DEF DeleteRow, platform, scans, bounds, PublishedInv,
        RowInv, ToldInv, PlatformType, RowsType, PreflightRuns, CoroutineType, Working,
        Telling, Results
  <2> QED
    BY <2>1, <2>2, <2>3
<1>22. CASE CommentsDeleted
  <2>1. RowInv'
    BY <1>22, <1>50, <1>51, <1>52 DEF CommentsDeleted, platform, scans, bounds, RowInv,
        ToldInv, RowsType, PreflightRuns, CoroutineType, Working, Telling, Results
  <2>2. ToldInv'
    BY <1>22, <1>50, <1>51, <1>52 DEF CommentsDeleted, platform, scans, bounds, ToldInv,
        RowInv, RowsType, PreflightRuns, CoroutineType, Working, Telling, Results
  <2>3. PublishedInv'
    BY <1>22, <1>50, <1>51, <1>52 DEF CommentsDeleted, platform, scans, bounds,
        PublishedInv, RowInv, ToldInv, PlatformType, RowsType, PreflightRuns,
        CoroutineType, Working, Telling, Results
  <2> QED
    BY <2>1, <2>2, <2>3
<1>23. CASE CreateComment
  <2>1. RowInv'
    BY <1>23, <1>50, <1>51, <1>52 DEF CreateComment, Fault, scans, RowInv, ToldInv,
        RowsType, PreflightRuns, CoroutineType, Working, Telling, Results
  <2>2. ToldInv'
    BY <1>23, <1>50, <1>51, <1>52 DEF CreateComment, Fault, scans, ToldInv, RowInv,
        RowsType, PreflightRuns, CoroutineType, Working, Telling, Results
  <2>3. PublishedInv'
    BY <1>23, <1>50, <1>51, <1>52 DEF CreateComment, Fault, scans, PublishedInv, RowInv,
        ToldInv, PlatformType, RowsType, PreflightRuns, CoroutineType, Working, Telling,
        Results
  <2> QED
    BY <2>1, <2>2, <2>3
<1>24. CASE SaveComment
  <2>1. RowInv'
    BY <1>24, <1>50, <1>51, <1>52 DEF SaveComment, platform, scans, bounds, RowInv,
        ToldInv, RowsType, PreflightRuns, CoroutineType, Working, Telling, Results
  <2>2. ToldInv'
    BY <1>24, <1>50, <1>51, <1>52 DEF SaveComment, platform, scans, bounds, ToldInv,
        RowInv, RowsType, PreflightRuns, CoroutineType, Working, Telling, Results
  <2>3. PublishedInv'
    BY <1>24, <1>50, <1>51, <1>52 DEF SaveComment, platform, scans, bounds, PublishedInv,
        RowInv, ToldInv, PlatformType, RowsType, PreflightRuns, CoroutineType, Working,
        Telling, Results
  <2> QED
    BY <2>1, <2>2, <2>3
<1>25. CASE Return
  <2>1. RowInv'
    BY <1>25, <1>50, <1>51, <1>52 DEF Return, Close, platform, scans, bounds, RowInv,
        ToldInv, RowsType, PreflightRuns, CoroutineType, Working, Telling, Results
  <2>2. ToldInv'
    BY <1>25, <1>50, <1>51, <1>52 DEF Return, Close, platform, scans, bounds, ToldInv,
        RowInv, RowsType, PreflightRuns, CoroutineType, Working, Telling, Results
  <2>3. PublishedInv'
    BY <1>25, <1>50, <1>51, <1>52 DEF Return, Close, platform, scans, bounds, PublishedInv,
        RowInv, ToldInv, PlatformType, RowsType, PreflightRuns, CoroutineType, Working,
        Telling, Results
  <2> QED
    BY <2>1, <2>2, <2>3
<1>26. CASE Crash
  <2>1. RowInv'
    BY <1>26, <1>50, <1>51, <1>52 DEF Crash, Close, scans, RowInv, ToldInv, RowsType,
        PreflightRuns, CoroutineType, Working, Telling, Results, Recovered
  <2>2. ToldInv'
    BY <1>26, <1>50, <1>51, <1>52 DEF Crash, Close, scans, ToldInv, RowInv, RowsType,
        PreflightRuns, CoroutineType, Working, Telling, Results
  <2>3. PublishedInv'
    BY SMTT(30), <1>26, <1>50, <1>51, <1>52 DEF Crash, Close, scans, PublishedInv, RowInv, ToldInv,
        PlatformType, Recovered, RowsType, PreflightRuns, CoroutineType, Working, Telling,
        Results
  <2> QED
    BY <2>1, <2>2, <2>3
<1>27. CASE UNCHANGED vars
  <2>1. RowInv'
    BY <1>27, <1>50, <1>51, <1>52 DEF vars, platform, scans, coroutine, bounds, RowInv,
        ToldInv, RowsType, PreflightRuns, CoroutineType, Working, Telling, Results
  <2>2. ToldInv'
    BY <1>27, <1>50, <1>51, <1>52 DEF vars, platform, scans, coroutine, bounds, ToldInv,
        RowInv, RowsType, PreflightRuns, CoroutineType, Working, Telling, Results
  <2>3. PublishedInv'
    BY <1>27, <1>50, <1>51, <1>52 DEF vars, platform, scans, coroutine, bounds,
        PublishedInv, RowInv, ToldInv, PlatformType, RowsType, PreflightRuns,
        CoroutineType, Working, Telling, Results
  <2> QED
    BY <2>1, <2>2, <2>3
<1> QED
    BY <1>1, <1>2, <1>3, <1>4, <1>5, <1>6, <1>7, <1>8, <1>9, <1>10, <1>11, <1>12, <1>13,
        <1>14, <1>15, <1>16, <1>17, <1>18, <1>19, <1>20, <1>21, <1>22, <1>23, <1>24, <1>25,
        <1>26, <1>27 DEF Next, Ensure

\* Each step keeps the steps in their order, and a verdict backed by them.
LEMMA NextSteps == IInv /\ [Next]_vars => StepsInv'
<1> SUFFICES ASSUME IInv, [Next]_vars PROVE StepsInv'
    OBVIOUS
<1> USE PreflightAssumption DEF IInv, Types
<1>50. queue # <<>> => mine \in Heads /\ cur.gen \in Gens /\ cur.left \in 0..MaxAttempts
    BY MineType
<1>51. pc' # "idle" => queue # <<>> /\ mine' = mine
    BY MineStays
<1>52. pc # "idle" => queue # <<>>
    BY DEF CoroutineType
<1>1. ASSUME NEW h \in Heads, Push(h) PROVE StepsInv'
    BY <1>1, <1>50, <1>51, <1>52 DEF Push, scans, coroutine, StepsInv, RowInv, ToldInv,
        Passed, StepStatuses, RowsType, PreflightRuns, CoroutineType, Working, Telling,
        Results
<1>2. CASE Scan
    BY <1>2, <1>50, <1>51, <1>52 DEF Scan, platform, coroutine, bounds, StepsInv, RowInv,
        ToldInv, Passed, StepStatuses, RowsType, PreflightRuns, CoroutineType, Working,
        Telling, Results
<1>3. CASE Replay
    BY <1>3, <1>50, <1>51, <1>52 DEF Replay, platform, scans, coroutine, StepsInv, RowInv,
        ToldInv, Passed, StepStatuses, RowsType, PreflightRuns, CoroutineType, Working,
        Telling, Results
<1>4. CASE Reuse
    BY <1>4, <1>50, <1>51, <1>52 DEF Reuse, Begins, platform, scans, bounds, StepsInv,
        RowInv, ToldInv, Passed, StepStatuses, RowsType, PreflightRuns, CoroutineType,
        Working, Telling, Results, Verdicts
<1>5. CASE Reserve
  <2>1. mine \in Heads /\ row[mine] \in PreflightRuns /\ Reservation(row[mine]) # row[mine]
    BY <1>5, <1>50 DEF Reserve, Begins, RowsType
  <2>2. Reservation(row[mine]).status = "running"
    BY <2>1, ReservationType
  <2>3. /\ row'[mine] = Reservation(row[mine]) /\ \A h \in Heads \ {mine} : row'[h] = row[h]
        /\ pc' = "prepare" /\ steps' = steps
    BY <1>5, <2>1 DEF Reserve, RowsType
  <2> QED
    BY <2>1, <2>2, <2>3 DEF StepsInv
<1>6. CASE Exhausted
    BY <1>6, <1>50, <1>51, <1>52 DEF Exhausted, Begins, platform, scans, bounds, StepsInv,
        RowInv, ToldInv, Passed, StepStatuses, RowsType, PreflightRuns, CoroutineType,
        Working, Telling, Results
<1>7. CASE InitializeSteps
  <2>1. mine \in Heads /\ mine' = mine /\ row' = row /\ pc = "prepare" /\ pc' = "checkout"
    BY <1>7, <1>50, <1>51, <1>52 DEF InitializeSteps
  <2>2. /\ steps'[mine] = [i \in Step |-> "pending"]
        /\ \A h \in Heads \ {mine} : steps'[h] = steps[h]
    BY <1>7, <2>1 DEF InitializeSteps, RowsType
  <2>3. row[mine].status = "running"
    BY <2>1 DEF RowInv, Working
  <2>4. Passed(0)'
    BY <2>1, <2>2 DEF Passed, Step
  <2>5. 0 \in 0..NSteps
    OBVIOUS
  <2> QED
    BY <2>1, <2>2, <2>3, <2>4, <2>5 DEF StepsInv
<1>8. CASE Checkout
    BY <1>8, <1>50, <1>51, <1>52 DEF Checkout, Ends, Fault, scans, StepsInv, RowInv,
        ToldInv, Passed, StepStatuses, RowsType, PreflightRuns, CoroutineType, Working,
        Telling, Results
<1>9. CASE AnnouncePending
    BY <1>9, <1>50, <1>51, <1>52 DEF AnnouncePending, Post, PostFails, Ends, Fault, scans,
        StepsInv, RowInv, ToldInv, Passed, StepStatuses, RowsType, PreflightRuns,
        CoroutineType, Working, Telling, Results
<1>10. CASE AnnounceRunning
    BY <1>10, <1>50, <1>51, <1>52 DEF AnnounceRunning, Post, PostFails, Ends, Fault, scans,
        StepsInv, RowInv, ToldInv, Passed, StepStatuses, RowsType, PreflightRuns,
        CoroutineType, Working, Telling, Results
<1>11. CASE StepStarts
  <2>1. mine \in Heads /\ mine' = mine /\ row' = row /\ pc = "steps" /\ queue' = queue
    BY <1>11, <1>50, <1>52 DEF StepStarts, mine, cur
  <2>2. PICK k \in 0..NSteps : Passed(k)
    BY <2>1 DEF StepsInv
  <2>3. IF k = NSteps THEN Next1 = 0 ELSE Next1 = k + 1 /\ k + 1 \in Step
    BY <2>2, NextCommand
  <2>4. k # NSteps /\ Next1 = k + 1 /\ k + 1 \in Step
    BY <1>11, <2>3 DEF StepStarts
  <2>5. steps[mine] \in [Step -> StepStatuses] /\ row[mine].status = "running"
    BY <2>1 DEF RowsType, RowInv, Working
  <2>6. CASE SetStep("running") /\ UNCHANGED <<pc, result>>
    <3>1. /\ steps'[mine] = [steps[mine] EXCEPT ![k + 1] = "running"]
          /\ \A h \in Heads \ {mine} : steps'[h] = steps[h]
      BY <2>6, <2>1, <2>4 DEF SetStep, RowsType
    <3>2. \A i \in Step : steps'[mine][i] = IF i = k + 1 THEN "running" ELSE steps[mine][i]
      BY <3>1, <2>4, <2>5
    <3>3. Passed(k)'
      BY <3>2, <2>1, <2>2, <2>4 DEF Passed, Step
    <3> QED
      BY <2>6, <2>1, <2>4, <2>5, <3>1, <3>2, <3>3 DEF StepsInv, RowInv, Working
  <2>7. CASE SetStep("failure") /\ Ends("failure")
    <3>1. /\ steps'[mine] = [steps[mine] EXCEPT ![k + 1] = "failure"]
          /\ \A h \in Heads \ {mine} : steps'[h] = steps[h]
      BY <2>7, <2>1, <2>4 DEF SetStep, RowsType
    <3>2. \A i \in Step : steps'[mine][i] = IF i = k + 1 THEN "failure" ELSE steps[mine][i]
      BY <3>1, <2>4, <2>5
    <3> QED
      BY <2>7, <2>1, <2>4, <2>5, <3>1, <3>2 DEF StepsInv, RowInv, Working, Ends
  <2> QED
    BY <1>11, <2>6, <2>7 DEF StepStarts
<1>12. CASE StepEnds
  <2>1. mine \in Heads /\ mine' = mine /\ row' = row /\ pc = "steps" /\ queue' = queue
    BY <1>12, <1>50, <1>52 DEF StepEnds, mine, cur
  <2>2. PICK k \in 0..NSteps : Passed(k)
    BY <2>1 DEF StepsInv
  <2>3. IF k = NSteps THEN Next1 = 0 ELSE Next1 = k + 1 /\ k + 1 \in Step
    BY <2>2, NextCommand
  <2>4. k # NSteps /\ Next1 = k + 1 /\ k + 1 \in Step
    BY <1>12, <2>3 DEF StepEnds
  <2>5. steps[mine] \in [Step -> StepStatuses] /\ row[mine].status = "running"
    BY <2>1 DEF RowsType, RowInv, Working
  <2>6. CASE SetStep("success") /\ UNCHANGED <<pc, result>>
    <3>1. /\ steps'[mine] = [steps[mine] EXCEPT ![k + 1] = "success"]
          /\ \A h \in Heads \ {mine} : steps'[h] = steps[h]
      BY <2>6, <2>1, <2>4 DEF SetStep, RowsType
    <3>2. \A i \in Step : steps'[mine][i] = IF i = k + 1 THEN "success" ELSE steps[mine][i]
      BY <3>1, <2>4, <2>5
    <3>3. Passed(k + 1)' /\ k + 1 \in 0..NSteps
      BY <3>2, <2>1, <2>2, <2>4 DEF Passed, Step
    <3> QED
      BY <2>6, <2>1, <2>4, <2>5, <3>1, <3>2, <3>3 DEF StepsInv, RowInv, Working
  <2>7. CASE SetStep("failure") /\ Ends("failure")
    <3>1. /\ steps'[mine] = [steps[mine] EXCEPT ![k + 1] = "failure"]
          /\ \A h \in Heads \ {mine} : steps'[h] = steps[h]
      BY <2>7, <2>1, <2>4 DEF SetStep, RowsType
    <3>2. \A i \in Step : steps'[mine][i] = IF i = k + 1 THEN "failure" ELSE steps[mine][i]
      BY <3>1, <2>4, <2>5
    <3> QED
      BY <2>7, <2>1, <2>4, <2>5, <3>1, <3>2 DEF StepsInv, RowInv, Working, Ends
  <2>8. CASE SetStep("error") /\ Ends("error")
    <3>1. /\ steps'[mine] = [steps[mine] EXCEPT ![k + 1] = "error"]
          /\ \A h \in Heads \ {mine} : steps'[h] = steps[h]
      BY <2>8, <2>1, <2>4 DEF SetStep, RowsType
    <3>2. \A i \in Step : steps'[mine][i] = IF i = k + 1 THEN "error" ELSE steps[mine][i]
      BY <3>1, <2>4, <2>5
    <3> QED
      BY <2>8, <2>1, <2>4, <2>5, <3>1, <3>2 DEF StepsInv, RowInv, Working, Ends
  <2> QED
    BY <1>12, <2>6, <2>7, <2>8 DEF StepEnds
<1>13. CASE AllStepsPassed
  <2>1. mine \in Heads /\ mine' = mine /\ row' = row /\ pc = "steps" /\ queue' = queue
    BY <1>13, <1>50, <1>52 DEF AllStepsPassed, mine, cur
  <2>2. PICK k \in 0..NSteps : Passed(k)
    BY <2>1 DEF StepsInv
  <2>3. IF k = NSteps THEN Next1 = 0 ELSE Next1 = k + 1 /\ k + 1 \in Step
    BY <2>2, NextCommand
  <2>4. k = NSteps
    BY <1>13, <2>3, PreflightAssumption DEF AllStepsPassed, Step
  <2>5. \A i \in Step : steps[mine][i] = "success"
    BY <2>2, <2>4 DEF Passed, Step
  <2> QED
    BY <1>13, <2>1, <2>5 DEF AllStepsPassed, StepsInv, Ends
<1>14. CASE CleanupFails
    BY <1>14, <1>50, <1>51, <1>52 DEF CleanupFails, Fault, platform, scans, StepsInv,
        RowInv, ToldInv, Passed, StepStatuses, RowsType, PreflightRuns, CoroutineType,
        Working, Telling, Results
<1>15. CASE Finish
    BY <1>15, <1>50, <1>51, <1>52 DEF Finish, platform, scans, bounds, StepsInv, RowInv,
        ToldInv, Passed, Settled, StepStatuses, RowsType, PreflightRuns, CoroutineType,
        Working, Telling, Results
<1>16. CASE PublishStatus
    BY <1>16, <1>50, <1>51, <1>52 DEF PublishStatus, Post, PostFails, Fault, scans,
        StepsInv, RowInv, ToldInv, Passed, StepStatuses, RowsType, PreflightRuns,
        CoroutineType, Working, Telling, Results
<1>17. CASE MarkPublished
    BY <1>17, <1>50, <1>51, <1>52 DEF MarkPublished, platform, scans, bounds, StepsInv,
        RowInv, ToldInv, Passed, StepStatuses, RowsType, PreflightRuns, CoroutineType,
        Working, Telling, Results
<1>18. CASE SkipComment
    BY <1>18, <1>50, <1>51, <1>52 DEF SkipComment, platform, scans, bounds, StepsInv,
        RowInv, ToldInv, Passed, StepStatuses, RowsType, PreflightRuns, CoroutineType,
        Working, Telling, Results
<1>19. CASE SyncComment
    BY <1>19, <1>50, <1>51, <1>52 DEF SyncComment, platform, scans, bounds, StepsInv,
        RowInv, ToldInv, Passed, StepStatuses, RowsType, PreflightRuns, CoroutineType,
        Working, Telling, Results
<1>20. CASE DeleteRemote
    BY <1>20, <1>50, <1>51, <1>52 DEF DeleteRemote, Fault, platform, scans, StepsInv,
        RowInv, ToldInv, Passed, StepStatuses, RowsType, PreflightRuns, CoroutineType,
        Working, Telling, Results
<1>21. CASE DeleteRow
    BY <1>21, <1>50, <1>51, <1>52 DEF DeleteRow, platform, scans, bounds, StepsInv, RowInv,
        ToldInv, Passed, StepStatuses, RowsType, PreflightRuns, CoroutineType, Working,
        Telling, Results
<1>22. CASE CommentsDeleted
    BY <1>22, <1>50, <1>51, <1>52 DEF CommentsDeleted, platform, scans, bounds, StepsInv,
        RowInv, ToldInv, Passed, StepStatuses, RowsType, PreflightRuns, CoroutineType,
        Working, Telling, Results
<1>23. CASE CreateComment
    BY <1>23, <1>50, <1>51, <1>52 DEF CreateComment, Fault, scans, StepsInv, RowInv,
        ToldInv, Passed, StepStatuses, RowsType, PreflightRuns, CoroutineType, Working,
        Telling, Results
<1>24. CASE SaveComment
    BY <1>24, <1>50, <1>51, <1>52 DEF SaveComment, platform, scans, bounds, StepsInv,
        RowInv, ToldInv, Passed, StepStatuses, RowsType, PreflightRuns, CoroutineType,
        Working, Telling, Results
<1>25. CASE Return
    BY <1>25, <1>50, <1>51, <1>52 DEF Return, Close, platform, scans, bounds, StepsInv,
        RowInv, ToldInv, Passed, StepStatuses, RowsType, PreflightRuns, CoroutineType,
        Working, Telling, Results
<1>26. CASE Crash
    BY <1>26, <1>50, <1>51, <1>52 DEF Crash, Close, scans, StepsInv, RowInv, ToldInv,
        Passed, Settled, Recovered, StepStatuses, RowsType, PreflightRuns, CoroutineType,
        Working, Telling, Results
<1>27. CASE UNCHANGED vars
    BY <1>27, <1>50, <1>51, <1>52 DEF vars, platform, scans, coroutine, bounds, StepsInv,
        RowInv, ToldInv, Passed, StepStatuses, RowsType, PreflightRuns, CoroutineType,
        Working, Telling, Results
<1> QED
    BY <1>1, <1>2, <1>3, <1>4, <1>5, <1>6, <1>7, <1>8, <1>9, <1>10, <1>11, <1>12, <1>13,
        <1>14, <1>15, <1>16, <1>17, <1>18, <1>19, <1>20, <1>21, <1>22, <1>23, <1>24, <1>25,
        <1>26, <1>27 DEF Next, Ensure

\* Each step keeps at most one comment, and Agents started behind a success only.
LEMMA NextGate == IInv /\ [Next]_vars => (OneComment /\ GateInv)'
<1> SUFFICES ASSUME IInv, [Next]_vars PROVE (OneComment /\ GateInv)'
    OBVIOUS
<1> USE PreflightAssumption DEF IInv, Types
<1>50. queue # <<>> => mine \in Heads /\ cur.gen \in Gens /\ cur.left \in 0..MaxAttempts
    BY MineType
<1>51. pc' # "idle" => queue # <<>> /\ mine' = mine
    BY MineStays
<1>52. pc # "idle" => queue # <<>>
    BY DEF CoroutineType
<1>1. ASSUME NEW h \in Heads, Push(h) PROVE (OneComment /\ GateInv)'
  <2>1. OneComment'
    BY <1>1, <1>50, <1>51, <1>52 DEF Push, scans, coroutine, OneComment, Rows,
        PlatformType, RowsType, PreflightRuns, CoroutineType
  <2>2. GateInv'
    BY <1>1, <1>50, <1>51, <1>52 DEF Push, scans, coroutine, GateInv, Outcomes, ToldInv,
        Statuses, RowInv, RowsType, PreflightRuns, CoroutineType, Working, Telling,
        Results, Verdicts
  <2> QED
    BY <2>1, <2>2
<1>2. CASE Scan
  <2>1. OneComment'
    BY <1>2, <1>50, <1>51, <1>52 DEF Scan, platform, coroutine, bounds, OneComment, Rows,
        PlatformType, RowsType, PreflightRuns, CoroutineType
  <2>2. GateInv'
    BY <1>2, <1>50, <1>51, <1>52 DEF Scan, platform, coroutine, bounds, GateInv, Outcomes,
        ToldInv, Statuses, RowInv, RowsType, PreflightRuns, CoroutineType, Working,
        Telling, Results, Verdicts
  <2> QED
    BY <2>1, <2>2
<1>3. CASE Replay
  <2>1. OneComment'
    BY <1>3, <1>50, <1>51, <1>52 DEF Replay, platform, scans, coroutine, OneComment, Rows,
        PlatformType, RowsType, PreflightRuns, CoroutineType
  <2>2. GateInv'
    BY <1>3, <1>50, <1>51, <1>52 DEF Replay, platform, scans, coroutine, GateInv, Outcomes,
        ToldInv, Statuses, RowInv, RowsType, PreflightRuns, CoroutineType, Working,
        Telling, Results, Verdicts
  <2> QED
    BY <2>1, <2>2
<1>4. CASE Reuse
  <2>1. OneComment'
    BY <1>4, <1>50, <1>51, <1>52 DEF Reuse, Begins, platform, scans, bounds, OneComment,
        Rows, PlatformType, RowsType, PreflightRuns, CoroutineType, Verdicts
  <2>2. GateInv'
    BY <1>4, <1>50, <1>51, <1>52 DEF Reuse, Begins, platform, scans, bounds, GateInv,
        Outcomes, ToldInv, Statuses, RowInv, RowsType, PreflightRuns, CoroutineType,
        Working, Telling, Results, Verdicts
  <2> QED
    BY <2>1, <2>2
<1>5. CASE Reserve
  <2>1. OneComment'
    BY <1>5, <1>50, <1>51, <1>52 DEF Reserve, Begins, platform, scans, bounds, OneComment,
        Rows, PlatformType, RowsType, PreflightRuns, CoroutineType, Verdicts
  <2>2. GateInv'
    BY <1>5, <1>50, <1>51, <1>52 DEF Reserve, Begins, platform, scans, bounds, GateInv,
        Outcomes, ToldInv, Statuses, RowInv, RowsType, PreflightRuns, CoroutineType,
        Working, Telling, Results, Verdicts
  <2> QED
    BY <2>1, <2>2
<1>6. CASE Exhausted
  <2>1. OneComment'
    BY <1>6, <1>50, <1>51, <1>52 DEF Exhausted, Begins, platform, scans, bounds,
        OneComment, Rows, PlatformType, RowsType, PreflightRuns, CoroutineType
  <2>2. GateInv'
    BY <1>6, <1>50, <1>51, <1>52 DEF Exhausted, Begins, platform, scans, bounds, GateInv,
        Outcomes, ToldInv, Statuses, RowInv, RowsType, PreflightRuns, CoroutineType,
        Working, Telling, Results, Verdicts
  <2> QED
    BY <2>1, <2>2
<1>7. CASE InitializeSteps
  <2>1. OneComment'
    BY <1>7, <1>50, <1>51, <1>52 DEF InitializeSteps, platform, scans, bounds, OneComment,
        Rows, PlatformType, RowsType, PreflightRuns, CoroutineType
  <2>2. GateInv'
    BY <1>7, <1>50, <1>51, <1>52 DEF InitializeSteps, platform, scans, bounds, GateInv,
        Outcomes, ToldInv, Statuses, RowInv, RowsType, PreflightRuns, CoroutineType,
        Working, Telling, Results, Verdicts
  <2> QED
    BY <2>1, <2>2
<1>8. CASE Checkout
  <2>1. OneComment'
    BY <1>8, <1>50, <1>51, <1>52 DEF Checkout, Ends, Fault, scans, OneComment, Rows,
        PlatformType, RowsType, PreflightRuns, CoroutineType
  <2>2. GateInv'
    BY <1>8, <1>50, <1>51, <1>52 DEF Checkout, Ends, Fault, scans, GateInv, Outcomes,
        ToldInv, Statuses, RowInv, RowsType, PreflightRuns, CoroutineType, Working,
        Telling, Results, Verdicts
  <2> QED
    BY <2>1, <2>2
<1>9. CASE AnnouncePending
  <2>1. OneComment'
    BY <1>9, <1>50, <1>51, <1>52 DEF AnnouncePending, Post, PostFails, Ends, Fault, scans,
        OneComment, Rows, PlatformType, RowsType, PreflightRuns, CoroutineType
  <2>2. GateInv'
    BY <1>9, <1>50, <1>51, <1>52 DEF AnnouncePending, Post, PostFails, Ends, Fault, scans,
        GateInv, Outcomes, ToldInv, Statuses, RowInv, RowsType, PreflightRuns,
        CoroutineType, Working, Telling, Results, Verdicts
  <2> QED
    BY <2>1, <2>2
<1>10. CASE AnnounceRunning
  <2>1. OneComment'
    BY <1>10, <1>50, <1>51, <1>52 DEF AnnounceRunning, Post, PostFails, Ends, Fault, scans,
        OneComment, Rows, PlatformType, RowsType, PreflightRuns, CoroutineType
  <2>2. GateInv'
    BY <1>10, <1>50, <1>51, <1>52 DEF AnnounceRunning, Post, PostFails, Ends, Fault, scans,
        GateInv, Outcomes, ToldInv, Statuses, RowInv, RowsType, PreflightRuns,
        CoroutineType, Working, Telling, Results, Verdicts
  <2> QED
    BY <2>1, <2>2
<1>11. CASE StepStarts
  <2>1. OneComment'
    BY <1>11, <1>50, <1>51, <1>52 DEF StepStarts, SetStep, Ends, platform, scans, bounds,
        OneComment, Rows, PlatformType, RowsType, PreflightRuns, CoroutineType
  <2>2. GateInv'
    BY <1>11, <1>50, <1>51, <1>52 DEF StepStarts, SetStep, Ends, platform, scans, bounds,
        GateInv, Outcomes, ToldInv, Statuses, RowInv, RowsType, PreflightRuns,
        CoroutineType, Working, Telling, Results, Verdicts
  <2> QED
    BY <2>1, <2>2
<1>12. CASE StepEnds
  <2>1. OneComment'
    BY <1>12, <1>50, <1>51, <1>52 DEF StepEnds, SetStep, Ends, Fault, platform, scans,
        OneComment, Rows, PlatformType, RowsType, PreflightRuns, CoroutineType
  <2>2. GateInv'
    BY <1>12, <1>50, <1>51, <1>52 DEF StepEnds, SetStep, Ends, Fault, platform, scans,
        GateInv, Outcomes, ToldInv, Statuses, RowInv, RowsType, PreflightRuns,
        CoroutineType, Working, Telling, Results, Verdicts
  <2> QED
    BY <2>1, <2>2
<1>13. CASE AllStepsPassed
  <2>1. OneComment'
    BY <1>13, <1>50, <1>51, <1>52 DEF AllStepsPassed, Ends, platform, scans, bounds,
        OneComment, Rows, PlatformType, RowsType, PreflightRuns, CoroutineType
  <2>2. GateInv'
    BY <1>13, <1>50, <1>51, <1>52 DEF AllStepsPassed, Ends, platform, scans, bounds,
        GateInv, Outcomes, ToldInv, Statuses, RowInv, RowsType, PreflightRuns,
        CoroutineType, Working, Telling, Results, Verdicts
  <2> QED
    BY <2>1, <2>2
<1>14. CASE CleanupFails
  <2>1. OneComment'
    BY <1>14, <1>50, <1>51, <1>52 DEF CleanupFails, Fault, platform, scans, OneComment,
        Rows, PlatformType, RowsType, PreflightRuns, CoroutineType
  <2>2. GateInv'
    BY <1>14, <1>50, <1>51, <1>52 DEF CleanupFails, Fault, platform, scans, GateInv,
        Outcomes, ToldInv, Statuses, RowInv, RowsType, PreflightRuns, CoroutineType,
        Working, Telling, Results, Verdicts
  <2> QED
    BY <2>1, <2>2
<1>15. CASE Finish
  <2>1. OneComment'
    BY <1>15, <1>50, <1>51, <1>52 DEF Finish, platform, scans, bounds, OneComment, Rows,
        PlatformType, RowsType, PreflightRuns, CoroutineType
  <2>2. GateInv'
    BY <1>15, <1>50, <1>51, <1>52 DEF Finish, platform, scans, bounds, GateInv, Outcomes,
        ToldInv, Statuses, RowInv, RowsType, PreflightRuns, CoroutineType, Working,
        Telling, Results, Verdicts
  <2> QED
    BY <2>1, <2>2
<1>16. CASE PublishStatus
  <2>1. OneComment'
    BY <1>16, <1>50, <1>51, <1>52 DEF PublishStatus, Post, PostFails, Fault, scans,
        OneComment, Rows, PlatformType, RowsType, PreflightRuns, CoroutineType
  <2>2. GateInv'
    BY <1>16, <1>50, <1>51, <1>52 DEF PublishStatus, Post, PostFails, Fault, scans,
        GateInv, Outcomes, ToldInv, Statuses, RowInv, RowsType, PreflightRuns,
        CoroutineType, Working, Telling, Results, Verdicts
  <2> QED
    BY <2>1, <2>2
<1>17. CASE MarkPublished
  <2>1. OneComment'
    BY <1>17, <1>50, <1>51, <1>52 DEF MarkPublished, platform, scans, bounds, OneComment,
        Rows, PlatformType, RowsType, PreflightRuns, CoroutineType
  <2>2. GateInv'
    BY <1>17, <1>50, <1>51, <1>52 DEF MarkPublished, platform, scans, bounds, GateInv,
        Outcomes, ToldInv, Statuses, RowInv, RowsType, PreflightRuns, CoroutineType,
        Working, Telling, Results, Verdicts
  <2> QED
    BY <2>1, <2>2
<1>18. CASE SkipComment
  <2>1. OneComment'
    BY <1>18, <1>50, <1>51, <1>52 DEF SkipComment, platform, scans, bounds, OneComment,
        Rows, PlatformType, RowsType, PreflightRuns, CoroutineType
  <2>2. GateInv'
    BY <1>18, <1>50, <1>51, <1>52 DEF SkipComment, platform, scans, bounds, GateInv,
        Outcomes, ToldInv, Statuses, RowInv, RowsType, PreflightRuns, CoroutineType,
        Working, Telling, Results, Verdicts
  <2> QED
    BY <2>1, <2>2
<1>19. CASE SyncComment
  <2>1. OneComment'
    BY <1>19, <1>50, <1>51, <1>52 DEF SyncComment, platform, scans, bounds, OneComment,
        Rows, PlatformType, RowsType, PreflightRuns, CoroutineType
  <2>2. GateInv'
    BY <1>19, <1>50, <1>51, <1>52 DEF SyncComment, platform, scans, bounds, GateInv,
        Outcomes, ToldInv, Statuses, RowInv, RowsType, PreflightRuns, CoroutineType,
        Working, Telling, Results, Verdicts
  <2> QED
    BY <2>1, <2>2
<1>20. CASE DeleteRemote
  <2>1. OneComment'
    BY <1>20, <1>50, <1>51, <1>52 DEF DeleteRemote, Fault, platform, scans, OneComment,
        Rows, PlatformType, RowsType, PreflightRuns, CoroutineType
  <2>2. GateInv'
    BY <1>20, <1>50, <1>51, <1>52 DEF DeleteRemote, Fault, platform, scans, GateInv,
        Outcomes, ToldInv, Statuses, RowInv, RowsType, PreflightRuns, CoroutineType,
        Working, Telling, Results, Verdicts
  <2> QED
    BY <2>1, <2>2
<1>21. CASE DeleteRow
  <2>1. OneComment'
    BY <1>21, <1>50, <1>51, <1>52 DEF DeleteRow, platform, scans, bounds, OneComment, Rows,
        PlatformType, RowsType, PreflightRuns, CoroutineType
  <2>2. GateInv'
    BY <1>21, <1>50, <1>51, <1>52 DEF DeleteRow, platform, scans, bounds, GateInv,
        Outcomes, ToldInv, Statuses, RowInv, RowsType, PreflightRuns, CoroutineType,
        Working, Telling, Results, Verdicts
  <2> QED
    BY <2>1, <2>2
<1>22. CASE CommentsDeleted
  <2>1. OneComment'
    BY <1>22, <1>50, <1>51, <1>52 DEF CommentsDeleted, platform, scans, bounds, OneComment,
        Rows, PlatformType, RowsType, PreflightRuns, CoroutineType
  <2>2. GateInv'
    BY <1>22, <1>50, <1>51, <1>52 DEF CommentsDeleted, platform, scans, bounds, GateInv,
        Outcomes, ToldInv, Statuses, RowInv, RowsType, PreflightRuns, CoroutineType,
        Working, Telling, Results, Verdicts
  <2> QED
    BY <2>1, <2>2
<1>23. CASE CreateComment
  <2>1. OneComment'
    BY <1>23, <1>50, <1>51, <1>52 DEF CreateComment, Fault, scans, OneComment, Rows,
        PlatformType, RowsType, PreflightRuns, CoroutineType
  <2>2. GateInv'
    BY <1>23, <1>50, <1>51, <1>52 DEF CreateComment, Fault, scans, GateInv, Outcomes,
        ToldInv, Statuses, RowInv, RowsType, PreflightRuns, CoroutineType, Working,
        Telling, Results, Verdicts
  <2> QED
    BY <2>1, <2>2
<1>24. CASE SaveComment
  <2>1. OneComment'
    BY <1>24, <1>50, <1>51, <1>52 DEF SaveComment, platform, scans, bounds, OneComment,
        Rows, PlatformType, RowsType, PreflightRuns, CoroutineType
  <2>2. GateInv'
    BY <1>24, <1>50, <1>51, <1>52 DEF SaveComment, platform, scans, bounds, GateInv,
        Outcomes, ToldInv, Statuses, RowInv, RowsType, PreflightRuns, CoroutineType,
        Working, Telling, Results, Verdicts
  <2> QED
    BY <2>1, <2>2
<1>25. CASE Return
  <2>1. OneComment'
    BY <1>25, <1>50, <1>51, <1>52 DEF Return, Close, platform, scans, bounds, OneComment,
        Rows, PlatformType, RowsType, PreflightRuns, CoroutineType
  <2>2. GateInv'
    BY <1>25, <1>50, <1>51, <1>52 DEF Return, Close, platform, scans, bounds, GateInv,
        Outcomes, ToldInv, Statuses, RowInv, Answer, RowsType, PreflightRuns,
        CoroutineType, Working, Telling, Results, Verdicts
  <2> QED
    BY <2>1, <2>2
<1>26. CASE Crash
  <2>1. OneComment'
    BY <1>26, <1>50, <1>51, <1>52 DEF Crash, Close, scans, OneComment, Rows, PlatformType,
        RowsType, PreflightRuns, CoroutineType
  <2>2. GateInv'
    BY <1>26, <1>50, <1>51, <1>52 DEF Crash, Close, scans, GateInv, Outcomes, ToldInv,
        Statuses, RowInv, Recovered, RowsType, PreflightRuns, CoroutineType, Working,
        Telling, Results, Verdicts
  <2> QED
    BY <2>1, <2>2
<1>27. CASE UNCHANGED vars
  <2>1. OneComment'
    BY <1>27, <1>50, <1>51, <1>52 DEF vars, platform, scans, coroutine, bounds, OneComment,
        Rows, PlatformType, RowsType, PreflightRuns, CoroutineType
  <2>2. GateInv'
    BY <1>27, <1>50, <1>51, <1>52 DEF vars, platform, scans, coroutine, bounds, GateInv,
        Outcomes, ToldInv, Statuses, RowInv, RowsType, PreflightRuns, CoroutineType,
        Working, Telling, Results, Verdicts
  <2> QED
    BY <2>1, <2>2
<1> QED
    BY <1>1, <1>2, <1>3, <1>4, <1>5, <1>6, <1>7, <1>8, <1>9, <1>10, <1>11, <1>12, <1>13,
        <1>14, <1>15, <1>16, <1>17, <1>18, <1>19, <1>20, <1>21, <1>22, <1>23, <1>24, <1>25,
        <1>26, <1>27 DEF Next, Ensure

\* Each step keeps the order of the generations, while nothing disturbs it.
LEMMA NextOrder == IInv /\ [Next]_vars => OrderInv'
<1> SUFFICES ASSUME IInv, [Next]_vars PROVE OrderInv'
    OBVIOUS
<1> USE PreflightAssumption DEF IInv, Types
<1>50. queue # <<>> => mine \in Heads /\ cur.gen \in Gens /\ cur.left \in 0..MaxAttempts
    BY MineType
<1>51. pc' # "idle" => queue # <<>> /\ mine' = mine
    BY MineStays
<1>52. pc' # "idle" => cur'.gen = cur.gen
    BY MineStays
<1>53. pc # "idle" => queue # <<>>
    BY DEF CoroutineType
<1>1. ASSUME NEW h \in Heads, Push(h) PROVE OrderInv'
    BY <1>1, <1>50, <1>51, <1>52, <1>53 DEF Push, scans, coroutine, OrderInv, Quiet,
        RowInv, ToldInv, CountInv, PlatformType, Gens, RowsType, PreflightRuns,
        CoroutineType, Working, Telling, Results
<1>2. CASE Scan
  <2>1. faults \in Nat /\ replays \in Nat /\ crashes \in Nat
    BY DEF CountInv
  <2>2. queue \in Seq(Events) /\ gen \in Gens /\ gen' = gen + 1
    BY <1>2 DEF Scan, CoroutineType, PlatformType
  <2>3. /\ gen + 1 \in Gens /\ Event(head, gen + 1, FALSE) \in Events
        /\ Event(head, gen + 1, FALSE).gen = gen + 1
        /\ queue' = Append(queue, Event(head, gen + 1, FALSE))
    BY <1>2, PreflightAssumption DEF Scan, CountInv, PlatformType, Gens, Event, Events
  <2>15. /\ DOMAIN queue = 1..Len(queue) /\ Len(queue) \in Nat
         /\ DOMAIN queue' = 1..Len(queue) + 1
         /\ \A i \in 1..Len(queue) : queue'[i] = queue[i]
         /\ queue'[Len(queue) + 1] = Event(head, gen + 1, FALSE)
    BY ZenonT(30), <2>2, <2>3, Appended
  <2>16. \A i \in 1..Len(queue) : queue[i].gen \in Nat
    <3>1. \A i \in 1..Len(queue) : queue[i] \in Events
      BY <2>2, <2>15
    <3>2. \A g \in Gens : g \in Nat
      BY PreflightAssumption DEF Gens
    <3> QED
      BY <3>1, <3>2 DEF Events
  <2>4. /\ DOMAIN queue = 1..Len(queue) /\ Len(queue) \in Nat
        /\ DOMAIN queue' = 1..Len(queue) + 1
        /\ \A i \in 1..Len(queue) : queue'[i] = queue[i] /\ queue[i].gen \in Nat
        /\ queue'[Len(queue) + 1].gen = gen + 1
    BY <2>3, <2>15, <2>16
  <2>5. closed' = closed /\ \A e \in closed : e.gen \in Nat
    BY <1>2 DEF Scan, GateInv, Outcomes, Gens
  <2>6. gen \in Nat
    BY <2>2 DEF Gens
  <2>7. Quiet' <=> Quiet
    BY <1>2 DEF Scan, bounds, Quiet
  <2>8. row' = row /\ failed' = failed /\ result' = result
    BY <1>2 DEF Scan, coroutine
  <2> SUFFICES ASSUME Quiet, Quiet' PROVE OrderInv'
    BY <2>7 DEF OrderInv
  <2>9. /\ \A i \in 1..Len(queue) : queue[i].gen <= gen
        /\ \A i, j \in 1..Len(queue) : i < j => queue[i].gen < queue[j].gen
        /\ \A e \in closed, i \in 1..Len(queue) : e.gen < queue[i].gen
        /\ \A e \in closed : e.gen <= gen
    BY <2>4 DEF OrderInv
  <2>10. \A i \in 1..Len(queue) + 1 : i \in 1..Len(queue) \/ i = Len(queue) + 1
    BY <2>4
  <2>11. \A i, j \in DOMAIN queue' : i < j => queue'[i].gen < queue'[j].gen
    BY <2>4, <2>6, <2>9, <2>10
  <2>12. \A i \in DOMAIN queue' : queue'[i].gen <= gen'
    BY <2>2, <2>4, <2>6, <2>9, <2>10
  <2>13. \A e \in closed' : e.gen <= gen'
    BY <2>2, <2>5, <2>6, <2>9
  <2>14. \A e \in closed', i \in DOMAIN queue' : e.gen < queue'[i].gen
    BY <2>4, <2>5, <2>6, <2>9, <2>10
  <2> QED
    BY <2>8, <2>11, <2>12, <2>13, <2>14 DEF OrderInv
<1>3. CASE Replay
    BY <1>3, <1>50, <1>51, <1>52, <1>53 DEF Replay, platform, scans, coroutine, OrderInv,
        Quiet, RowInv, ToldInv, CountInv, PlatformType, Gens, RowsType, PreflightRuns,
        CoroutineType, Working, Telling, Results
<1>4. CASE Reuse
  <2>1. faults \in Nat /\ replays \in Nat /\ crashes \in Nat
    BY DEF CountInv
  <2>2. queue \in Seq(Events) /\ queue # <<>> /\ cur.left > 0 /\ queue' = Charged
    BY <1>4 DEF Reuse, Begins, CoroutineType
  <2>3. DOMAIN queue' = DOMAIN queue /\ \A i \in DOMAIN queue : queue'[i].gen = queue[i].gen
    BY <2>2, ChargedFirst, PreflightAssumption
  <2>4. /\ closed' = closed /\ gen' = gen /\ row' = row /\ ~failed' /\ result' # "error"
        /\ (Quiet' <=> Quiet)
    BY <1>4 DEF Reuse, scans, bounds, Quiet, Verdicts
  <2> QED
    BY <2>3, <2>4 DEF OrderInv
<1>5. CASE Reserve
  <2>1. faults \in Nat /\ replays \in Nat /\ crashes \in Nat
    BY DEF CountInv
  <2>2. queue \in Seq(Events) /\ queue # <<>> /\ cur.left > 0 /\ queue' = Charged
    BY <1>5 DEF Reserve, Begins, CoroutineType
  <2>3. DOMAIN queue' = DOMAIN queue /\ \A i \in DOMAIN queue : queue'[i].gen = queue[i].gen
    BY <2>2, ChargedFirst, PreflightAssumption
  <2>4. /\ closed' = closed /\ gen' = gen /\ ~failed' /\ result' # "error" /\ (Quiet' <=> Quiet)
        /\ row' = [row EXCEPT ![mine] = Reservation(row[mine])]
    BY <1>5 DEF Reserve, scans, bounds, Quiet
  <2>5. mine \in Heads /\ row[mine] \in PreflightRuns /\ Reservation(row[mine]) # row[mine]
    BY <1>5, <1>50 DEF Reserve, Begins, RowsType
  <2>6. Reservation(row[mine]).status = "running"
    BY <2>5, ReservationType
  <2>7. \A h \in Heads : row[h].status # "error" => row'[h].status # "error"
    BY <2>4, <2>5, <2>6 DEF RowsType
  <2> QED
    BY <2>3, <2>4, <2>7 DEF OrderInv
<1>6. CASE Exhausted
    BY <1>6, <1>50, <1>51, <1>52, <1>53 DEF Exhausted, Begins, platform, scans, bounds,
        OrderInv, Quiet, RowInv, ToldInv, CountInv, PlatformType, Gens, RowsType,
        PreflightRuns, CoroutineType, Working, Telling, Results
<1>7. CASE InitializeSteps
    BY <1>7, <1>50, <1>51, <1>52, <1>53 DEF InitializeSteps, platform, scans, bounds,
        OrderInv, Quiet, RowInv, ToldInv, CountInv, PlatformType, Gens, RowsType,
        PreflightRuns, CoroutineType, Working, Telling, Results
<1>8. CASE Checkout
    BY SMTT(30), <1>8, <1>50, <1>51, <1>52, <1>53 DEF Checkout, Ends, Fault, scans, OrderInv, Quiet,
        RowInv, ToldInv, CountInv, PlatformType, Gens, RowsType, PreflightRuns,
        CoroutineType, Working, Telling, Results
<1>9. CASE AnnouncePending
    BY SMTT(30), <1>9, <1>50, <1>51, <1>52, <1>53 DEF AnnouncePending, Post, PostFails, Ends, Fault,
        scans, OrderInv, Quiet, RowInv, ToldInv, CountInv, PlatformType, Gens, RowsType,
        PreflightRuns, CoroutineType, Working, Telling, Results
<1>10. CASE AnnounceRunning
    BY SMTT(30), <1>10, <1>50, <1>51, <1>52, <1>53 DEF AnnounceRunning, Post, PostFails, Ends, Fault,
        scans, OrderInv, Quiet, RowInv, ToldInv, CountInv, PlatformType, Gens, RowsType,
        PreflightRuns, CoroutineType, Working, Telling, Results
<1>11. CASE StepStarts
    BY <1>11, <1>50, <1>51, <1>52, <1>53 DEF StepStarts, SetStep, Ends, platform, scans,
        bounds, OrderInv, Quiet, RowInv, ToldInv, CountInv, PlatformType, Gens, RowsType,
        PreflightRuns, CoroutineType, Working, Telling, Results
<1>12. CASE StepEnds
  <2>1. faults \in Nat /\ replays \in Nat /\ crashes \in Nat
    BY DEF CountInv
  <2>2. /\ UNCHANGED <<queue, closed, gen, row, failed, replays, crashes>>
        /\ \/ faults' = faults /\ (result' = result \/ result' = "failure")
           \/ faults' = faults + 1
    BY <1>12 DEF StepEnds, Ends, Fault, scans
  <2> QED
    BY <2>1, <2>2 DEF OrderInv, Quiet
<1>13. CASE AllStepsPassed
    BY <1>13, <1>50, <1>51, <1>52, <1>53 DEF AllStepsPassed, Ends, platform, scans, bounds,
        OrderInv, Quiet, RowInv, ToldInv, CountInv, PlatformType, Gens, RowsType,
        PreflightRuns, CoroutineType, Working, Telling, Results
<1>14. CASE CleanupFails
    BY <1>14, <1>50, <1>51, <1>52, <1>53 DEF CleanupFails, Fault, platform, scans,
        OrderInv, Quiet, RowInv, ToldInv, CountInv, PlatformType, Gens, RowsType,
        PreflightRuns, CoroutineType, Working, Telling, Results
<1>15. CASE Finish
    BY <1>15, <1>50, <1>51, <1>52, <1>53 DEF Finish, platform, scans, bounds, OrderInv,
        Quiet, RowInv, ToldInv, CountInv, PlatformType, Gens, RowsType, PreflightRuns,
        CoroutineType, Working, Telling, Results
<1>16. CASE PublishStatus
    BY SMTT(30), <1>16, <1>50, <1>51, <1>52, <1>53 DEF PublishStatus, Post, PostFails, Fault, scans,
        OrderInv, Quiet, RowInv, ToldInv, CountInv, PlatformType, Gens, RowsType,
        PreflightRuns, CoroutineType, Working, Telling, Results
<1>17. CASE MarkPublished
    BY <1>17, <1>50, <1>51, <1>52, <1>53 DEF MarkPublished, platform, scans, bounds,
        OrderInv, Quiet, RowInv, ToldInv, CountInv, PlatformType, Gens, RowsType,
        PreflightRuns, CoroutineType, Working, Telling, Results
<1>18. CASE SkipComment
    BY <1>18, <1>50, <1>51, <1>52, <1>53 DEF SkipComment, platform, scans, bounds,
        OrderInv, Quiet, RowInv, ToldInv, CommentStays, CountInv, PlatformType, Gens,
        RowsType, PreflightRuns, CoroutineType, Working, Telling, Results
<1>19. CASE SyncComment
    BY <1>19, <1>50, <1>51, <1>52, <1>53 DEF SyncComment, platform, scans, bounds,
        OrderInv, Quiet, RowInv, ToldInv, CommentStays, CountInv, PlatformType, Gens,
        RowsType, PreflightRuns, CoroutineType, Working, Telling, Results
<1>20. CASE DeleteRemote
    BY SMTT(30), <1>20, <1>50, <1>51, <1>52, <1>53 DEF DeleteRemote, Fault, platform, scans,
        OrderInv, Quiet, RowInv, ToldInv, CountInv, PlatformType, Gens, RowsType,
        PreflightRuns, CoroutineType, Working, Telling, Results
<1>21. CASE DeleteRow
    BY <1>21, <1>50, <1>51, <1>52, <1>53 DEF DeleteRow, platform, scans, bounds, OrderInv,
        Quiet, RowInv, ToldInv, CountInv, PlatformType, Gens, RowsType, PreflightRuns,
        CoroutineType, Working, Telling, Results
<1>22. CASE CommentsDeleted
    BY <1>22, <1>50, <1>51, <1>52, <1>53 DEF CommentsDeleted, platform, scans, bounds,
        OrderInv, Quiet, RowInv, ToldInv, CountInv, PlatformType, Gens, RowsType,
        PreflightRuns, CoroutineType, Working, Telling, Results
<1>23. CASE CreateComment
    BY SMTT(30), <1>23, <1>50, <1>51, <1>52, <1>53 DEF CreateComment, Fault, scans, OrderInv, Quiet,
        RowInv, ToldInv, CountInv, PlatformType, Gens, RowsType, PreflightRuns,
        CoroutineType, Working, Telling, Results
<1>24. CASE SaveComment
    BY <1>24, <1>50, <1>51, <1>52, <1>53 DEF SaveComment, platform, scans, bounds,
        OrderInv, Quiet, RowInv, ToldInv, CountInv, PlatformType, Gens, RowsType,
        PreflightRuns, CoroutineType, Working, Telling, Results
<1>25. CASE Return
  <2> SUFFICES ASSUME Quiet, Quiet' PROVE OrderInv'
    BY <1>25 DEF Return, bounds, Quiet, OrderInv
  <2>1. /\ ~failed /\ result # "error" /\ queue # <<>> /\ queue \in Seq(Events)
        /\ row' = row /\ gen' = gen /\ ~failed' /\ result' # "error"
    BY <1>25, <1>53 DEF Return, scans, OrderInv, CoroutineType
  <2>2. /\ queue' = Tail(queue)
        /\ closed' = closed \cup {[head |-> mine, gen |-> cur.gen, outcome |-> Answer]}
    BY <1>25, <2>1 DEF Return, Close, Answer
  <2>3. /\ DOMAIN queue = 1..Len(queue) /\ Len(queue) \in Nat \ {0}
        /\ DOMAIN queue' = 1..Len(queue) - 1
        /\ \A i \in 1..Len(queue) - 1 : queue'[i] = queue[i + 1]
    BY <2>1, <2>2, Rest
  <2>4. cur = queue[1]
    BY <2>1, FirstEvent DEF cur
  <2>5. /\ \A i \in 1..Len(queue) : queue[i].gen <= gen
        /\ \A i, j \in 1..Len(queue) : i < j => queue[i].gen < queue[j].gen
        /\ \A e \in closed, i \in 1..Len(queue) : e.gen < queue[i].gen
        /\ \A e \in closed : e.gen <= gen
        /\ \A h \in Heads : row[h].status # "error"
    BY <2>3 DEF OrderInv
  <2>6. \A e \in closed' : e \in closed \/ e.gen = queue[1].gen
    BY <2>2, <2>4
  <2>7. \A e \in closed' : e.gen <= gen'
    BY <2>1, <2>3, <2>5, <2>6
  <2>8. \A i, j \in DOMAIN queue' : i < j => queue'[i].gen < queue'[j].gen
    BY <2>3, <2>5
  <2>9. \A i \in DOMAIN queue' : queue'[i].gen <= gen'
    BY <2>1, <2>3, <2>5
  <2>10. \A e \in closed', i \in DOMAIN queue' : e.gen < queue'[i].gen
    <3> SUFFICES ASSUME NEW e \in closed', NEW i \in DOMAIN queue' PROVE e.gen < queue'[i].gen
      OBVIOUS
    <3>1. /\ i + 1 \in 1..Len(queue) /\ 1 \in 1..Len(queue) /\ 1 < i + 1
          /\ queue'[i] = queue[i + 1]
      BY <2>3
    <3> QED
      BY <2>5, <2>6, <3>1
  <2> QED
    BY <2>1, <2>5, <2>7, <2>8, <2>9, <2>10 DEF OrderInv
<1>26. CASE Crash
  <2>1. faults \in Nat /\ replays \in Nat /\ crashes \in Nat
    BY DEF CountInv
  <2>2. crashes' = crashes + 1 /\ replays' = replays /\ faults' = faults
    BY <1>26 DEF Crash
  <2>3. ~Quiet'
    BY <2>1, <2>2 DEF Quiet
  <2> QED
    BY <2>3 DEF OrderInv
<1>27. CASE UNCHANGED vars
    BY <1>27, <1>50, <1>51, <1>52, <1>53 DEF vars, platform, scans, coroutine, bounds,
        OrderInv, Quiet, RowInv, ToldInv, CountInv, PlatformType, Gens, RowsType,
        PreflightRuns, CoroutineType, Working, Telling, Results
<1> QED
    BY <1>1, <1>2, <1>3, <1>4, <1>5, <1>6, <1>7, <1>8, <1>9, <1>10, <1>11, <1>12, <1>13,
        <1>14, <1>15, <1>16, <1>17, <1>18, <1>19, <1>20, <1>21, <1>22, <1>23, <1>24, <1>25,
        <1>26, <1>27 DEF Next, Ensure

\* Each step keeps what the comment says of the newest generation.
LEMMA NextComment == IInv /\ [Next]_vars => CommentInv'
<1> SUFFICES ASSUME IInv, [Next]_vars PROVE CommentInv'
    OBVIOUS
<1> USE PreflightAssumption DEF IInv, Types
<1>50. queue # <<>> => mine \in Heads /\ cur.gen \in Gens /\ cur.left \in 0..MaxAttempts
    BY MineType
<1>51. pc' # "idle" => queue # <<>> /\ mine' = mine
    BY MineStays
<1>52. pc' # "idle" => cur'.gen = cur.gen
    BY MineStays
<1>53. pc # "idle" => queue # <<>>
    BY DEF CoroutineType
<1>54. Quiet /\ pc # "idle" => (\A e \in closed : e.gen # gen)
  <2> SUFFICES ASSUME Quiet, pc # "idle", NEW e \in closed PROVE e.gen # gen
    OBVIOUS
  <2>1. 1 \in DOMAIN queue /\ queue[1] \in Events /\ e.gen \in Gens
    BY <1>53, FirstEvent DEF CoroutineType, GateInv, Outcomes
  <2>2. e.gen < queue[1].gen /\ queue[1].gen <= gen
    BY <2>1 DEF OrderInv
  <2> QED
    BY <2>1, <2>2 DEF Events, Gens, PlatformType
<1>1. ASSUME NEW h \in Heads, Push(h) PROVE CommentInv'
    BY <1>1, <1>50, <1>51, <1>52, <1>53, <1>54, PreflightAssumption DEF Push, scans,
        coroutine, CommentInv, OneComment, OrderInv, Quiet, Rows, ToldInv, CountInv,
        PlatformType, Gens, RowsType, PreflightRuns, CoroutineType, Telling, Results
<1>2. CASE Scan
    BY SMTT(30), <1>2, <1>50, <1>51, <1>52, <1>53, <1>54, PreflightAssumption DEF Scan, platform,
        coroutine, bounds, CommentInv, OneComment, OrderInv, Quiet, Rows, ToldInv,
        CountInv, PlatformType, Gens, RowsType, PreflightRuns, CoroutineType, Telling,
        Results
<1>3. CASE Replay
    BY <1>3, <1>50, <1>51, <1>52, <1>53, <1>54, PreflightAssumption DEF Replay, platform,
        scans, coroutine, CommentInv, OneComment, OrderInv, Quiet, Rows, ToldInv, CountInv,
        PlatformType, Gens, RowsType, PreflightRuns, CoroutineType, Telling, Results
<1>4. CASE Reuse
    BY <1>4, <1>50, <1>51, <1>52, <1>53, <1>54, PreflightAssumption DEF Reuse, Begins,
        platform, scans, bounds, CommentInv, OneComment, OrderInv, Quiet, Rows, ToldInv,
        CountInv, PlatformType, Gens, RowsType, PreflightRuns, CoroutineType, Telling,
        Results, Verdicts
<1>5. CASE Reserve
    BY <1>5, <1>50, <1>51, <1>52, <1>53, <1>54, PreflightAssumption DEF Reserve, Begins,
        platform, scans, bounds, CommentInv, OneComment, OrderInv, Quiet, Rows, ToldInv,
        CountInv, PlatformType, Gens, RowsType, PreflightRuns, CoroutineType, Telling,
        Results, Verdicts
<1>6. CASE Exhausted
    BY <1>6, <1>50, <1>51, <1>52, <1>53, <1>54, PreflightAssumption DEF Exhausted, Begins,
        platform, scans, bounds, CommentInv, OneComment, OrderInv, Quiet, Rows, ToldInv,
        CountInv, PlatformType, Gens, RowsType, PreflightRuns, CoroutineType, Telling,
        Results
<1>7. CASE InitializeSteps
    BY <1>7, <1>50, <1>51, <1>52, <1>53, <1>54, PreflightAssumption DEF InitializeSteps,
        platform, scans, bounds, CommentInv, OneComment, OrderInv, Quiet, Rows, ToldInv,
        CountInv, PlatformType, Gens, RowsType, PreflightRuns, CoroutineType, Telling,
        Results
<1>8. CASE Checkout
  <2>1. faults \in Nat /\ replays \in Nat /\ crashes \in Nat
    BY DEF CountInv
  <2>2. /\ UNCHANGED <<queue, closed, gen, mapped>>
        /\ replays' = replays /\ crashes' = crashes /\ (faults' = faults \/ faults' = faults + 1)
        /\ pc' # "return" /\ pc # "idle"
    BY <1>8 DEF Checkout, Ends, Fault, scans
  <2>3. Quiet' => Quiet
    BY <2>1, <2>2 DEF Quiet
  <2> QED
    BY <2>2, <2>3, <1>54 DEF CommentInv
<1>9. CASE AnnouncePending
    BY SMTT(30), <1>9, <1>50, <1>51, <1>52, <1>53, <1>54, PreflightAssumption DEF AnnouncePending,
        Post, PostFails, Ends, Fault, scans, CommentInv, OneComment, OrderInv, Quiet, Rows,
        ToldInv, CountInv, PlatformType, Gens, RowsType, PreflightRuns, CoroutineType,
        Telling, Results
<1>10. CASE AnnounceRunning
    BY <1>10, <1>50, <1>51, <1>52, <1>53, <1>54, PreflightAssumption DEF AnnounceRunning,
        Post, PostFails, Ends, Fault, scans, CommentInv, OneComment, OrderInv, Quiet, Rows,
        ToldInv, CountInv, PlatformType, Gens, RowsType, PreflightRuns, CoroutineType,
        Telling, Results
<1>11. CASE StepStarts
    BY <1>11, <1>50, <1>51, <1>52, <1>53, <1>54, PreflightAssumption DEF StepStarts,
        SetStep, Ends, platform, scans, bounds, CommentInv, OneComment, OrderInv, Quiet,
        Rows, ToldInv, CountInv, PlatformType, Gens, RowsType, PreflightRuns,
        CoroutineType, Telling, Results
<1>12. CASE StepEnds
    BY SMTT(30), <1>12, <1>50, <1>51, <1>52, <1>53, <1>54, PreflightAssumption DEF StepEnds, SetStep,
        Ends, Fault, platform, scans, CommentInv, OneComment, OrderInv, Quiet, Rows,
        ToldInv, CountInv, PlatformType, Gens, RowsType, PreflightRuns, CoroutineType,
        Telling, Results
<1>13. CASE AllStepsPassed
    BY <1>13, <1>50, <1>51, <1>52, <1>53, <1>54, PreflightAssumption DEF AllStepsPassed,
        Ends, platform, scans, bounds, CommentInv, OneComment, OrderInv, Quiet, Rows,
        ToldInv, CountInv, PlatformType, Gens, RowsType, PreflightRuns, CoroutineType,
        Telling, Results
<1>14. CASE CleanupFails
    BY <1>14, <1>50, <1>51, <1>52, <1>53, <1>54, PreflightAssumption DEF CleanupFails,
        Fault, platform, scans, CommentInv, OneComment, OrderInv, Quiet, Rows, ToldInv,
        CountInv, PlatformType, Gens, RowsType, PreflightRuns, CoroutineType, Telling,
        Results
<1>15. CASE Finish
    BY <1>15, <1>50, <1>51, <1>52, <1>53, <1>54, PreflightAssumption DEF Finish, platform,
        scans, bounds, CommentInv, OneComment, OrderInv, Quiet, Rows, ToldInv, CountInv,
        PlatformType, Gens, RowsType, PreflightRuns, CoroutineType, Telling, Results
<1>16. CASE PublishStatus
    BY <1>16, <1>50, <1>51, <1>52, <1>53, <1>54, PreflightAssumption DEF PublishStatus,
        Post, PostFails, Fault, scans, CommentInv, OneComment, OrderInv, Quiet, Rows,
        ToldInv, CountInv, PlatformType, Gens, RowsType, PreflightRuns, CoroutineType,
        Telling, Results
<1>17. CASE MarkPublished
    BY <1>17, <1>50, <1>51, <1>52, <1>53, <1>54, PreflightAssumption DEF MarkPublished,
        platform, scans, bounds, CommentInv, OneComment, OrderInv, Quiet, Rows, ToldInv,
        CountInv, PlatformType, Gens, RowsType, PreflightRuns, CoroutineType, Telling,
        Results
<1>18. CASE SkipComment
    BY <1>18, <1>50, <1>51, <1>52, <1>53, <1>54, PreflightAssumption DEF SkipComment,
        platform, scans, bounds, CommentInv, OneComment, OrderInv, Quiet, Rows, ToldInv,
        CommentStays, CountInv, PlatformType, Gens, RowsType, PreflightRuns, CoroutineType,
        Telling, Results
<1>19. CASE SyncComment
    BY <1>19, <1>50, <1>51, <1>52, <1>53, <1>54, PreflightAssumption DEF SyncComment,
        platform, scans, bounds, CommentInv, OneComment, OrderInv, Quiet, Rows, ToldInv,
        CommentStays, CountInv, PlatformType, Gens, RowsType, PreflightRuns, CoroutineType,
        Telling, Results
<1>20. CASE DeleteRemote
  <2>1. faults \in Nat /\ replays \in Nat /\ crashes \in Nat
    BY DEF CountInv
  <2>2. /\ UNCHANGED <<queue, closed, gen, mapped, replays, crashes>>
        /\ pc # "idle"
        /\ \/ faults' = faults /\ pc' # "return"
           \/ faults' = faults + 1
    BY <1>20 DEF DeleteRemote, Fault, scans
  <2> QED
    BY <2>1, <2>2, <1>54 DEF CommentInv, Quiet
<1>21. CASE DeleteRow
    BY <1>21, <1>50, <1>51, <1>52, <1>53, <1>54, PreflightAssumption DEF DeleteRow,
        platform, scans, bounds, CommentInv, OneComment, OrderInv, Quiet, Rows, ToldInv,
        CountInv, PlatformType, Gens, RowsType, PreflightRuns, CoroutineType, Telling,
        Results
<1>22. CASE CommentsDeleted
    BY <1>22, <1>50, <1>51, <1>52, <1>53, <1>54, PreflightAssumption DEF CommentsDeleted,
        platform, scans, bounds, CommentInv, OneComment, OrderInv, Quiet, Rows, ToldInv,
        CountInv, PlatformType, Gens, RowsType, PreflightRuns, CoroutineType, Telling,
        Results
<1>23. CASE CreateComment
    BY SMTT(30), <1>23, <1>50, <1>51, <1>52, <1>53, <1>54, PreflightAssumption DEF CreateComment,
        Fault, scans, CommentInv, OneComment, OrderInv, Quiet, Rows, ToldInv, CountInv,
        PlatformType, Gens, RowsType, PreflightRuns, CoroutineType, Telling, Results
<1>24. CASE SaveComment
    BY <1>24, <1>50, <1>51, <1>52, <1>53, <1>54, PreflightAssumption DEF SaveComment,
        platform, scans, bounds, CommentInv, OneComment, OrderInv, Quiet, Rows, ToldInv,
        CountInv, PlatformType, Gens, RowsType, PreflightRuns, CoroutineType, Telling,
        Results
<1>25. CASE Return
    BY <1>25, <1>50, <1>51, <1>52, <1>53, <1>54, PreflightAssumption DEF Return, Close,
        platform, scans, bounds, CommentInv, OneComment, OrderInv, Quiet, Rows, ToldInv,
        Answer, CountInv, PlatformType, Gens, RowsType, PreflightRuns, CoroutineType,
        Telling, Results
<1>26. CASE Crash
    BY <1>26, <1>50, <1>51, <1>52, <1>53, <1>54, PreflightAssumption DEF Crash, Close,
        scans, CommentInv, OneComment, OrderInv, Quiet, Rows, ToldInv, CountInv,
        PlatformType, Gens, RowsType, PreflightRuns, CoroutineType, Telling, Results
<1>27. CASE UNCHANGED vars
    BY <1>27, <1>50, <1>51, <1>52, <1>53, <1>54, PreflightAssumption DEF vars, platform,
        scans, coroutine, bounds, CommentInv, OneComment, OrderInv, Quiet, Rows, ToldInv,
        CountInv, PlatformType, Gens, RowsType, PreflightRuns, CoroutineType, Telling,
        Results
<1> QED
    BY <1>1, <1>2, <1>3, <1>4, <1>5, <1>6, <1>7, <1>8, <1>9, <1>10, <1>11, <1>12, <1>13,
        <1>14, <1>15, <1>16, <1>17, <1>18, <1>19, <1>20, <1>21, <1>22, <1>23, <1>24, <1>25,
        <1>26, <1>27 DEF Next, Ensure

-----------------------------------------------------------------------------
(* The theorems.                                                            *)

\* A service that has just scanned its pull request has the invariant.
LEMMA InitIInv == Init => IInv
<1> SUFFICES ASSUME Init PROVE IInv
    OBVIOUS
<1> USE PreflightAssumption DEF Init
<1>1. 1 \in Gens /\ MaxAttempts \in 0..MaxAttempts /\ 0 \in 0..MaxAttempts
    BY DEF Gens
<1>2. Event(FirstHead, 1, FALSE) \in Events
    BY <1>1 DEF Event, Events
<1>3. PlatformType
    BY <1>1 DEF PlatformType, RemoteStates
<1>4. RowsType
    BY <1>1 DEF RowsType, PreflightRuns, NoRow, Statuses, StepStatuses
<1>5. CoroutineType /\ CountInv
  <2>1. queue \in Seq(Events)
    <3> HIDE DEF Init
    <3>1. PICK e \in Events : queue = <<e>>
      BY <1>2 DEF Init
    <3> QED
      BY <3>1
  <2>2. CountInv
    BY DEF CountInv
  <2> QED
    BY <2>1, <2>2, Zenon DEF CoroutineType, Places, Statuses
<1>6. RowInv /\ ToldInv /\ PublishedInv /\ StepsInv
    BY DEF RowInv, ToldInv, PublishedInv, StepsInv, NoRow, Working, Telling
<1>7. Rows = {} /\ closed = {}
    BY DEF Rows
<1>8. OneComment /\ CommentInv /\ GateInv
    BY <1>7 DEF OneComment, CommentInv, GateInv
<1>9. OrderInv
  <2>1. Len(queue) = 1 /\ DOMAIN queue = {1} /\ queue[1].gen = 1
    BY DEF Event
  <2>2. /\ \A i, j \in DOMAIN queue : ~(i < j)
        /\ \A i \in DOMAIN queue : queue[i].gen <= 1
    <3> HIDE DEF Init
    <3>1. \A i \in DOMAIN queue : i = 1
      BY <2>1
    <3> QED
      BY <2>1, <3>1
  <2>3. /\ gen = 1 /\ failed = FALSE /\ result = "none"
        /\ \A h \in Heads : row[h].status # "error"
    BY DEF NoRow
  <2> HIDE DEF Init
  <2> QED
    BY <1>7, <2>2, <2>3 DEF OrderInv
<1> QED
    BY <1>3, <1>4, <1>5, <1>6, <1>8, <1>9 DEF IInv, Types

\* Each step of the gate, the scan, the people and a crash keeps the invariant.
LEMMA NextIInv == IInv /\ [Next]_vars => IInv'
<1> SUFFICES ASSUME IInv, [Next]_vars PROVE IInv'
    OBVIOUS
<1>1. Types'
    BY TypesNext DEF IInv
<1> QED
    BY <1>1, NextRecords, NextSteps, NextGate, NextOrder, NextComment DEF IInv

\* In every reachable state the invariant holds.
LEMMA Inductive == Spec => []IInv
BY InitIInv, NextIInv, PTL DEF Spec

\* Commit status, verdict and steps of a head tell the same story, and no row runs
\* without a coroutine (preflight.py: _publish_terminal_result; state.py:
\* finish_preflight_run, recover_interrupted_work).
THEOREM StoriesAgree == Spec => []PreflightInv
<1>1. IInv => PreflightInv
  <2> SUFFICES ASSUME IInv PROVE PreflightInv
    OBVIOUS
  <2>1. TypeOK
    BY TypesTypeOK DEF IInv
  <2>2. \A h \in Heads : row[h].status = "running" => pc # "idle" /\ mine = h
    BY DEF IInv, RowInv, Working
  <2> QED
    BY <2>1, <2>2 DEF IInv, PublishedInv, StepsInv, PreflightInv
<1> QED
    BY <1>1, Inductive, PTL

\* The database knows at most one failure comment, and after the verdict about the
\* newest generation, undisturbed, it is there exactly if that failed
\* (preflight.py: _sync_failure_comment).
THEOREM CommentFollows == Spec => []CommentFollowsGate
<1>1. IInv => CommentFollowsGate
  <2> SUFFICES ASSUME IInv PROVE CommentFollowsGate
    OBVIOUS
  <2>1. Cardinality(Rows) <= 1
    <3>1. CASE Rows = {}
      BY <3>1, FS_EmptySet
    <3>2. CASE Rows # {}
      <4>1. PICK g \in Rows : Rows = {g}
        BY <3>2 DEF IInv, OneComment
      <4>2. Cardinality({g}) = 1
        BY FS_Singleton
      <4> QED
        BY <4>1, <4>2
    <3> QED
      BY <3>1, <3>2
  <2> QED
    BY <2>1 DEF IInv, CommentInv, Quiet, CommentFollowsGate
<1> QED
    BY <1>1, Inductive, PTL

Verdict == [h \in Heads |-> IF row[h].status \in Verdicts THEN row[h].status ELSE "open"]
Passing == {o.head : o \in {e \in closed : e.outcome = "success"}}

\* The gate concludes about one head, or lets the Agents of one start, or stutters.
LEMMA GateStep == IInv /\ [Next]_vars =>
    \/ \E h \in Heads, v \in {"success", "failure", "superseded"} :
          Verdict[h] = "open" /\ Verdict' = [Verdict EXCEPT ![h] = v] /\ Passing' = Passing
    \/ \E h \in Heads : Verdict[h] = "success" /\ Passing' = Passing \cup {h} /\ Verdict' = Verdict
    \/ Verdict' = Verdict /\ Passing' = Passing
<1> SUFFICES ASSUME IInv, [Next]_vars
             PROVE  \/ \E h \in Heads, v \in {"success", "failure", "superseded"} :
                          /\ Verdict[h] = "open" /\ Verdict' = [Verdict EXCEPT ![h] = v]
                          /\ Passing' = Passing
                    \/ \E h \in Heads : /\ Verdict[h] = "success" /\ Verdict' = Verdict
                                        /\ Passing' = Passing \cup {h}
                    \/ Verdict' = Verdict /\ Passing' = Passing
    OBVIOUS
<1> USE PreflightAssumption DEF IInv, Types
<1>1. CASE UNCHANGED <<row, closed>>
    BY <1>1 DEF Verdict, Passing
<1>2. CASE Reserve
  <2>1. mine \in Heads /\ row[mine] \in PreflightRuns /\ Reservation(row[mine]) # row[mine]
    BY <1>2, MineType DEF Reserve, Begins, RowsType
  <2>2. row[mine].status \in {"none", "error"} /\ Reservation(row[mine]).status = "running"
    BY <2>1, ReservationType
  <2>3. /\ row'[mine] = Reservation(row[mine]) /\ \A h \in Heads \ {mine} : row'[h] = row[h]
        /\ closed' = closed
    BY <1>2, <2>1 DEF Reserve, RowsType
  <2>4. \A h \in Heads : (IF row'[h].status \in Verdicts THEN row'[h].status ELSE "open")
                       = (IF row[h].status \in Verdicts THEN row[h].status ELSE "open")
    BY <2>2, <2>3 DEF Verdicts
  <2> QED
    BY <2>3, <2>4 DEF Verdict, Passing
<1>3. CASE Finish
  <2>1. mine \in Heads /\ row[mine].status = "running" /\ result \in Results \cup {"superseded"}
    BY <1>3, MineType DEF Finish, CoroutineType, RowInv, ToldInv, Working
  <2>2. /\ row'[mine].status = result /\ \A h \in Heads \ {mine} : row'[h] = row[h]
        /\ closed' = closed
    BY <1>3, <2>1 DEF Finish, RowsType, PreflightRuns
  <2>3. Verdict[mine] = "open" /\ Passing' = Passing
    BY <2>1, <2>2 DEF Verdict, Verdicts, Passing
  <2>4. CASE result = "error"
    <3>1. \A h \in Heads : (IF row'[h].status \in Verdicts THEN row'[h].status ELSE "open")
                         = (IF row[h].status \in Verdicts THEN row[h].status ELSE "open")
      BY <2>1, <2>2, <2>4 DEF Verdicts
    <3> QED
      BY <2>3, <3>1 DEF Verdict
  <2>5. CASE result \in {"success", "failure", "superseded"}
    <3>1. \A h \in Heads : (IF row'[h].status \in Verdicts THEN row'[h].status ELSE "open")
                         = IF h = mine THEN result ELSE Verdict[h]
      BY <2>1, <2>2, <2>5 DEF Verdicts, Verdict
    <3>2. Verdict' = [h \in Heads |-> IF h = mine THEN result ELSE Verdict[h]]
      BY <3>1 DEF Verdict
    <3>3. Verdict' = [Verdict EXCEPT ![mine] = result]
      BY <3>2 DEF Verdict
    <3> QED
      BY <2>1, <2>3, <2>5, <3>3
  <2> QED
    BY <2>1, <2>4, <2>5 DEF Results
<1>4. CASE MarkPublished
  <2>1. \A h \in Heads : row'[h].status = row[h].status
    BY <1>4 DEF MarkPublished, RowsType, PreflightRuns
  <2>2. closed' = closed
    BY <1>4 DEF MarkPublished
  <2> QED
    BY <2>1, <2>2 DEF Verdict, Passing
<1>5. CASE Return
  <2>1. /\ row' = row /\ mine \in Heads /\ row[mine].status = result
        /\ closed' = closed \/ closed' = closed \cup
               {[head |-> mine, gen |-> cur.gen, outcome |-> Answer]}
    BY <1>5, MineType DEF Return, Close, CoroutineType, ToldInv
  <2>2. Verdict' = Verdict
    BY <2>1 DEF Verdict
  <2>3. CASE Answer # "success" \/ closed' = closed
    <3>1. \A e : e \in closed' /\ e.outcome = "success" <=> e \in closed /\ e.outcome = "success"
      BY <2>1, <2>3
    <3> QED
      BY <2>2, <3>1 DEF Passing
  <2>4. CASE Answer = "success" /\ closed' # closed
    <3>1. result = "success" /\ Verdict[mine] = "success"
      BY <2>1, <2>4 DEF Answer, Verdict, Verdicts
    <3>2. Passing' = Passing \cup {mine}
      BY <2>1, <2>4 DEF Passing
    <3> QED
      BY <2>1, <2>2, <3>1, <3>2
  <2> QED
    BY <2>3, <2>4
<1>6. CASE Crash
  <2>1. \A h \in Heads : (IF row'[h].status \in Verdicts THEN row'[h].status ELSE "open")
                       = (IF row[h].status \in Verdicts THEN row[h].status ELSE "open")
    BY <1>6 DEF Crash, Recovered, RowsType, PreflightRuns, Verdicts
  <2>2. closed' = closed \/ closed' = closed \cup
            {[head |-> mine, gen |-> cur.gen, outcome |-> "error"]}
    BY <1>6 DEF Crash, Close
  <2>3. \A e : e \in closed' /\ e.outcome = "success" <=> e \in closed /\ e.outcome = "success"
    BY <2>2
  <2> QED
    BY <2>1, <2>3 DEF Verdict, Passing
<1>7. ASSUME NEW h \in Heads, Push(h) PROVE UNCHANGED <<row, closed>>
    BY <1>7 DEF Push
<1>8. CASE Scan \/ Replay
    BY <1>1, <1>8 DEF Scan, Replay
<1>9. CASE UNCHANGED vars
    BY <1>1, <1>9 DEF vars
<1>10. CASE Ensure /\ ~Reserve /\ ~Finish /\ ~MarkPublished /\ ~Return
    BY <1>1, <1>10 DEF Ensure, Reuse, Exhausted, InitializeSteps, Checkout, AnnouncePending,
       AnnounceRunning, StepStarts, StepEnds, AllStepsPassed, CleanupFails, PublishStatus,
       SkipComment, SyncComment, DeleteRemote, DeleteRow, CommentsDeleted, CreateComment,
       SaveComment
<1> QED
    BY <1>1, <1>2, <1>3, <1>4, <1>5, <1>6, <1>7, <1>8, <1>9, <1>10 DEF Next, Ensure

\* The preflight implements its gate: one verdict about a head, never taken back, and
\* Agents behind a success of their own head only (state.py: begin_preflight_run,
\* finish_preflight_run; preflight.py: ensure_passed).
THEOREM GateImplemented == Spec => ImplementsGate
<1>1. Init => Gate!Init
  <2> SUFFICES ASSUME Init PROVE Gate!Init
    OBVIOUS
  <2>1. \A h \in Heads : row[h].status \notin Verdicts
    BY DEF Init, NoRow, Verdicts
  <2>2. closed = {}
    BY DEF Init
  <2> QED
    BY <2>1, <2>2 DEF Gate!Init
<1>2. IInv /\ [Next]_vars => [Gate!Next]_<<Verdict, Passing>>
    BY GateStep DEF Gate!Next, Gate!Conclude, Gate!Open, Verdict, Passing
<1> QED
    BY <1>1, <1>2, Inductive, PTL DEF Spec, ImplementsGate, Gate!Spec, Verdict, Passing

================================================================================
